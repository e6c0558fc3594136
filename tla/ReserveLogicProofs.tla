------------------------- MODULE ReserveLogicProofs -------------------------
(***************************************************************************)
(* What the fixed-point arithmetic guarantees for every scale; sums over   *)
(* finite sets (balances over accounts, cash over reserves); and what the  *)
(* operations on one reserve and its tokens preserve, for every amount,    *)
(* index, rate and block time.                                             *)
(***************************************************************************)
EXTENDS ReserveLogic, FiniteSetsExt, Integers, FiniteSetTheorems, WellFoundedInduction, TLAPS

(***************************************************************************)
(* Integer division, as its two inequalities.                              *)
(***************************************************************************)
LEMMA DivBounds ==
  ASSUME NEW a \in Nat, NEW b \in Nat \ {0}
  PROVE  /\ a \div b \in Nat
         /\ (a \div b) * b <= a
         /\ a < (a \div b) * b + b
<1>1. a \div b \in Nat BY SMT
<1>2. a = b * (a \div b) + (a % b) BY SMT
<1>3. a % b \in 0 .. (b - 1) BY SMT
<1> QED BY <1>1, <1>2, <1>3, SMT

\* Products of naturals are monotone in each factor.
LEMMA ProductMonotone ==
  ASSUME NEW a \in Nat, NEW b \in Nat, NEW c \in Nat, a <= b
  PROVE  a * c <= b * c
BY SMT

\* A quotient is at least c when c times the divisor fits.
LEMMA DivAtLeast ==
  ASSUME NEW a \in Nat, NEW b \in Nat \ {0}, NEW c \in Nat, c * b <= a
  PROVE  c <= a \div b
<1> DEFINE q == a \div b
<1>1. q \in Nat /\ a < q * b + b BY DivBounds
<1> HIDE DEF q
<1>2. SUFFICES ASSUME q + 1 <= c PROVE FALSE BY <1>1, SMT DEF q
<1>3. (q + 1) * b <= c * b BY <1>1, <1>2, ProductMonotone
<1>4. (q + 1) * b = q * b + b BY <1>1, SMT
<1> QED BY <1>1, <1>3, <1>4, SMT

\* A quotient is at most c when the dividend does not reach c + 1 divisors.
LEMMA DivAtMost ==
  ASSUME NEW a \in Nat, NEW b \in Nat \ {0}, NEW c \in Nat, a < c * b + b
  PROVE  a \div b <= c
<1> DEFINE q == a \div b
<1>1. q \in Nat /\ q * b <= a BY DivBounds
<1> HIDE DEF q
<1>2. SUFFICES ASSUME c + 1 <= q PROVE FALSE BY <1>1, SMT DEF q
<1>3. (c + 1) * b <= q * b BY <1>1, <1>2, ProductMonotone
<1>4. (c + 1) * b = c * b + b BY SMT
<1> QED BY <1>1, <1>3, <1>4, SMT

\* A product grows with both its factors.
LEMMA FactorsMonotone ==
  ASSUME NEW a \in Nat, NEW b \in Nat, NEW c \in Nat, NEW d \in Nat, a <= c, b <= d
  PROVE  a * b \in Nat /\ c * d \in Nat /\ a * b <= c * d
<1>1. a * b <= c * b BY ProductMonotone
<1>2. b * c <= d * c BY ProductMonotone
<1>3. a * b \in Nat /\ c * d \in Nat /\ c * b \in Nat BY SMT
<1> QED BY <1>1, <1>2, <1>3, SMT

\* A quotient grows with its dividend.
LEMMA QuotientMonotone ==
  ASSUME NEW a \in Nat, NEW b \in Nat, NEW d \in Nat \ {0}, a <= b
  PROVE  a \div d \in Nat /\ b \div d \in Nat /\ a \div d <= b \div d
<1>1. a \div d \in Nat /\ (a \div d) * d <= a BY DivBounds
<1>2. b \div d \in Nat BY DivBounds
<1> DEFINE q == a \div d
<1> HIDE DEF q
<1>3. q \in Nat /\ q * d <= a BY <1>1 DEF q
<1>4. q * d \in Nat BY <1>3, SMT
<1>5. q * d <= b BY <1>3, <1>4, SMT
<1>6. q <= b \div d BY <1>3, <1>5, DivAtLeast
<1> QED BY <1>1, <1>2, <1>6 DEF q

\* A ray, 1e27 in WadRayMath.sol, is a positive number at every scale.
LEMMA RayPositive == RAY \in Nat \ {0}
BY ScaleAssumption, SMT DEF RAY

\* halfRAY and its like: half a number, rounded down.
LEMMA HalfBounds ==
  ASSUME NEW n \in Nat
  PROVE  n \div 2 \in Nat /\ 2 * (n \div 2) <= n /\ n <= 2 * (n \div 2) + 1
BY SMT

\* rayMul rounds half up: the product is within half a ray of the exact one.
LEMMA RayMulBounds ==
  ASSUME NEW a \in Nat, NEW b \in Nat
  PROVE  /\ rayMul(a, b) \in Nat
         /\ rayMul(a, b) * RAY <= a * b + RAY \div 2
         /\ a * b + RAY \div 2 < rayMul(a, b) * RAY + RAY
<1>1. a * b \in Nat BY SMT
<1>2. RAY \in Nat \ {0} /\ RAY \div 2 \in Nat BY RayPositive, HalfBounds
<1>3. a * b + RAY \div 2 \in Nat BY <1>1, <1>2, SMT
<1> QED BY <1>2, <1>3, DivBounds DEF rayMul

\* rayDiv by a positive number is a number, and so is its dividend.
LEMMA RayDivType ==
  ASSUME NEW a \in Nat, NEW b \in Nat \ {0}
  PROVE  rayDiv(a, b) \in Nat /\ a * RAY + b \div 2 \in Nat
<1>1. a * RAY \in Nat BY RayPositive, SMT
<1>2. b \div 2 \in Nat BY HalfBounds
<1>3. a * RAY + b \div 2 \in Nat BY <1>1, <1>2, SMT
<1> QED BY <1>3, DivBounds DEF rayDiv

\* Reading a scaled balance at an index of one ray or more never shrinks it.
LEMMA RayMulGrows ==
  ASSUME NEW s \in Nat, NEW i \in Nat, RAY <= i
  PROVE  s <= rayMul(s, i)
<1>1. RAY \in Nat \ {0} /\ RAY \div 2 \in Nat BY RayPositive, HalfBounds
<1>2. s * RAY <= s * i
  <2>1. RAY * s <= i * s BY <1>1, ProductMonotone
  <2> QED BY <1>1, <2>1, SMT
<1>3. s * i \in Nat BY SMT
<1>4. s * i + RAY \div 2 \in Nat /\ s * RAY <= s * i + RAY \div 2 BY <1>1, <1>2, <1>3, SMT
<1> QED BY <1>1, <1>4, DivAtLeast DEF rayMul

\* A balance read at index v and divided by an index w that is not ahead of v
\* covers the scaled balance: what burn of a full debt relies on.
LEMMA RayDivCovers ==
  ASSUME NEW s \in Nat, NEW v \in Nat, NEW w \in Nat, RAY <= w, w <= v
  PROVE  s <= rayDiv(rayMul(s, v), w)
<1> DEFINE q == rayMul(s, v)
           h == RAY \div 2
           k == w \div 2
<1>1. RAY \in Nat \ {0} BY RayPositive
<1>2. h \in Nat /\ RAY <= 2 * h + 1 /\ k \in Nat /\ w <= 2 * k + 1 BY <1>1, HalfBounds
<1>3. q \in Nat /\ s * v + h < q * RAY + RAY BY RayMulBounds
<1> HIDE DEF q, h, k
<1>4. s * w <= s * v
  <2>1. w * s <= v * s BY ProductMonotone
  <2> QED BY <2>1, SMT
<1>5. q * RAY \in Nat /\ s * w \in Nat /\ s * v \in Nat BY <1>1, <1>3, SMT
<1>6. RAY <= h + k + 1 BY <1>1, <1>2, SMT
<1>7. s * w <= q * RAY + k BY <1>1, <1>2, <1>3, <1>4, <1>5, <1>6, SMT
<1>8. w \in Nat \ {0} BY <1>1, SMT
<1>9. q * RAY + k \in Nat BY <1>2, <1>5, SMT
<1>10. s <= (q * RAY + k) \div w BY <1>7, <1>8, <1>9, DivAtLeast
<1> QED BY <1>10 DEF rayDiv, q, k

\* balanceOf multiplies by the index what mint and burn divide by it.  At one
\* and the same index of at least one ray, burning the balance that was read
\* (WadRayMath.rayMul, then rayDiv) burns exactly the scaled balance.
THEOREM ScaledRoundTrip ==
  ASSUME NEW s \in Nat, NEW i \in Nat, RAY <= i
  PROVE  rayDiv(rayMul(s, i), i) = s
<1> DEFINE q == rayMul(s, i)
           h == RAY \div 2
           k == i \div 2
<1>1. RAY \in Nat \ {0} BY RayPositive
<1>2. /\ h \in Nat /\ 2 * h <= RAY /\ RAY <= 2 * h + 1
      /\ k \in Nat /\ 2 * k <= i /\ i <= 2 * k + 1
  BY <1>1, HalfBounds
<1>3. q \in Nat /\ q * RAY <= s * i + h BY RayMulBounds
<1>4. s <= rayDiv(q, i) BY RayDivCovers
<1>5. i \in Nat \ {0} BY <1>1, SMT
<1>6. rayDiv(q, i) \in Nat /\ q * RAY + k \in Nat BY <1>3, <1>5, RayDivType
<1>7. q * RAY + k < s * i + i
  <2>1. CASE i = RAY
    <3>1. s * RAY + h \in Nat /\ s * RAY + h < s * RAY + RAY BY <1>1, <1>2, SMT
    <3>2. (s * RAY + h) \div RAY <= s BY <1>1, <3>1, DivAtMost
    <3>3. q <= s BY <2>1, <3>2 DEF rayMul
    <3>4. q * RAY <= s * RAY BY <1>1, <1>3, <3>3, ProductMonotone
    <3> QED BY <1>1, <1>2, <1>3, <2>1, <3>4, SMT DEF q, h, k
  <2>2. CASE RAY < i
    <3> HIDE DEF q, h, k
    <3>1. h + k < i BY <1>1, <1>2, <2>2, SMT
    <3>2. s * i \in Nat /\ q * RAY \in Nat BY <1>1, <1>3, SMT
    <3> QED BY <1>1, <1>2, <1>3, <3>1, <3>2, SMT
  <2> QED BY <1>1, <2>1, <2>2, SMT
<1>8. rayDiv(q, i) <= s BY <1>5, <1>6, <1>7, DivAtMost DEF rayDiv
<1> HIDE DEF q
<1>9. rayDiv(q, i) = s BY <1>4, <1>6, <1>8, SMT
<1> QED BY <1>9 DEF q

\* Multiplying by one ray changes nothing.
LEMMA RayTimes ==
  ASSUME NEW b \in Nat
  PROVE  rayMul(RAY, b) = b
<1> DEFINE h == RAY \div 2
<1>1. RAY \in Nat \ {0} /\ h \in Nat /\ 2 * h <= RAY BY RayPositive, HalfBounds
<1> HIDE DEF h
<1>2. RAY * b = b * RAY /\ b * RAY \in Nat BY <1>1, SMT
<1>3. b * RAY + h \in Nat /\ b * RAY <= b * RAY + h /\ b * RAY + h < b * RAY + RAY
  BY <1>1, <1>2, SMT
<1>4. b <= (b * RAY + h) \div RAY BY <1>1, <1>3, DivAtLeast
<1>5. (b * RAY + h) \div RAY <= b BY <1>1, <1>3, DivAtMost
<1>6. (b * RAY + h) \div RAY \in Nat BY <1>1, <1>3, DivBounds
<1>7. (b * RAY + h) \div RAY = b BY <1>4, <1>5, <1>6, SMT
<1> QED BY <1>2, <1>7 DEF rayMul, h

\* No balance reads as 0 at every index.
LEMMA ZeroTimes ==
  ASSUME NEW i \in Nat
  PROVE  rayMul(0, i) = 0
<1> DEFINE h == RAY \div 2
<1>1. RAY \in Nat \ {0} /\ h \in Nat /\ 2 * h <= RAY BY RayPositive, HalfBounds
<1>2. 0 * i + h = h BY <1>1, SMT
<1> HIDE DEF h
<1>3. h \div RAY \in Nat /\ h \div RAY <= 0
  <2>1. h < 0 * RAY + RAY BY <1>1, SMT
  <2>2. h \div RAY <= 0 BY <1>1, <2>1, DivAtMost
  <2>3. h \div RAY \in Nat BY <1>1, DivBounds
  <2> QED BY <2>2, <2>3
<1>4. h \div RAY = 0 BY <1>3, SMT
<1> QED BY <1>2, <1>4 DEF rayMul, h

\* percentMul of numbers is a number.
LEMMA PercentMulType ==
  ASSUME NEW value \in Nat, NEW percentage \in Nat
  PROVE  percentMul(value, percentage) \in Nat
<1>1. PERCENTAGE_FACTOR \in Nat \ {0} BY ScaleAssumption
<1>2. PERCENTAGE_FACTOR \div 2 \in Nat BY <1>1, HalfBounds
<1>3. value * percentage + PERCENTAGE_FACTOR \div 2 \in Nat BY <1>2, SMT
<1> QED BY <1>1, <1>3, DivBounds DEF percentMul

\* wadToRay is a number, and positive for a positive one.
LEMMA WadToRayType ==
  ASSUME NEW a \in Nat
  PROVE  wadToRay(a) \in Nat /\ (a # 0 => wadToRay(a) # 0)
BY ScaleAssumption, SMT DEF wadToRay

(***************************************************************************)
(* An interest factor is never below one ray: nothing decays.              *)
(***************************************************************************)
LEMMA LinearAtLeastRay ==
  ASSUME NEW rate \in Nat, NEW from \in Nat, NEW to \in Nat, from <= to
  PROVE  /\ calculateLinearInterest(rate, from, to) \in Nat
         /\ RAY <= calculateLinearInterest(rate, from, to)
<1> DEFINE interest == rate * (to - from)
<1>1. interest \in Nat
  <2>1. to - from \in Nat BY SMT
  <2> QED BY <2>1, SMT
<1> HIDE DEF interest
<1>2. SECONDS_PER_YEAR \in Nat \ {0} BY ScaleAssumption
<1>3. interest \div SECONDS_PER_YEAR \in Nat BY <1>1, <1>2, DivBounds
<1>4. RAY \in Nat BY RayPositive
<1> QED BY <1>3, <1>4, SMT DEF calculateLinearInterest, interest

\* calculateCompoundedInterest: each term of the series is a number.
LEMMA CompoundedAtLeastRay ==
  ASSUME NEW rate \in Nat, NEW from \in Nat, NEW to \in Nat, from <= to
  PROVE  /\ calculateCompoundedInterest(rate, from, to) \in Nat
         /\ RAY <= calculateCompoundedInterest(rate, from, to)
<1> DEFINE exp            == to - from
           expMinusTwo    == IF exp > 2 THEN exp - 2 ELSE 0
           ratePerSecond  == rate \div SECONDS_PER_YEAR
           basePowerTwo   == rayMul(ratePerSecond, ratePerSecond)
           basePowerThree == rayMul(basePowerTwo, ratePerSecond)
           second         == exp * (exp - 1) * basePowerTwo
           third          == exp * (exp - 1) * expMinusTwo * basePowerThree
<1>1. RAY \in Nat BY RayPositive
<1>2. CASE exp = 0 BY <1>1, <1>2, SMT DEF calculateCompoundedInterest
<1>3. CASE exp # 0
  <2>1. exp \in Nat /\ exp - 1 \in Nat /\ expMinusTwo \in Nat BY <1>3, SMT
  <2>2. ratePerSecond \in Nat BY ScaleAssumption, DivBounds
  <2>3. basePowerTwo \in Nat BY <2>2, RayMulBounds
  <2>4. basePowerThree \in Nat BY <2>2, <2>3, RayMulBounds
  <2> HIDE DEF exp, expMinusTwo, ratePerSecond, basePowerTwo, basePowerThree
  <2>5. exp * (exp - 1) \in Nat BY <2>1, SMT
  <2>6. second \in Nat BY <2>3, <2>5, SMT
  <2>7. exp * (exp - 1) * expMinusTwo \in Nat BY <2>1, <2>5, SMT
  <2>8. third \in Nat BY <2>4, <2>7, SMT
  <2> HIDE DEF second, third
  <2>9. second \div 2 \in Nat /\ third \div 6 \in Nat BY <2>6, <2>8, SMT
  <2>10. ratePerSecond * exp \in Nat BY <2>1, <2>2, SMT
  <2>11. /\ RAY + ratePerSecond * exp + second \div 2 + third \div 6 \in Nat
         /\ RAY <= RAY + ratePerSecond * exp + second \div 2 + third \div 6
    BY <1>1, <2>9, <2>10, SMT
  <2>12. calculateCompoundedInterest(rate, from, to)
           = RAY + ratePerSecond * exp + second \div 2 + third \div 6
    BY <1>3 DEF calculateCompoundedInterest, exp, expMinusTwo, ratePerSecond,
                basePowerTwo, basePowerThree, second, third
  <2> QED BY <2>11, <2>12
<1> QED BY <1>2, <1>3

\* Compound interest only grows with time, also where the series changes shape:
\* at no time at all, and below three seconds.
LEMMA CompoundedGrows ==
  ASSUME NEW rate \in Nat, NEW from \in Nat, NEW mid \in Nat, NEW to \in Nat,
         from <= mid, mid <= to
  PROVE  calculateCompoundedInterest(rate, from, mid)
           <= calculateCompoundedInterest(rate, from, to)
<1> DEFINE minusTwo(e)    == IF e > 2 THEN e - 2 ELSE 0
           ratePerSecond  == rate \div SECONDS_PER_YEAR
           basePowerTwo   == rayMul(ratePerSecond, ratePerSecond)
           basePowerThree == rayMul(basePowerTwo, ratePerSecond)
           second(e)      == e * (e - 1) * basePowerTwo
           third(e)       == e * (e - 1) * minusTwo(e) * basePowerThree
           x == mid - from
           y == to - from
<1>1. CASE x = 0
  <2>1. calculateCompoundedInterest(rate, from, mid) = RAY
    BY <1>1 DEF calculateCompoundedInterest
  <2>2. from <= to BY SMT
  <2> QED BY <2>1, <2>2, CompoundedAtLeastRay
<1>2. CASE x # 0
  <2>1. /\ x \in Nat /\ y \in Nat /\ x <= y /\ y # 0
        /\ x - 1 \in Nat /\ y - 1 \in Nat /\ x - 1 <= y - 1
    BY <1>2, SMT
  <2>2. minusTwo(x) \in Nat /\ minusTwo(y) \in Nat /\ minusTwo(x) <= minusTwo(y)
    BY <2>1, SMT
  <2>3. ratePerSecond \in Nat BY ScaleAssumption, DivBounds
  <2>4. basePowerTwo \in Nat BY <2>3, RayMulBounds
  <2>5. basePowerThree \in Nat BY <2>3, <2>4, RayMulBounds
  <2>6. /\ calculateCompoundedInterest(rate, from, mid)
             = RAY + ratePerSecond * x + second(x) \div 2 + third(x) \div 6
        /\ calculateCompoundedInterest(rate, from, to)
             = RAY + ratePerSecond * y + second(y) \div 2 + third(y) \div 6
    BY <1>2, <2>1 DEF calculateCompoundedInterest
  <2> DEFINE p == x * (x - 1)
             q == y * (y - 1)
             m == minusTwo(x)
             n == minusTwo(y)
  <2>7. p \in Nat /\ q \in Nat /\ p <= q
    <3> HIDE DEF x, y
    <3>1. p \in Nat /\ q \in Nat BY <2>1, SMT
    <3> QED BY <2>1, <3>1, FactorsMonotone
  <2>8. ratePerSecond * x \in Nat /\ ratePerSecond * y \in Nat
        /\ ratePerSecond * x <= ratePerSecond * y
    <3> HIDE DEF x, y, ratePerSecond
    <3> QED BY <2>1, <2>3, FactorsMonotone
  <2>9. /\ second(x) = p * basePowerTwo /\ second(y) = q * basePowerTwo
        /\ third(x) = p * m * basePowerThree /\ third(y) = q * n * basePowerThree
    OBVIOUS
  <2> HIDE DEF second, third, p, q, m, n, basePowerTwo, basePowerThree
  <2>10. second(x) \in Nat /\ second(y) \in Nat /\ second(x) <= second(y)
    BY <2>4, <2>7, <2>9, FactorsMonotone
  <2>11. p * m \in Nat /\ q * n \in Nat /\ p * m <= q * n
    BY <2>2, <2>7, FactorsMonotone DEF m, n
  <2>12. third(x) \in Nat /\ third(y) \in Nat /\ third(x) <= third(y)
    BY <2>5, <2>9, <2>11, FactorsMonotone
  <2>13. second(x) \div 2 \in Nat /\ second(y) \div 2 \in Nat
         /\ second(x) \div 2 <= second(y) \div 2
    BY <2>10, QuotientMonotone
  <2>14. third(x) \div 6 \in Nat /\ third(y) \div 6 \in Nat /\ third(x) \div 6 <= third(y) \div 6
    BY <2>12, QuotientMonotone
  <2>15. RAY \in Nat BY RayPositive
  <2> HIDE DEF x, y, ratePerSecond
  <2> QED BY <2>6, <2>8, <2>13, <2>14, <2>15, SMT
<1> QED BY <1>1, <1>2

\* rayMul is monotone in both factors.
LEMMA RayMulMonotone ==
  ASSUME NEW a \in Nat, NEW b \in Nat, NEW c \in Nat, NEW d \in Nat, a <= c, b <= d
  PROVE  rayMul(a, b) <= rayMul(c, d)
<1> DEFINE h == RAY \div 2
           q == rayMul(a, b)
<1>1. RAY \in Nat \ {0} /\ h \in Nat BY RayPositive, HalfBounds
<1>2. q \in Nat /\ q * RAY <= a * b + h BY RayMulBounds
<1>3. a * b <= c * d
  <2>1. a * b <= c * b BY ProductMonotone
  <2>2. b * c <= d * c BY ProductMonotone
  <2> QED BY <2>1, <2>2, SMT
<1> HIDE DEF h, q
<1>4. a * b \in Nat /\ c * d \in Nat /\ q * RAY \in Nat BY <1>1, <1>2, SMT
<1>5. c * d + h \in Nat /\ q * RAY <= c * d + h BY <1>1, <1>2, <1>3, <1>4, SMT
<1>6. q <= (c * d + h) \div RAY BY <1>1, <1>2, <1>5, DivAtLeast
<1> QED BY <1>6 DEF rayMul, h, q

(***************************************************************************)
(* MapThenSumSet adds the values of an operator in the order of a CHOOSE.  *)
(* The lemmas speak of functions, and of sets of numbers or of sets where  *)
(* the induction theorems of the library speak of predicates.              *)
(***************************************************************************)
\* The sum of f over S.
SumOver(f, S) == MapThenSumSet(LAMBDA x : f[x], S)

(***************************************************************************)
(* Induction over the numbers, for a set of them.                          *)
(***************************************************************************)
LessThan == {p \in Nat \X Nat : p[1] < p[2]}

\* Less-than on the numbers has no infinite descent.
LEMMA LessThanWellFounded == IsWellFoundedOn(LessThan, Nat)
BY NatLessThanWellFounded DEF LessThan, OpToRel

\* A set with 0 that is closed under successor has every number.
LEMMA NumbersByInduction ==
  ASSUME NEW T, 0 \in T, \A n \in Nat : n \in T => n + 1 \in T
  PROVE  Nat \subseteq T
<1> DEFINE Missing == Nat \ T
<1> SUFFICES ASSUME Missing # {} PROVE FALSE
  OBVIOUS
<1>1. \E m \in Missing : \A n \in Missing : <<n, m>> \notin LessThan
  <2>1. Missing \subseteq Nat OBVIOUS
  <2> HIDE DEF Missing
  <2> QED BY <2>1, LessThanWellFounded, WFMin
<1>2. PICK m \in Missing : \A n \in Missing : <<n, m>> \notin LessThan
  BY <1>1
<1>3. m # 0 /\ m - 1 \in Nat BY <1>2
<1>4. <<m - 1, m>> \in LessThan BY <1>2, <1>3 DEF LessThan
<1>5. m - 1 \in T BY <1>2, <1>3, <1>4
<1> QED BY <1>2, <1>3, <1>5

(***************************************************************************)
(* Induction over the subsets of a finite set: P holds of a set as soon as *)
(* it holds of the set without any one of its elements.                    *)
(***************************************************************************)
\* Stated for a set P of sets, so that no operator is a parameter.
LEMMA SubsetsByInduction ==
  ASSUME NEW S, IsFiniteSet(S), NEW P,
         \A s \in SUBSET S : (\A x \in s : s \ {x} \in P) => s \in P
  PROVE  SUBSET S \subseteq P
<1> DEFINE T == {n \in Nat : \A s \in SUBSET S : Cardinality(s) <= n => s \in P}
<1>1. \A s \in SUBSET S : /\ IsFiniteSet(s) /\ Cardinality(s) \in Nat
                          /\ Cardinality(s) = 0 => s = {}
                          /\ \A x \in s : Cardinality(s \ {x}) = Cardinality(s) - 1
  <2> TAKE s \in SUBSET S
  <2>1. IsFiniteSet(s) BY FS_Subset
  <2>2. Cardinality(s) \in Nat BY <2>1, FS_CardinalityType
  <2>3. Cardinality(s) = 0 => s = {} BY <2>1, FS_EmptySet
  <2>4. \A x \in s : Cardinality(s \ {x}) = Cardinality(s) - 1
    BY <2>1, FS_RemoveElement
  <2> QED BY <2>1, <2>2, <2>3, <2>4
<1>2. 0 \in T
  <2> SUFFICES ASSUME NEW s \in SUBSET S, Cardinality(s) <= 0 PROVE s \in P
    OBVIOUS
  <2>1. s = {} BY <1>1
  <2> QED BY <2>1
<1>3. ASSUME NEW n \in Nat, n \in T PROVE n + 1 \in T
  <2> SUFFICES ASSUME NEW s \in SUBSET S, Cardinality(s) <= n + 1 PROVE s \in P
    OBVIOUS
  <2>1. \A x \in s : s \ {x} \in SUBSET S /\ Cardinality(s \ {x}) <= n
    BY <1>1
  <2>2. \A x \in s : s \ {x} \in P BY <1>3, <2>1
  <2> QED BY <2>2
<1>4. Nat \subseteq T
  <2> HIDE DEF T
  <2> QED BY <1>2, <1>3, NumbersByInduction
<1> SUFFICES ASSUME NEW s \in SUBSET S PROVE s \in P
  OBVIOUS
<1>5. Cardinality(s) \in T BY <1>1, <1>4
<1> QED BY <1>1, <1>5

(***************************************************************************)
(* The recursion behind the sum.                                           *)
(***************************************************************************)
Any(s) == CHOOSE x \in s : TRUE

IsIteration(g, f, S) ==
  g = [s \in SUBSET S |-> IF s = {} THEN 0 ELSE f[Any(s)] + g[s \ {Any(s)}]]

\* The sum is what that recursion yields on the whole set.
LEMMA SumIsIteration ==
  ASSUME NEW f, NEW S
  PROVE  SumOver(f, S) = (CHOOSE g : IsIteration(g, f, S))[S]
BY DEF SumOver, MapThenSumSet, MapThenFoldSet, IsIteration, Any

\* A function that is right on the sets of up to n elements.
IterationTo(g, f, S, n) ==
  /\ g = [s \in SUBSET S |-> g[s]]
  /\ \A s \in SUBSET S :
       Cardinality(s) <= n
         => g[s] = IF s = {} THEN 0 ELSE f[Any(s)] + g[s \ {Any(s)}]

\* Some function satisfies the recursion: the CHOOSE is not of nothing.
LEMMA IterationExists ==
  ASSUME NEW f, NEW S, IsFiniteSet(S)
  PROVE  \E g : IsIteration(g, f, S)
<1> DEFINE T == {n \in Nat : \E g : IterationTo(g, f, S, n)}
<1>1. \A s \in SUBSET S : /\ Cardinality(s) \in Nat
                          /\ Cardinality(s) = 0 <=> s = {}
                          /\ Cardinality(s) <= Cardinality(S)
                          /\ \A x \in s : Cardinality(s \ {x}) = Cardinality(s) - 1
  <2> TAKE s \in SUBSET S
  <2>1. IsFiniteSet(s) /\ Cardinality(s) <= Cardinality(S) BY FS_Subset
  <2>2. Cardinality(s) \in Nat BY <2>1, FS_CardinalityType
  <2>3. Cardinality(s) = 0 <=> s = {} BY <2>1, FS_EmptySet
  <2>4. \A x \in s : Cardinality(s \ {x}) = Cardinality(s) - 1
    BY <2>1, FS_RemoveElement
  <2> QED BY <2>1, <2>2, <2>3, <2>4
<1>2. 0 \in T
  <2> DEFINE g == [s \in SUBSET S |-> 0]
  <2>1. IterationTo(g, f, S, 0) BY <1>1 DEF IterationTo
  <2> HIDE DEF g
  <2> QED BY <2>1
<1>3. ASSUME NEW n \in Nat, n \in T PROVE n + 1 \in T
  <2>1. PICK g : IterationTo(g, f, S, n) BY <1>3
  <2> DEFINE h == [s \in SUBSET S |-> IF s = {} THEN 0 ELSE f[Any(s)] + g[s \ {Any(s)}]]
  <2>2. ASSUME NEW s \in SUBSET S, Cardinality(s) <= n + 1, s # {}
        PROVE  h[s] = f[Any(s)] + h[s \ {Any(s)}]
    <3>1. Any(s) \in s BY <2>2 DEF Any
    <3> DEFINE rest == s \ {Any(s)}
    <3>2. rest \in SUBSET S /\ Cardinality(rest) <= n BY <1>1, <2>2, <3>1
    <3>3. g[rest] = IF rest = {} THEN 0 ELSE f[Any(rest)] + g[rest \ {Any(rest)}]
      <4> HIDE DEF rest
      <4> QED BY <2>1, <3>2 DEF IterationTo
    <3>4. h[rest] = g[rest]
      <4> HIDE DEF rest
      <4> QED BY <3>2, <3>3
    <3>5. h[s] = f[Any(s)] + g[rest] BY <2>2
    <3> QED BY <3>4, <3>5
  <2>3. h[{}] = 0 /\ h = [s \in SUBSET S |-> h[s]] OBVIOUS
  <2>4. IterationTo(h, f, S, n + 1)
    <3> HIDE DEF h
    <3> QED BY <2>2, <2>3 DEF IterationTo
  <2> HIDE DEF h
  <2> QED BY <2>4
<1>4. Nat \subseteq T
  <2> HIDE DEF T
  <2> QED BY <1>2, <1>3, NumbersByInduction
<1>5. Cardinality(S) \in T BY <1>1, <1>4
<1>6. PICK g : IterationTo(g, f, S, Cardinality(S)) BY <1>5
<1> DEFINE body(s) == IF s = {} THEN 0 ELSE f[Any(s)] + g[s \ {Any(s)}]
<1>7. \A s \in SUBSET S : g[s] = body(s) BY <1>1, <1>6 DEF IterationTo
<1>8. g = [s \in SUBSET S |-> g[s]] BY <1>6 DEF IterationTo
<1>9. g = [s \in SUBSET S |-> body(s)] BY <1>7, <1>8
<1> QED BY <1>9 DEF IsIteration

\* The function that MapThenSumSet chooses.
Iteration(f, S) == CHOOSE g : IsIteration(g, f, S)

\* It satisfies the recursion.
LEMMA IterationIs ==
  ASSUME NEW f, NEW S, IsFiniteSet(S)
  PROVE  IsIteration(Iteration(f, S), f, S)
BY IterationExists DEF Iteration

\* The iterations for a set and for its subsets agree where both are defined.
LEMMA IterationsAgree ==
  ASSUME NEW f, NEW S, IsFiniteSet(S), NEW s \in SUBSET S
  PROVE  Iteration(f, S)[s] = SumOver(f, s)
<1> DEFINE g == Iteration(f, S)
           h == Iteration(f, s)
           P == {t \in SUBSET s : g[t] = h[t]}
<1>1. IsFiniteSet(s) BY FS_Subset
<1>2. IsIteration(g, f, S) /\ IsIteration(h, f, s) BY <1>1, IterationIs
<1> HIDE DEF g, h
<1>3. ASSUME NEW t \in SUBSET s, \A x \in t : t \ {x} \in P PROVE t \in P
  <2>1. /\ g[t] = IF t = {} THEN 0 ELSE f[Any(t)] + g[t \ {Any(t)}]
        /\ h[t] = IF t = {} THEN 0 ELSE f[Any(t)] + h[t \ {Any(t)}]
    BY <1>2 DEF IsIteration
  <2>2. CASE t = {} BY <2>1, <2>2
  <2>3. CASE t # {}
    <3>1. Any(t) \in t BY <2>3 DEF Any
    <3>2. g[t \ {Any(t)}] = h[t \ {Any(t)}] BY <1>3, <3>1
    <3> QED BY <2>1, <2>3, <3>2
  <2> QED BY <2>2, <2>3
<1>4. SUBSET s \subseteq P
  <2> HIDE DEF P
  <2> QED BY <1>1, <1>3, SubsetsByInduction
<1>5. g[s] = h[s] BY <1>4
<1> QED BY <1>5, SumIsIteration DEF g, h, Iteration

\* No account, no balance.
LEMMA SumOfNone ==
  ASSUME NEW f
  PROVE  SumOver(f, {}) = 0
BY DEF SumOver, MapThenSumSet, MapThenFoldSet

\* The sum in the order of the CHOOSE.
LEMMA SumWithAny ==
  ASSUME NEW f, NEW S, IsFiniteSet(S), S # {}
  PROVE  /\ Any(S) \in S
         /\ SumOver(f, S) = f[Any(S)] + SumOver(f, S \ {Any(S)})
<1>1. Any(S) \in S BY DEF Any
<1>2. IsIteration(Iteration(f, S), f, S) BY IterationIs
<1>3. Iteration(f, S)[S] = f[Any(S)] + Iteration(f, S)[S \ {Any(S)}]
  BY <1>2 DEF IsIteration
<1>4. /\ Iteration(f, S)[S] = SumOver(f, S)
      /\ Iteration(f, S)[S \ {Any(S)}] = SumOver(f, S \ {Any(S)})
  BY IterationsAgree
<1> QED BY <1>1, <1>3, <1>4

(***************************************************************************)
(* What can be said of a sum without its order.                            *)
(***************************************************************************)
\* A sum of integers is one.
LEMMA SumType ==
  ASSUME NEW S, IsFiniteSet(S), NEW f, \A x \in S : f[x] \in Int
  PROVE  SumOver(f, S) \in Int
<1> DEFINE P == {s \in SUBSET S : SumOver(f, s) \in Int}
<1>1. ASSUME NEW s \in SUBSET S, \A x \in s : s \ {x} \in P PROVE s \in P
  <2>1. CASE s = {} BY <2>1, SumOfNone
  <2>2. CASE s # {}
    <3>1. IsFiniteSet(s) BY FS_Subset
    <3>2. Any(s) \in s /\ SumOver(f, s) = f[Any(s)] + SumOver(f, s \ {Any(s)})
      BY <2>2, <3>1, SumWithAny
    <3>3. SumOver(f, s \ {Any(s)}) \in Int /\ f[Any(s)] \in Int BY <1>1, <3>2
    <3> QED BY <3>2, <3>3
  <2> QED BY <2>1, <2>2
<1>2. SUBSET S \subseteq P
  <2> HIDE DEF P
  <2> QED BY <1>1, SubsetsByInduction
<1> QED BY <1>2

\* Any element can be taken out first.
LEMMA SumWith ==
  ASSUME NEW S, IsFiniteSet(S), NEW f, \A x \in S : f[x] \in Int, NEW e \in S
  PROVE  SumOver(f, S) = f[e] + SumOver(f, S \ {e})
<1> DEFINE P == {s \in SUBSET S : \A x \in s : SumOver(f, s) = f[x] + SumOver(f, s \ {x})}
<1>1. ASSUME NEW s \in SUBSET S, \A x \in s : s \ {x} \in P PROVE s \in P
  <2> SUFFICES ASSUME NEW x \in s PROVE SumOver(f, s) = f[x] + SumOver(f, s \ {x})
    OBVIOUS
  <2> DEFINE c == Any(s)
  <2>1. \A t \in SUBSET S : IsFiniteSet(t) BY FS_Subset
  <2>2. c \in s /\ SumOver(f, s) = f[c] + SumOver(f, s \ {c}) BY <2>1, SumWithAny
  <2> HIDE DEF c
  <2>3. CASE x = c BY <2>2, <2>3
  <2>4. CASE x # c
    <3> DEFINE rest == (s \ {c}) \ {x}
               R    == SumOver(f, rest)
    <3>1. s \ {c} \in P /\ s \ {x} \in P BY <1>1, <2>2
    <3>2. SumOver(f, s \ {c}) = f[x] + R BY <2>4, <3>1
    <3>3. SumOver(f, s \ {x}) = f[c] + R
      <4>1. (s \ {x}) \ {c} = rest OBVIOUS
      <4>2. SumOver(f, s \ {x}) = f[c] + SumOver(f, (s \ {x}) \ {c})
        BY <2>2, <2>4, <3>1
      <4> QED BY <4>1, <4>2
    <3>4. R \in Int
      <4>1. rest \in SUBSET S OBVIOUS
      <4> HIDE DEF rest
      <4> QED BY <2>1, <4>1, SumType
    <3>5. f[x] \in Int /\ f[c] \in Int BY <2>2
    <3> HIDE DEF R
    <3> QED BY <2>2, <3>2, <3>3, <3>4, <3>5
  <2> QED BY <2>3, <2>4
<1>2. SUBSET S \subseteq P
  <2> HIDE DEF P
  <2> QED BY <1>1, SubsetsByInduction
<1> QED BY <1>2

\* Larger values have a larger sum.
LEMMA SumMonotone ==
  ASSUME NEW S, IsFiniteSet(S), NEW f, NEW g,
         \A x \in S : f[x] \in Int /\ g[x] \in Int /\ f[x] <= g[x]
  PROVE  SumOver(f, S) <= SumOver(g, S)
<1> DEFINE P == {s \in SUBSET S : SumOver(f, s) <= SumOver(g, s)}
<1>1. ASSUME NEW s \in SUBSET S, \A x \in s : s \ {x} \in P PROVE s \in P
  <2>1. CASE s = {}
    <3>1. SumOver(f, s) = 0 /\ SumOver(g, s) = 0 BY <2>1, SumOfNone
    <3> QED BY <3>1
  <2>2. CASE s # {}
    <3>1. IsFiniteSet(s) BY FS_Subset
    <3> DEFINE c == Any(s)
    <3>2. /\ c \in s
          /\ SumOver(f, s) = f[c] + SumOver(f, s \ {c})
          /\ SumOver(g, s) = g[c] + SumOver(g, s \ {c})
      BY <2>2, <3>1, SumWithAny
    <3> HIDE DEF c
    <3>3. SumOver(f, s \ {c}) <= SumOver(g, s \ {c}) BY <1>1, <3>2
    <3>4. IsFiniteSet(s \ {c}) BY <3>1, FS_RemoveElement
    <3>5. SumOver(f, s \ {c}) \in Int /\ SumOver(g, s \ {c}) \in Int
      BY <3>4, SumType
    <3>6. f[c] \in Int /\ g[c] \in Int /\ f[c] <= g[c] BY <3>2
    <3>7. SumOver(f, s) <= SumOver(g, s) BY <3>2, <3>3, <3>5, <3>6
    <3> QED BY <3>7
  <2> QED BY <2>1, <2>2
<1>2. SUBSET S \subseteq P
  <2> HIDE DEF P
  <2> QED BY <1>1, SubsetsByInduction
<1> QED BY <1>2

\* Only the values on the set count.
LEMMA SumSame ==
  ASSUME NEW S, IsFiniteSet(S), NEW f, NEW g,
         \A x \in S : f[x] \in Int /\ g[x] = f[x]
  PROVE  SumOver(g, S) = SumOver(f, S)
<1>1. SumOver(f, S) <= SumOver(g, S)
  <2>1. \A x \in S : f[x] \in Int /\ g[x] \in Int /\ f[x] <= g[x] OBVIOUS
  <2> QED BY <2>1, SumMonotone
<1>2. SumOver(g, S) <= SumOver(f, S)
  <2>1. \A x \in S : g[x] \in Int /\ f[x] \in Int /\ g[x] <= f[x] OBVIOUS
  <2> QED BY <2>1, SumMonotone
<1>3. SumOver(f, S) \in Int BY SumType
<1>4. SumOver(g, S) \in Int
  <2>1. \A x \in S : g[x] \in Int OBVIOUS
  <2> QED BY <2>1, SumType
<1> QED BY <1>1, <1>2, <1>3, <1>4

\* One value changes, and the sum by as much.
LEMMA SumChange ==
  ASSUME NEW S, IsFiniteSet(S), NEW e \in S, NEW f, NEW g,
         \A x \in S : f[x] \in Int /\ g[x] \in Int,
         \A x \in S \ {e} : g[x] = f[x]
  PROVE  SumOver(g, S) = SumOver(f, S) + (g[e] - f[e])
<1>1. SumOver(f, S) = f[e] + SumOver(f, S \ {e}) BY SumWith
<1>2. SumOver(g, S) = g[e] + SumOver(g, S \ {e}) BY SumWith
<1>3. IsFiniteSet(S \ {e}) BY FS_RemoveElement
<1>4. SumOver(g, S \ {e}) = SumOver(f, S \ {e}) BY <1>3, SumSame
<1>5. SumOver(f, S \ {e}) \in Int BY <1>3, SumType
<1> QED BY <1>1, <1>2, <1>4, <1>5

\* Two values change.
LEMMA SumChangeTwo ==
  ASSUME NEW S, IsFiniteSet(S), NEW d \in S, NEW e \in S, d # e, NEW f, NEW g,
         \A x \in S : f[x] \in Int /\ g[x] \in Int,
         \A x \in S \ {d, e} : g[x] = f[x]
  PROVE  SumOver(g, S) = SumOver(f, S) + (g[d] - f[d]) + (g[e] - f[e])
<1> DEFINE h == [x \in S |-> IF x = d THEN g[d] ELSE f[x]]
<1>1. \A x \in S : h[x] \in Int OBVIOUS
<1>2. \A x \in S \ {d} : h[x] = f[x] OBVIOUS
<1>3. \A x \in S \ {e} : g[x] = h[x] OBVIOUS
<1>4. h[d] = g[d] /\ h[e] = f[e] OBVIOUS
<1> HIDE DEF h
<1>5. SumOver(h, S) = SumOver(f, S) + (h[d] - f[d]) BY <1>1, <1>2, SumChange
<1>6. SumOver(g, S) = SumOver(h, S) + (g[e] - h[e]) BY <1>1, <1>3, SumChange
<1>7. SumOver(f, S) \in Int BY SumType
<1> QED BY <1>4, <1>5, <1>6, <1>7

\* No value exceeds the sum of all.
LEMMA SumAtLeastEach ==
  ASSUME NEW S, IsFiniteSet(S), NEW f, \A x \in S : f[x] \in Nat
  PROVE  SumOver(f, S) \in Nat /\ \A x \in S : f[x] <= SumOver(f, S)
<1> DEFINE zero == [x \in S |-> 0]
           only(e) == [x \in S |-> IF x = e THEN f[x] ELSE 0]
<1>1. SumOver(zero, S) = 0
  <2> DEFINE P == {s \in SUBSET S : SumOver(zero, s) = 0}
  <2>1. ASSUME NEW s \in SUBSET S, \A x \in s : s \ {x} \in P PROVE s \in P
    <3>1. CASE s = {} BY <3>1, SumOfNone
    <3>2. CASE s # {}
      <4>1. IsFiniteSet(s) BY FS_Subset
      <4> HIDE DEF zero
      <4>2. Any(s) \in s /\ SumOver(zero, s) = zero[Any(s)] + SumOver(zero, s \ {Any(s)})
        BY <3>2, <4>1, SumWithAny
      <4>3. zero[Any(s)] = 0 BY <4>2 DEF zero
      <4> QED BY <2>1, <4>2, <4>3
    <3> QED BY <3>1, <3>2
  <2>2. SUBSET S \subseteq P
    <3> HIDE DEF P
    <3> QED BY <2>1, SubsetsByInduction
  <2> QED BY <2>2
<1>2. \A x \in S : zero[x] = 0 OBVIOUS
<1> HIDE DEF zero
<1>3. SumOver(zero, S) <= SumOver(f, S) BY <1>2, SumMonotone
<1>4. SumOver(f, S) \in Int BY SumType
<1>5. ASSUME NEW e \in S PROVE f[e] <= SumOver(f, S)
  <2> DEFINE one == only(e)
  <2>1. \A x \in S : one[x] \in Nat /\ one[x] <= f[x] OBVIOUS
  <2>2. \A x \in S \ {e} : one[x] = zero[x] BY <1>2
  <2>3. one[e] = f[e] OBVIOUS
  <2> HIDE DEF one
  <2>4. SumOver(one, S) = SumOver(zero, S) + (one[e] - zero[e])
    BY <1>2, <2>1, <2>2, SumChange
  <2>5. SumOver(one, S) <= SumOver(f, S) BY <2>1, SumMonotone
  <2> QED BY <1>1, <1>2, <1>4, <2>3, <2>4, <2>5
<1> QED BY <1>1, <1>3, <1>4, <1>5

(***************************************************************************)
(* Sound is the part of the pool's inductive invariant that is about one   *)
(* reserve: its indexes never fell below one ray, and none of its          *)
(* timestamps is in the future.                                            *)
(***************************************************************************)
StableSound(token, t) ==
  /\ token \in StableLedger
  /\ token.totalSupplyTimestamp <= t
  /\ \A u \in Accounts : token.timestamps[u] <= t

Sound(r, t) ==
  /\ r \in Reserve
  /\ RAY <= r.liquidityIndex
  /\ RAY <= r.variableBorrowIndex
  /\ r.lastUpdateTimestamp <= t
  /\ StableSound(r.stableDebt, t)

(***************************************************************************)
(* Scaled ledgers                                                          *)
(***************************************************************************)
LEMMA AmountScaledType ==
  ASSUME NEW amount \in Nat, NEW index \in Nat, RAY <= index
  PROVE  AmountScaled(amount, index) \in Nat
<1>1. index \in Nat \ {0} BY RayPositive, SMT
<1> QED BY <1>1, RayDivType DEF AmountScaled

\* mint of a scaled token yields a ledger.
LEMMA MintScaledType ==
  ASSUME NEW token \in ScaledLedger, NEW user \in Accounts, NEW amount \in Nat,
         NEW index \in Nat, RAY <= index
  PROVE  MintScaled(token, user, amount, index) \in ScaledLedger
<1> DEFINE x == AmountScaled(amount, index)
<1>1. x \in Nat BY AmountScaledType
<1>2. token.balances \in Balances /\ token.totalSupply \in Nat BY DEF ScaledLedger
<1> HIDE DEF x
<1>3. [token.balances EXCEPT ![user] = @ + x] \in Balances BY <1>1, <1>2, SMT DEF Balances
<1>4. token.totalSupply + x \in Nat BY <1>1, <1>2, SMT
<1> QED BY <1>3, <1>4 DEF MintScaled, ScaledLedger, x

\* What a burn takes is bounded by the balance and by the supply.
LEMMA BurnScaledType ==
  ASSUME NEW token \in ScaledLedger, NEW user \in Accounts, NEW amount, NEW index,
         CanBurnScaled(token, user, amount, index)
  PROVE  /\ BurnScaled(token, user, amount, index) \in ScaledLedger
         /\ \A u \in Accounts :
              BurnScaled(token, user, amount, index).balances[u] <= token.balances[u]
<1> DEFINE x == AmountScaled(amount, index)
           after == [token.balances EXCEPT ![user] = @ - x]
<1>1. token.balances \in Balances /\ token.totalSupply \in Nat BY DEF ScaledLedger
<1>2. x \in 1 .. token.balances[user] /\ x <= token.totalSupply BY DEF CanBurnScaled
<1> HIDE DEF x
<1>3. after \in Balances BY <1>1, <1>2, SMT DEF Balances
<1>4. \A u \in Accounts : after[u] <= token.balances[u] BY <1>1, <1>2, SMT DEF Balances
<1>5. token.totalSupply - x \in Nat BY <1>1, <1>2, SMT
<1>6. BurnScaled(token, user, amount, index)
        = [balances |-> after, totalSupply |-> token.totalSupply - x]
  BY DEF BurnScaled, x
<1> HIDE DEF after
<1> QED BY <1>3, <1>4, <1>5, <1>6 DEF ScaledLedger

\* _transfer of a scaled token yields a ledger, the self-transfer included.
LEMMA MoveScaledType ==
  ASSUME NEW token \in ScaledLedger, NEW from \in Accounts, NEW to \in Accounts,
         NEW amount \in Nat, NEW index \in Nat, RAY <= index,
         CanMoveScaled(token, from, amount, index)
  PROVE  MoveScaled(token, from, to, amount, index) \in ScaledLedger
<1> DEFINE x == AmountScaled(amount, index)
           debited == [token.balances EXCEPT ![from] = @ - x]
           after == [debited EXCEPT ![to] = @ + x]
<1>1. x \in Nat BY AmountScaledType
<1>2. token.balances \in Balances BY DEF ScaledLedger
<1>3. x <= token.balances[from] BY DEF CanMoveScaled
<1>4. MoveScaled(token, from, to, amount, index) = [token EXCEPT !.balances = after]
  BY DEF MoveScaled
<1> HIDE DEF x
<1>5. debited \in Balances BY <1>1, <1>2, <1>3, SMT DEF Balances
<1> HIDE DEF debited
<1>6. after \in Balances BY <1>1, <1>5, SMT DEF Balances
<1> HIDE DEF after
<1> QED BY <1>4, <1>6 DEF ScaledLedger

(***************************************************************************)
(* A balance reads as 0 only when it is 0.                                 *)
(***************************************************************************)
LEMMA ScaledBalanceType ==
  ASSUME NEW token \in ScaledLedger, NEW user \in Accounts, NEW index \in Nat, RAY <= index
  PROVE  /\ ScaledBalanceOf(token, user, index) \in Nat
         /\ token.balances[user] \in Nat
         /\ ScaledBalanceOf(token, user, index) = 0 => token.balances[user] = 0
         /\ ScaledTotalSupply(token, index) \in Nat
<1>1. token.balances[user] \in Nat /\ token.totalSupply \in Nat
  BY DEF ScaledLedger, Balances
<1>2. rayMul(token.balances[user], index) \in Nat /\ rayMul(token.totalSupply, index) \in Nat
  BY <1>1, RayMulBounds
<1>3. token.balances[user] <= rayMul(token.balances[user], index) BY <1>1, RayMulGrows
<1> QED BY <1>1, <1>2, <1>3, SMT DEF ScaledBalanceOf, ScaledTotalSupply

(***************************************************************************)
(* Stable ledgers                                                          *)
(***************************************************************************)
LEMMA StableBalanceType ==
  ASSUME NEW t \in Nat, NEW token, StableSound(token, t), NEW user \in Accounts
  PROVE  /\ StableBalanceOf(token, user, t) \in Nat
         /\ token.balances[user] \in Nat
         /\ StableBalanceOf(token, user, t) = 0 <=> token.balances[user] = 0
<1>1. /\ token.balances[user] \in Nat /\ token.userRate[user] \in Nat
      /\ token.timestamps[user] \in Nat /\ token.timestamps[user] <= t
  BY DEF StableSound, StableLedger, Balances
<1> DEFINE factor == calculateCompoundedInterest(token.userRate[user], token.timestamps[user], t)
<1>2. factor \in Nat /\ RAY <= factor BY <1>1, CompoundedAtLeastRay
<1> HIDE DEF factor
<1>3. /\ rayMul(token.balances[user], factor) \in Nat
      /\ token.balances[user] <= rayMul(token.balances[user], factor)
  BY <1>1, <1>2, RayMulBounds, RayMulGrows
<1>4. StableBalanceOf(token, user, t)
        = IF token.balances[user] = 0 THEN 0 ELSE rayMul(token.balances[user], factor)
  BY DEF StableBalanceOf, factor
<1> QED BY <1>1, <1>3, <1>4, SMT

\* totalSupply() of the stable debt token is a number.
LEMMA StableSupplyType ==
  ASSUME NEW t \in Nat, NEW token, StableSound(token, t)
  PROVE  StableSupplyAt(token, t) \in Nat
<1>1. /\ token.totalSupply \in Nat /\ token.avgStableRate \in Nat
      /\ token.totalSupplyTimestamp \in Nat /\ token.totalSupplyTimestamp <= t
  BY DEF StableSound, StableLedger
<1> DEFINE factor == calculateCompoundedInterest(token.avgStableRate, token.totalSupplyTimestamp, t)
<1>2. factor \in Nat BY <1>1, CompoundedAtLeastRay
<1> HIDE DEF factor
<1>3. rayMul(token.totalSupply, factor) \in Nat BY <1>1, <1>2, RayMulBounds
<1>4. StableSupplyAt(token, t)
        = IF token.totalSupply = 0 THEN 0 ELSE rayMul(token.totalSupply, factor)
  BY DEF StableSupplyAt, factor
<1> QED BY <1>3, <1>4

\* The average of two rates, weighted by debts that are not both 0.
LEMMA AverageRateType ==
  ASSUME NEW rate1 \in Nat, NEW debt1 \in Nat, NEW rate2 \in Nat, NEW debt2 \in Nat,
         debt1 + debt2 # 0
  PROVE  rayDiv(rayMul(rate1, wadToRay(debt1)) + rayMul(wadToRay(debt2), rate2),
                wadToRay(debt1 + debt2)) \in Nat
<1>1. /\ wadToRay(debt1) \in Nat /\ wadToRay(debt2) \in Nat
      /\ wadToRay(debt1 + debt2) \in Nat \ {0}
  BY WadToRayType, SMT
<1>2. /\ rayMul(rate1, wadToRay(debt1)) \in Nat
      /\ rayMul(wadToRay(debt2), rate2) \in Nat
  BY <1>1, RayMulBounds
<1>3. rayMul(rate1, wadToRay(debt1)) + rayMul(wadToRay(debt2), rate2) \in Nat
  BY <1>2, SMT
<1> QED BY <1>1, <1>3, RayDivType

\* StableDebtToken.mint yields a sound ledger and touches one balance only.
LEMMA MintStableSound ==
  ASSUME NEW t \in Nat, NEW token, StableSound(token, t), NEW user \in Accounts,
         NEW amount \in Nat, NEW rate \in Nat, CanMintStable(token, user, amount, rate, t)
  PROVE  /\ StableSound(MintStable(token, user, amount, rate, t), t)
         /\ \A u \in Accounts \ {user} :
              MintStable(token, user, amount, rate, t).balances[u] = token.balances[u]
<1> DEFINE balance == StableBalanceOf(token, user, t)
           supply  == StableSupplyAt(token, t)
           userRate == MintedUserRate(token, user, amount, rate, t)
           avgRate  == MintedAvgRate(token, amount, rate, t)
<1>1. /\ token.balances \in Balances /\ token.userRate \in Balances
      /\ token.timestamps \in Balances /\ token.avgStableRate \in Nat
      /\ token.userRate[user] \in Nat
      /\ \A u \in Accounts : token.timestamps[u] <= t
  BY DEF StableSound, StableLedger, Balances
<1>2. balance \in Nat /\ supply \in Nat BY StableBalanceType, StableSupplyType
<1>3. balance + amount # 0 /\ supply + amount # 0 BY DEF CanMintStable
<1>4. userRate \in Nat BY <1>1, <1>2, <1>3, AverageRateType DEF MintedUserRate
<1>5. avgRate \in Nat
  <2>1. rayMul(rate, wadToRay(amount)) = rayMul(wadToRay(amount), rate)
    BY WadToRayType, SMT DEF rayMul
  <2>2. rayDiv(rayMul(token.avgStableRate, wadToRay(supply)) + rayMul(wadToRay(amount), rate),
               wadToRay(supply + amount)) \in Nat
    BY <1>1, <1>2, <1>3, AverageRateType
  <2> QED BY <2>1, <2>2 DEF MintedAvgRate
<1> DEFINE balances   == [token.balances EXCEPT ![user] = balance + amount]
           userRates  == [token.userRate EXCEPT ![user] = userRate]
           timestamps == [token.timestamps EXCEPT ![user] = t]
<1>6. MintStable(token, user, amount, rate, t)
        = [balances |-> balances, userRate |-> userRates, timestamps |-> timestamps,
           totalSupply |-> supply + amount, avgStableRate |-> avgRate,
           totalSupplyTimestamp |-> t]
  BY DEF MintStable
<1> HIDE DEF balance, supply, userRate, avgRate
<1>7. balance + amount \in Nat /\ supply + amount \in Nat BY <1>2, SMT
<1>8. balances \in Balances /\ userRates \in Balances /\ timestamps \in Balances
  BY <1>1, <1>4, <1>7 DEF Balances
<1>9. \A u \in Accounts : timestamps[u] <= t BY <1>1, SMT DEF Balances
<1>10. \A u \in Accounts \ {user} : balances[u] = token.balances[u] BY <1>1 DEF Balances
<1> HIDE DEF balances, userRates, timestamps
<1>11. t <= t BY SMT
<1> QED BY <1>5, <1>6, <1>7, <1>8, <1>9, <1>10, <1>11 DEF StableSound, StableLedger

\* StableDebtToken.burn yields a sound ledger, touches one balance only, takes
\* exactly the amount from what the user owes, and leaves debt only to a debtor.
LEMMA BurnStableSound ==
  ASSUME NEW t \in Nat, NEW token, StableSound(token, t), NEW user \in Accounts,
         NEW amount \in Nat, CanBurnStable(token, user, amount, t)
  PROVE  LET after == BurnStable(token, user, amount, t)
         IN /\ StableSound(after, t)
            /\ \A u \in Accounts \ {user} : after.balances[u] = token.balances[u]
            /\ after.balances[user] = StableBalanceOf(token, user, t) - amount
            /\ after.balances[user] # 0 => token.balances[user] # 0
<1> DEFINE balance == StableBalanceOf(token, user, t)
           supply  == StableSupplyAt(token, t)
           first   == rayMul(token.avgStableRate, wadToRay(supply))
           second  == rayMul(token.userRate[user], wadToRay(amount))
           next    == SupplyAfterBurn(token, user, amount, t)
<1>1. /\ token.balances \in Balances /\ token.userRate \in Balances
      /\ token.timestamps \in Balances /\ token.avgStableRate \in Nat
      /\ token.userRate[user] \in Nat
      /\ \A u \in Accounts : token.timestamps[u] <= t
  BY DEF StableSound, StableLedger, Balances
<1>2. /\ balance \in Nat /\ supply \in Nat
      /\ token.balances[user] \in Nat /\ (balance = 0 <=> token.balances[user] = 0)
  BY StableBalanceType, StableSupplyType
<1>3. amount <= balance BY DEF CanBurnStable
<1>4. next[1] \in Nat /\ next[2] \in Nat
  <2>1. CASE supply <= amount \/ second >= first
    <3>1. next = <<0, 0>> BY <2>1 DEF SupplyAfterBurn
    <3> QED BY <3>1, SMT
  <2>2. CASE ~(supply <= amount \/ second >= first)
    <3>1. next = <<supply - amount, rayDiv(first - second, wadToRay(supply - amount))>>
      BY <2>2 DEF SupplyAfterBurn
    <3>2. wadToRay(supply) \in Nat /\ wadToRay(amount) \in Nat BY <1>2, WadToRayType
    <3>3. first \in Nat /\ second \in Nat BY <1>1, <3>2, RayMulBounds
    <3> HIDE DEF first, second, supply
    <3>4. supply - amount \in Nat \ {0} /\ first - second \in Nat BY <1>2, <2>2, <3>3, SMT
    <3>5. wadToRay(supply - amount) \in Nat \ {0} BY <3>4, WadToRayType
    <3>6. rayDiv(first - second, wadToRay(supply - amount)) \in Nat BY <3>4, <3>5, RayDivType
    <3> QED BY <3>1, <3>4, <3>6
  <2> QED BY <2>1, <2>2
<1> DEFINE balances   == [token.balances EXCEPT ![user] = balance - amount]
           userRates  == [token.userRate EXCEPT ![user] = IF amount = balance THEN 0 ELSE @]
           timestamps == [token.timestamps EXCEPT ![user] = IF amount = balance THEN 0 ELSE t]
<1>5. BurnStable(token, user, amount, t)
        = [balances |-> balances, userRate |-> userRates, timestamps |-> timestamps,
           totalSupply |-> next[1], avgStableRate |-> next[2], totalSupplyTimestamp |-> t]
  BY DEF BurnStable
<1> HIDE DEF balance, supply, next
<1>6. balance - amount \in Nat BY <1>2, <1>3, SMT
<1>7. balances \in Balances /\ userRates \in Balances /\ timestamps \in Balances
  BY <1>1, <1>6, SMT DEF Balances
<1>8. \A u \in Accounts : timestamps[u] <= t BY <1>1, SMT DEF Balances
<1>9. /\ \A u \in Accounts \ {user} : balances[u] = token.balances[u]
      /\ balances[user] = balance - amount
  BY <1>1 DEF Balances
<1>10. balances[user] # 0 => token.balances[user] # 0 BY <1>2, <1>3, <1>9, SMT
<1> HIDE DEF balances, userRates, timestamps
<1>11. t <= t BY SMT
<1> QED BY <1>4, <1>5, <1>7, <1>8, <1>9, <1>10, <1>11 DEF StableSound, StableLedger, balance

\* A ray times as much changes nothing, whichever side it is on.
LEMMA TimesRay ==
  ASSUME NEW b \in Nat
  PROVE  rayMul(b, RAY) = b
<1>1. b * RAY = RAY * b BY RayPositive, SMT
<1>2. rayMul(b, RAY) = rayMul(RAY, b) BY <1>1 DEF rayMul
<1> QED BY <1>2, RayTimes

\* Between a timestamp and itself nothing accrues.
LEMMA NoTimeNoInterest ==
  ASSUME NEW t \in Nat, NEW rate
  PROVE  calculateCompoundedInterest(rate, t, t) = RAY
BY SMT DEF calculateCompoundedInterest

\* What a user owes in stable debt depends on their own three entries only.
LEMMA SameStableBalance ==
  ASSUME NEW t, NEW token, NEW after, NEW u,
         after.balances[u] = token.balances[u],
         after.userRate[u] = token.userRate[u],
         after.timestamps[u] = token.timestamps[u]
  PROVE  StableBalanceOf(after, u, t) = StableBalanceOf(token, u, t)
BY DEF StableBalanceOf

\* A debt that was written in this block is its principal.
LEMMA FreshStableBalance ==
  ASSUME NEW t \in Nat, NEW token, NEW u, token.balances[u] \in Nat,
         token.balances[u] # 0 => token.timestamps[u] = t
  PROVE  StableBalanceOf(token, u, t) = token.balances[u]
BY TimesRay, NoTimeNoInterest DEF StableBalanceOf

\* StableDebtToken.mint: the user owes the amount more, nobody else anything else,
\* and the accrued supply grows by the amount.
LEMMA MintStableDebts ==
  ASSUME NEW t \in Nat, NEW token, StableSound(token, t), NEW user \in Accounts,
         NEW amount \in Nat, NEW rate
  PROVE  LET after == MintStable(token, user, amount, rate, t)
         IN /\ \A u \in Accounts \ {user} :
                 StableBalanceOf(after, u, t) = StableBalanceOf(token, u, t)
            /\ StableBalanceOf(after, user, t) = StableBalanceOf(token, user, t) + amount
            /\ StableSupplyAt(after, t) = StableSupplyAt(token, t) + amount
<1> DEFINE after   == MintStable(token, user, amount, rate, t)
           balance == StableBalanceOf(token, user, t)
           supply  == StableSupplyAt(token, t)
<1>1. /\ token.balances \in Balances /\ token.userRate \in Balances
      /\ token.timestamps \in Balances
  BY DEF StableSound, StableLedger
<1>2. balance + amount \in Nat /\ supply + amount \in Nat
  <2> HIDE DEF balance, supply
  <2>1. balance \in Nat /\ supply \in Nat
    BY StableBalanceType, StableSupplyType DEF balance, supply
  <2> QED BY <2>1, SMT
<1>3. /\ after.balances = [token.balances EXCEPT ![user] = balance + amount]
      /\ after.timestamps = [token.timestamps EXCEPT ![user] = t]
      /\ after.userRate = [token.userRate EXCEPT
                             ![user] = MintedUserRate(token, user, amount, rate, t)]
      /\ after.totalSupply = supply + amount
      /\ after.totalSupplyTimestamp = t
  BY DEF MintStable
<1> HIDE DEF after, balance, supply
<1>4. /\ after.balances[user] = balance + amount /\ after.timestamps[user] = t
      /\ \A u \in Accounts \ {user} : /\ after.balances[u] = token.balances[u]
                                      /\ after.userRate[u] = token.userRate[u]
                                      /\ after.timestamps[u] = token.timestamps[u]
  BY <1>1, <1>3 DEF Balances
<1>5. \A u \in Accounts \ {user} : StableBalanceOf(after, u, t) = StableBalanceOf(token, u, t)
  BY <1>4, SameStableBalance
<1>6. StableBalanceOf(after, user, t) = balance + amount BY <1>2, <1>4, FreshStableBalance
<1>7. StableSupplyAt(after, t) = supply + amount
  BY <1>2, <1>3, TimesRay, NoTimeNoInterest DEF StableSupplyAt
<1> QED BY <1>5, <1>6, <1>7 DEF after, balance, supply

\* StableDebtToken.burn: the user owes the amount less, nobody else anything else,
\* and the accrued supply falls by the amount or is given up on.
LEMMA BurnStableDebts ==
  ASSUME NEW t \in Nat, NEW token, StableSound(token, t), NEW user \in Accounts,
         NEW amount \in Nat, CanBurnStable(token, user, amount, t)
  PROVE  LET after == BurnStable(token, user, amount, t)
         IN /\ \A u \in Accounts \ {user} :
                 StableBalanceOf(after, u, t) = StableBalanceOf(token, u, t)
            /\ StableBalanceOf(after, user, t) = StableBalanceOf(token, user, t) - amount
            /\ StableSupplyAt(after, t) \in {0, StableSupplyAt(token, t) - amount}
<1> DEFINE after   == BurnStable(token, user, amount, t)
           balance == StableBalanceOf(token, user, t)
           supply  == StableSupplyAt(token, t)
           next    == SupplyAfterBurn(token, user, amount, t)
<1>1. /\ token.balances \in Balances /\ token.userRate \in Balances
      /\ token.timestamps \in Balances
  BY DEF StableSound, StableLedger
<1>2. balance \in Nat /\ supply \in Nat BY StableBalanceType, StableSupplyType
<1>3. amount <= balance BY DEF CanBurnStable
<1>4. next = <<0, 0>> \/ (next[1] = supply - amount /\ ~(supply <= amount))
  BY DEF SupplyAfterBurn
<1>5. /\ after.balances = [token.balances EXCEPT ![user] = balance - amount]
      /\ after.timestamps = [token.timestamps EXCEPT ![user] = IF amount = balance THEN 0 ELSE t]
      /\ after.userRate = [token.userRate EXCEPT ![user] = IF amount = balance THEN 0 ELSE @]
      /\ after.totalSupply = next[1]
      /\ after.totalSupplyTimestamp = t
  BY DEF BurnStable
<1> HIDE DEF after, balance, supply, next
<1>6. balance - amount \in Nat /\ (balance - amount # 0 => amount # balance)
  BY <1>2, <1>3, SMT
<1>7. /\ after.balances[user] = balance - amount
      /\ amount # balance => after.timestamps[user] = t
      /\ \A u \in Accounts \ {user} : /\ after.balances[u] = token.balances[u]
                                      /\ after.userRate[u] = token.userRate[u]
                                      /\ after.timestamps[u] = token.timestamps[u]
  BY <1>1, <1>5 DEF Balances
<1>8. \A u \in Accounts \ {user} : StableBalanceOf(after, u, t) = StableBalanceOf(token, u, t)
  BY <1>7, SameStableBalance
<1>9. StableBalanceOf(after, user, t) = balance - amount BY <1>6, <1>7, FreshStableBalance
<1>10. StableSupplyAt(after, t) \in {0, supply - amount}
  <2>1. CASE next = <<0, 0>>
    <3>1. after.totalSupply = 0 BY <1>5, <2>1, SMT
    <3> QED BY <3>1 DEF StableSupplyAt
  <2>2. CASE next[1] = supply - amount /\ ~(supply <= amount)
    <3>1. supply - amount \in Nat BY <1>2, <2>2, SMT
    <3>2. StableSupplyAt(after, t) = supply - amount
      BY <1>5, <2>2, <3>1, TimesRay, NoTimeNoInterest DEF StableSupplyAt
    <3> QED BY <3>2
  <2> QED BY <1>4, <2>1, <2>2
<1> QED BY <1>8, <1>9, <1>10 DEF after, balance, supply

(***************************************************************************)
(* Indexes: whichever way they are read or updated, they only grow, and    *)
(* the view of a debt is never behind the index it is burned at.           *)
(***************************************************************************)
LEMMA IndexTimesFactor ==
  ASSUME NEW factor \in Nat, RAY <= factor, NEW index \in Nat, RAY <= index
  PROVE  /\ rayMul(factor, index) \in Nat
         /\ index <= rayMul(factor, index)
         /\ RAY <= rayMul(factor, index)
<1>1. rayMul(factor, index) \in Nat /\ factor <= rayMul(factor, index)
  BY RayMulBounds, RayMulGrows
<1>2. index <= rayMul(index, factor) BY RayMulGrows
<1>3. rayMul(index, factor) = rayMul(factor, index)
  <2>1. index * factor = factor * index BY SMT
  <2> QED BY <2>1 DEF rayMul
<1>4. RAY \in Nat BY RayPositive
<1> QED BY <1>1, <1>2, <1>3, <1>4, SMT

\* What Sound says of the fields of a reserve.
LEMMA SoundFields ==
  ASSUME NEW t \in Nat, NEW r, Sound(r, t)
  PROVE  /\ r.liquidityIndex \in Nat /\ RAY <= r.liquidityIndex
         /\ r.variableBorrowIndex \in Nat /\ RAY <= r.variableBorrowIndex
         /\ r.currentLiquidityRate \in Nat /\ r.currentVariableBorrowRate \in Nat
         /\ r.currentStableBorrowRate \in Nat
         /\ r.lastUpdateTimestamp \in Nat /\ r.lastUpdateTimestamp <= t
         /\ r.aToken \in ScaledLedger /\ r.variableDebt \in ScaledLedger
         /\ r.cash \in Nat
         /\ StableSound(r.stableDebt, t)
BY DEF Sound, Reserve

\* getNormalizedIncome and _updateIndexes never take the liquidity index below
\* where it is, nor below one ray.
LEMMA LiquidityIndexGrows ==
  ASSUME NEW t \in Nat, NEW r, Sound(r, t)
  PROVE  /\ getNormalizedIncome(r, t) \in Nat
         /\ RAY <= getNormalizedIncome(r, t)
         /\ UpdatedLiquidityIndex(r, t) \in Nat
         /\ r.liquidityIndex <= UpdatedLiquidityIndex(r, t)
         /\ RAY <= UpdatedLiquidityIndex(r, t)
<1> DEFINE factor == calculateLinearInterest(r.currentLiquidityRate, r.lastUpdateTimestamp, t)
           index == r.liquidityIndex
<1>1. factor \in Nat /\ RAY <= factor BY SoundFields, LinearAtLeastRay
<1>2. index \in Nat /\ RAY <= index BY SoundFields
<1>3. getNormalizedIncome(r, t) \in {index, rayMul(factor, index)}
  BY DEF getNormalizedIncome
<1>4. UpdatedLiquidityIndex(r, t) \in {index, rayMul(factor, index)}
  BY DEF UpdatedLiquidityIndex
<1> HIDE DEF factor, index
<1>5. /\ rayMul(factor, index) \in Nat /\ index <= rayMul(factor, index)
      /\ RAY <= rayMul(factor, index)
  BY <1>1, <1>2, IndexTimesFactor
<1>6. index <= index BY <1>2, SMT
<1> QED BY <1>2, <1>3, <1>4, <1>5, <1>6 DEF index

\* The same for the variable index; and the view getNormalizedDebt is never
\* behind the index that _updateIndexes stores.
LEMMA VariableBorrowIndexGrows ==
  ASSUME NEW t \in Nat, NEW r, Sound(r, t)
  PROVE  /\ getNormalizedDebt(r, t) \in Nat
         /\ RAY <= getNormalizedDebt(r, t)
         /\ UpdatedVariableBorrowIndex(r, t) \in Nat
         /\ r.variableBorrowIndex <= UpdatedVariableBorrowIndex(r, t)
         /\ RAY <= UpdatedVariableBorrowIndex(r, t)
         /\ UpdatedVariableBorrowIndex(r, t) <= getNormalizedDebt(r, t)
<1> DEFINE factor == calculateCompoundedInterest(r.currentVariableBorrowRate,
                                                 r.lastUpdateTimestamp, t)
           index == r.variableBorrowIndex
<1>1. /\ r.lastUpdateTimestamp \in Nat /\ r.lastUpdateTimestamp <= t
      /\ r.currentVariableBorrowRate \in Nat
  BY SoundFields
<1>2. factor \in Nat /\ RAY <= factor BY <1>1, CompoundedAtLeastRay
<1>3. index \in Nat /\ RAY <= index BY SoundFields
<1>4. getNormalizedDebt(r, t)
        = IF r.lastUpdateTimestamp = t THEN index ELSE rayMul(factor, index)
  BY DEF getNormalizedDebt
<1>5. UpdatedVariableBorrowIndex(r, t) \in {index, rayMul(factor, index)}
  BY DEF UpdatedVariableBorrowIndex
<1>6. r.lastUpdateTimestamp = t => rayMul(factor, index) = index
  <2>1. t - t = 0 BY SMT
  <2>2. r.lastUpdateTimestamp = t => factor = RAY BY <2>1 DEF calculateCompoundedInterest
  <2> HIDE DEF factor, index
  <2> QED BY <1>3, <2>2, RayTimes
<1> HIDE DEF factor, index
<1>7. /\ rayMul(factor, index) \in Nat /\ index <= rayMul(factor, index)
      /\ RAY <= rayMul(factor, index)
  BY <1>2, <1>3, IndexTimesFactor
<1>8. index <= index /\ rayMul(factor, index) <= rayMul(factor, index) BY <1>3, <1>7, SMT
<1> QED BY <1>3, <1>4, <1>5, <1>6, <1>7, <1>8 DEF index

(***************************************************************************)
(* updateState and updateInterestRates                                     *)
(***************************************************************************)
LEMMA AmountToMintType ==
  ASSUME NEW t \in Nat, NEW r, Sound(r, t), NEW reserveFactor \in Nat,
         CanUpdateState(r, reserveFactor, t)
  PROVE  AmountToMint(r, reserveFactor, t) \in Nat
<1>1. CASE reserveFactor = 0 BY <1>1, SMT DEF AmountToMint
<1>2. CASE reserveFactor # 0
  <2> DEFINE sd == r.stableDebt
             factor == calculateCompoundedInterest(sd.avgStableRate, sd.totalSupplyTimestamp,
                                                   r.lastUpdateTimestamp)
             d1 == ScaledTotalSupply(r.variableDebt, UpdatedVariableBorrowIndex(r, t))
             d2 == StableSupplyAt(sd, t)
             d3 == ScaledTotalSupply(r.variableDebt, r.variableBorrowIndex)
             d4 == rayMul(sd.totalSupply, factor)
  <2>1. sd.totalSupplyTimestamp <= r.lastUpdateTimestamp /\ TotalDebtAccrued(r, t) >= 0
    <3>1. /\ r.lastUpdateTimestamp >= sd.totalSupplyTimestamp
          /\ TotalDebtAccrued(r, t) >= 0
      BY <1>2 DEF CanUpdateState
    <3>2. r.lastUpdateTimestamp \in Nat /\ sd.totalSupplyTimestamp \in Nat
      BY SoundFields DEF StableSound, StableLedger
    <3> QED BY <3>1, <3>2, SMT
  <2>2. /\ sd.avgStableRate \in Nat /\ sd.totalSupplyTimestamp \in Nat
        /\ sd.totalSupply \in Nat /\ r.lastUpdateTimestamp \in Nat
    BY SoundFields DEF StableSound, StableLedger
  <2>3. factor \in Nat BY <2>1, <2>2, CompoundedAtLeastRay
  <2> HIDE DEF factor
  <2>4. d4 \in Nat BY <2>2, <2>3, RayMulBounds
  <2>5. d2 \in Nat BY SoundFields, StableSupplyType
  <2>6. r.variableDebt.totalSupply \in Nat BY SoundFields DEF ScaledLedger
  <2>7. d1 \in Nat BY <2>6, VariableBorrowIndexGrows, RayMulBounds DEF ScaledTotalSupply
  <2>8. d3 \in Nat BY <2>6, SoundFields, RayMulBounds DEF ScaledTotalSupply
  <2>9. TotalDebtAccrued(r, t) = d1 + d2 - d3 - d4 BY DEF TotalDebtAccrued, factor
  <2> HIDE DEF d1, d2, d3, d4, sd
  <2>10. TotalDebtAccrued(r, t) \in Nat BY <2>1, <2>4, <2>5, <2>7, <2>8, <2>9, SMT
  <2>11. percentMul(TotalDebtAccrued(r, t), reserveFactor) \in Nat BY <2>10, PercentMulType
  <2> QED BY <1>2, <2>11 DEF AmountToMint
<1> QED BY <1>1, <1>2

\* updateState keeps a reserve sound, its debts and its cash as they are, and
\* moves both indexes up or not at all.
LEMMA UpdateStateSound ==
  ASSUME NEW t \in Nat, NEW r, Sound(r, t), NEW reserveFactor \in Nat,
         CanUpdateState(r, reserveFactor, t), Treasury \in Accounts
  PROVE  LET after == updateState(r, reserveFactor, t)
         IN /\ Sound(after, t)
            /\ after.variableDebt = r.variableDebt
            /\ after.stableDebt = r.stableDebt
            /\ after.cash = r.cash
            /\ after.variableBorrowIndex = UpdatedVariableBorrowIndex(r, t)
            /\ r.liquidityIndex <= after.liquidityIndex
            /\ r.variableBorrowIndex <= after.variableBorrowIndex
<1> DEFINE li == UpdatedLiquidityIndex(r, t)
           vi == UpdatedVariableBorrowIndex(r, t)
           minted == MintScaled(r.aToken, Treasury, AmountToMint(r, reserveFactor, t), li)
<1>1. r \in Reserve /\ StableSound(r.stableDebt, t) BY DEF Sound
<1>2. li \in Nat /\ RAY <= li /\ r.liquidityIndex <= li BY LiquidityIndexGrows
<1>3. vi \in Nat /\ RAY <= vi /\ r.variableBorrowIndex <= vi BY VariableBorrowIndexGrows
<1>4. minted \in ScaledLedger
  <2>1. AmountToMint(r, reserveFactor, t) \in Nat BY AmountToMintType
  <2> HIDE DEF li
  <2> QED BY <1>2, <2>1, SoundFields, MintScaledType
<1>5. updateState(r, reserveFactor, t)
        = [r EXCEPT !.liquidityIndex = li, !.variableBorrowIndex = vi,
                    !.lastUpdateTimestamp = t, !.aToken = minted]
  BY DEF updateState
<1> HIDE DEF li, vi, minted
<1> DEFINE after == [r EXCEPT !.liquidityIndex = li, !.variableBorrowIndex = vi,
                              !.lastUpdateTimestamp = t, !.aToken = minted]
<1>6. after \in Reserve BY <1>1, <1>2, <1>3, <1>4 DEF Reserve
<1>7. /\ after.liquidityIndex = li /\ after.variableBorrowIndex = vi
      /\ after.lastUpdateTimestamp = t /\ after.variableDebt = r.variableDebt
      /\ after.stableDebt = r.stableDebt /\ after.cash = r.cash
  BY <1>1 DEF Reserve
<1> HIDE DEF after
<1>8. t <= t BY SMT
<1>9. Sound(after, t) BY <1>1, <1>2, <1>3, <1>6, <1>7, <1>8 DEF Sound
<1>10. updateState(r, reserveFactor, t) = after BY <1>5 DEF after
<1> QED BY <1>2, <1>3, <1>7, <1>9, <1>10 DEF vi

\* updateInterestRates writes the three rates and nothing else.
LEMMA InterestRatesSound ==
  ASSUME NEW t \in Nat, NEW r, Sound(r, t), NEW s, NEW reserveFactor, NEW delta,
         RatesFit(WithInterestRates(r, s, reserveFactor, delta, t))
  PROVE  LET after == WithInterestRates(r, s, reserveFactor, delta, t)
         IN /\ Sound(after, t)
            /\ after.liquidityIndex = r.liquidityIndex
            /\ after.variableBorrowIndex = r.variableBorrowIndex
            /\ after.aToken = r.aToken
            /\ after.variableDebt = r.variableDebt
            /\ after.stableDebt = r.stableDebt
            /\ after.cash = r.cash
<1>1. PICK x, y, z : WithInterestRates(r, s, reserveFactor, delta, t)
        = [r EXCEPT !.currentLiquidityRate = x, !.currentStableBorrowRate = y,
                    !.currentVariableBorrowRate = z]
  BY DEF WithInterestRates
<1> DEFINE after == [r EXCEPT !.currentLiquidityRate = x, !.currentStableBorrowRate = y,
                              !.currentVariableBorrowRate = z]
<1>2. r \in Reserve BY DEF Sound
<1>3. /\ after.currentLiquidityRate = x /\ after.currentStableBorrowRate = y
      /\ after.currentVariableBorrowRate = z
  BY <1>2 DEF Reserve
<1>4. x \in Nat /\ y \in Nat /\ z \in Nat
  <2>1. {x, y, z} \subseteq 0 .. MAX_UINT128 BY <1>1, <1>3 DEF RatesFit
  <2> QED BY <2>1, SMT
<1>5. after \in Reserve BY <1>2, <1>4 DEF Reserve
<1>6. /\ after.liquidityIndex = r.liquidityIndex
      /\ after.variableBorrowIndex = r.variableBorrowIndex
      /\ after.lastUpdateTimestamp = r.lastUpdateTimestamp
      /\ after.aToken = r.aToken /\ after.variableDebt = r.variableDebt
      /\ after.stableDebt = r.stableDebt /\ after.cash = r.cash
  BY <1>2 DEF Reserve
<1> HIDE DEF after
<1>7. Sound(after, t) BY <1>5, <1>6 DEF Sound
<1> QED BY <1>1, <1>6, <1>7 DEF after


(***************************************************************************)
(* What updateState writes.                                                *)
(***************************************************************************)

\* The view of the income is the index updateState stores: the shortcuts of
\* getNormalizedIncome (same block) and _updateIndexes (no rate) agree.
LEMMA IncomeIsUpdated ==
  ASSUME NEW t \in Nat, NEW r, Sound(r, t)
  PROVE  getNormalizedIncome(r, t) = UpdatedLiquidityIndex(r, t)
<1> DEFINE factor == calculateLinearInterest(r.currentLiquidityRate, r.lastUpdateTimestamp, t)
           rate == r.currentLiquidityRate
           last == r.lastUpdateTimestamp
<1>1. rate \in Nat /\ last \in Nat /\ r.liquidityIndex \in Nat BY SoundFields
<1>2. rate = 0 \/ last = t => factor = RAY
  <2> SUFFICES ASSUME rate = 0 \/ last = t PROVE factor = RAY OBVIOUS
  <2>1. factor = RAY + (rate * (t - last)) \div SECONDS_PER_YEAR
    BY DEF calculateLinearInterest
  <2> HIDE DEF rate, last, factor
  <2>2. rate * (t - last) = 0 BY <1>1, SMT
  <2>3. 0 \div SECONDS_PER_YEAR = 0 BY ScaleAssumption, SMT
  <2> QED BY <2>1, <2>2, <2>3, RayPositive, SMT
<1>3. rayMul(RAY, r.liquidityIndex) = r.liquidityIndex BY <1>1, RayTimes
<1> QED BY <1>2, <1>3 DEF getNormalizedIncome, UpdatedLiquidityIndex

\* updateState brings the reserve up to date and mints to the treasury only.
LEMMA UpdateStateFields ==
  ASSUME NEW t \in Nat, NEW r, Sound(r, t), NEW reserveFactor
  PROVE  LET after == updateState(r, reserveFactor, t)
         IN /\ after.lastUpdateTimestamp = t
            /\ after.liquidityIndex = UpdatedLiquidityIndex(r, t)
            /\ \A u \in Accounts \ {Treasury} :
                 after.aToken.balances[u] = r.aToken.balances[u]
<1>1. r \in Reserve BY DEF Sound
<1>2. r.aToken.balances \in [Accounts -> Nat] BY <1>1 DEF Reserve, ScaledLedger, Balances
<1> DEFINE minted == MintScaled(r.aToken, Treasury, AmountToMint(r, reserveFactor, t),
                                UpdatedLiquidityIndex(r, t))
<1>3. \A u \in Accounts \ {Treasury} : minted.balances[u] = r.aToken.balances[u]
  BY <1>2 DEF MintScaled
<1> HIDE DEF minted
<1>4. /\ updateState(r, reserveFactor, t).lastUpdateTimestamp = t
      /\ updateState(r, reserveFactor, t).liquidityIndex = UpdatedLiquidityIndex(r, t)
      /\ updateState(r, reserveFactor, t).aToken = minted
  BY <1>1 DEF updateState, Reserve, minted
<1> QED BY <1>3, <1>4

=============================================================================
