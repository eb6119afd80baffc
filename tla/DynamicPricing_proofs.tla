----------------------- MODULE DynamicPricing_proofs -----------------------
(***************************************************************************)
(* What the two multipliers do, for every length of the window and of the  *)
(* day, every target, rate and clamp: the daily buckets hold the days they *)
(* stand for, M_slow is adjusted by what the last Days days add up to,     *)
(* M_fast answers to every block off its target, a step up and one back    *)
(* cancel out, and everything keeps its range.                             *)
(***************************************************************************)
EXTENDS DynamicPricing, SumLemmas

\* What the window needs to know of the types.
WindowType ==
  /\ block \in 0 .. BlocksPerDay
  /\ head \in Slots
  /\ buckets \in [Slots -> Nat]
  /\ recent \in [Slots -> Nat]

\* A rotation moves the head to the next slot, round the end.
LEMMA NextHeadWraps ==
  ASSUME head \in Slots
  PROVE  NextHead = IF head + 1 = Days THEN 0 ELSE head + 1
<1>1. Days \in Nat \ {0} /\ head \in Nat /\ head < Days
  BY PricingAssumption DEF Slots
<1>2. CASE head + 1 = Days
  BY <1>1, <1>2 DEF NextHead
<1>3. CASE head + 1 # Days
  BY <1>1, <1>3 DEF NextHead
<1>4. QED
  BY <1>2, <1>3

\* The slots of the window's days are distinct: each holds one day.
LEMMA SlotsApart ==
  ASSUME head \in Slots
  PROVE  \A k \in Slots : SlotOf(k) \in Slots /\ (k # 0 => SlotOf(k) # head)
BY PricingAssumption DEF Slots, SlotOf

LEMMA SatAddType ==
  ASSUME NEW a \in Nat, NEW b \in Nat
  PROVE  SatAdd(a, b) \in Nat
BY PricingAssumption DEF SatAdd

\* Counting one more deposit commutes with capping the count.
LEMMA SatAddOne ==
  ASSUME NEW a \in Nat
  PROVE  SatAdd(SatAdd(a, 0), 1) = SatAdd(a + 1, 0)
BY PricingAssumption DEF SatAdd

LEMMA WindowInit == Init => WindowType /\ BucketsHoldDays
<1> SUFFICES ASSUME Init PROVE WindowType /\ BucketsHoldDays
  OBVIOUS
<1>1. WindowType
  BY PricingAssumption DEF Init, WindowType, Slots
<1>2. \A k \in Slots : SlotOf(k) \in Slots
  BY <1>1, SlotsApart DEF WindowType
<1>3. SatAdd(0, 0) = 0
  BY PricingAssumption DEF SatAdd
<1>4. QED
  BY <1>1, <1>2, <1>3 DEF Init, BucketsHoldDays

\* A deposit adds to the head's bucket and to today's demand.
LEMMA RecordKeepsDays ==
  ASSUME WindowType, BucketsHoldDays, RecordDemand
  PROVE  WindowType' /\ BucketsHoldDays'
<1>1. head \in Slots /\ 0 \in Slots /\ head' = head /\ block' = block
  BY PricingAssumption DEF WindowType, RecordDemand, Slots
<1>2. WindowType'
  <2>1. SatAdd(buckets[head], 1) \in Nat
    BY <1>1, SatAddType DEF WindowType
  <2>2. buckets' \in [Slots -> Nat] /\ recent' \in [Slots -> Nat]
    BY <1>1, <2>1 DEF WindowType, RecordDemand
  <2>3. QED
    BY <1>1, <2>2 DEF WindowType
<1>3. SlotOf(0) = head
  BY <1>1 DEF SlotOf, Slots
<1>4. buckets'[head] = SatAdd(recent'[0], 0)
  <2>1. buckets[head] = SatAdd(recent[0], 0)
    BY <1>1, <1>3 DEF BucketsHoldDays
  <2>2. buckets'[head] = SatAdd(buckets[head], 1) /\ recent'[0] = recent[0] + 1
    BY <1>1 DEF WindowType, RecordDemand
  <2>3. recent[0] \in Nat
    BY <1>1 DEF WindowType
  <2>4. QED
    BY <2>1, <2>2, <2>3, SatAddOne
<1>5. ASSUME NEW k \in Slots, k # 0
      PROVE  buckets'[SlotOf(k)] = SatAdd(recent'[k], 0)
  <2>1. SlotOf(k) \in Slots /\ SlotOf(k) # head
    BY <1>1, <1>5, SlotsApart
  <2>2. buckets'[SlotOf(k)] = buckets[SlotOf(k)] /\ recent'[k] = recent[k]
    BY <1>1, <1>5, <2>1 DEF WindowType, RecordDemand
  <2>3. QED
    BY <2>2 DEF BucketsHoldDays
<1>6. \A k \in Slots : SlotOf(k)' = SlotOf(k)
  BY <1>1 DEF SlotOf
<1>7. \A k \in Slots : buckets'[SlotOf(k)'] = SatAdd(recent'[k], 0)
  BY <1>3, <1>4, <1>5, <1>6
<1>8. QED
  BY <1>2, <1>7 DEF BucketsHoldDays

\* A rotation empties the bucket of the day that leaves the window, and the
\* bucket of k - 1 days ago becomes that of k days ago.
LEMMA RotationKeepsDays ==
  ASSUME WindowType, BucketsHoldDays, RotateSlowBucket, block' \in 0 .. BlocksPerDay
  PROVE  WindowType' /\ BucketsHoldDays'
<1> DEFINE next == IF head + 1 = Days THEN 0 ELSE head + 1
<1>1. head \in Slots /\ Days \in Nat \ {0}
  BY PricingAssumption DEF WindowType
<1>2. NextHead = next /\ next \in Slots
  BY <1>1, NextHeadWraps DEF Slots
<1>3. head' = next /\ buckets' = [buckets EXCEPT ![next] = 0]
  BY <1>2 DEF RotateSlowBucket
<1>4. recent' = [k \in Slots |-> IF k = 0 THEN 0 ELSE recent[k - 1]]
  BY DEF RotateSlowBucket, NextDay
<1>5. WindowType'
  <2>1. recent' \in [Slots -> Nat]
    <3>1. \A k \in Slots : k # 0 => k - 1 \in Slots
      BY <1>1 DEF Slots
    <3>2. QED
      BY <1>4, <3>1 DEF WindowType
  <2>2. buckets' \in [Slots -> Nat]
    BY <1>2, <1>3 DEF WindowType
  <2>3. QED
    BY <1>2, <1>3, <2>1, <2>2 DEF WindowType
<1>6. SlotOf(0)' = next
  BY <1>2, <1>3 DEF SlotOf, Slots
<1>7. \A k \in Slots \ {0} : /\ k - 1 \in Slots
                             /\ SlotOf(k)' = SlotOf(k - 1)
                             /\ SlotOf(k - 1) # next
                             /\ SlotOf(k - 1) \in Slots
  BY <1>1, <1>3 DEF SlotOf, Slots
<1>8. buckets'[next] = SatAdd(recent'[0], 0)
  <2>1. buckets'[next] = 0
    BY <1>2, <1>3 DEF WindowType
  <2>2. recent'[0] = 0
    BY <1>1, <1>4 DEF Slots
  <2>3. QED
    BY <2>1, <2>2, PricingAssumption DEF SatAdd
<1>9. ASSUME NEW k \in Slots \ {0}
      PROVE  buckets'[SlotOf(k - 1)] = SatAdd(recent'[k], 0)
  <2>1. buckets'[SlotOf(k - 1)] = buckets[SlotOf(k - 1)]
    BY <1>3, <1>7 DEF WindowType
  <2>2. recent'[k] = recent[k - 1]
    BY <1>4
  <2>3. buckets[SlotOf(k - 1)] = SatAdd(recent[k - 1], 0)
    BY <1>7 DEF BucketsHoldDays
  <2>4. QED
    BY <2>1, <2>2, <2>3
<1> HIDE DEF next
<1>10. \A k \in Slots : buckets'[SlotOf(k)'] = SatAdd(recent'[k], 0)
  BY <1>6, <1>7, <1>8, <1>9
<1>11. QED
  BY <1>5, <1>10 DEF BucketsHoldDays

\* The block's place in its day stays in range.
LEMMA BlockInDay ==
  ASSUME WindowType, BeginBlock
  PROVE  block' \in 0 .. BlocksPerDay
<1>1. BlocksPerDay \in Nat \ {0} /\ block \in Nat
  BY PricingAssumption DEF WindowType
<1>2. block % BlocksPerDay \in 0 .. BlocksPerDay - 1
  BY <1>1
<1>3. QED
  BY <1>1, <1>2 DEF BeginBlock

LEMMA WindowAlways == Spec => [](WindowType /\ BucketsHoldDays)
<1>1. Init => WindowType /\ BucketsHoldDays
  BY WindowInit
<1>2. (WindowType /\ BucketsHoldDays) /\ [Next]_vars
        => (WindowType /\ BucketsHoldDays)'
  <2> SUFFICES ASSUME WindowType, BucketsHoldDays, [Next]_vars
               PROVE  (WindowType /\ BucketsHoldDays)'
    OBVIOUS
  <2>1. CASE RecordDemand
    BY <2>1, RecordKeepsDays
  <2>2. CASE BeginBlock
    <3>1. block' \in 0 .. BlocksPerDay
      BY <2>2, BlockInDay
    <3>2. CASE block' = BlocksPerDay
      <4>1. RotateSlowBucket
        BY <2>2, <3>2 DEF BeginBlock, Rollover
      <4>2. QED
        BY <3>1, <4>1, RotationKeepsDays
    <3>3. CASE block' # BlocksPerDay
      BY <2>2, <3>1, <3>3 DEF BeginBlock, WindowType, BucketsHoldDays, SlotOf
    <3>4. QED
      BY <3>2, <3>3
  <2>3. CASE UNCHANGED vars
    BY <2>3 DEF vars, WindowType, BucketsHoldDays, SlotOf
  <2>4. QED
    BY <2>1, <2>2, <2>3 DEF Next
<1>3. QED
  BY <1>1, <1>2, PTL DEF Spec

\* The bucket k places behind the head is the demand of k days ago, for every
\* length of the window, whatever the order of deposits and rollovers.
THEOREM BucketsAlwaysHoldDays == Spec => []BucketsHoldDays
BY WindowAlways, PTL

-----------------------------------------------------------------------------
(* The range of a multiplier. *)

LEMMA MulType ==
  ASSUME NEW x \in Nat, NEW y \in Nat
  PROVE  Mul(x, y) \in Nat
<1>1. x * y \in Nat
  OBVIOUS
<1> DEFINE p == x * y
<1>2. p \in Nat
  BY <1>1
<1> HIDE DEF p
<1>3. p \div Scale \in Nat
  BY <1>2, PricingAssumption
<1>4. QED
  BY <1>3 DEF Mul, p

LEMMA RatioType ==
  ASSUME NEW n \in Nat, NEW d \in Nat \ {0}
  PROVE  Ratio(n, d) \in Nat
<1> DEFINE p == n * Scale
<1>1. p \in Nat
  BY PricingAssumption
<1> HIDE DEF p
<1>2. p \div d \in Nat
  BY <1>1
<1>3. QED
  BY <1>2 DEF Ratio, p

LEMMA ReciprocalType ==
  ASSUME NEW x \in Nat \ {0}
  PROVE  Reciprocal(x) \in Nat
<1> DEFINE p == 2 * Scale * Scale + x - 1
           q == 2 * x
<1>1. p \in Nat
  <2>1. Scale * Scale \in Nat
    BY PricingAssumption
  <2>2. 2 * Scale * Scale \in Nat
    BY PricingAssumption
  <2>3. QED
    BY <2>2
<1>2. q \in Nat \ {0}
  OBVIOUS
<1> HIDE DEF p, q
<1>3. p \div q \in Nat
  BY <1>1, <1>2
<1>4. QED
  BY <1>3 DEF Reciprocal, p, q

\* Whatever the demand, an adjustment answers within the clamp: neither step
\* divides by zero or leaves the naturals.
LEMMA AdjustmentInRange ==
  ASSUME NEW current \in Nat, NEW observed \in Nat, NEW target \in Nat,
         NEW rate \in Nat, NEW min \in Nat, NEW max \in Nat, min <= max,
         current \in min .. max
  PROVE  AdjustMultiplier(current, observed, target, rate, min, max)
           \in min .. max
<1>1. CASE target = 0
  BY <1>1 DEF AdjustMultiplier
<1>2. CASE target # 0 /\ observed >= target
  <2>1. Mul(rate, Ratio(observed - target, target)) \in Nat
    BY <1>2, RatioType, MulType
  <2>2. Scale + Mul(rate, Ratio(observed - target, target)) \in Nat
    BY <2>1, PricingAssumption
  <2>3. StepUp(current, observed - target, target, rate) \in Nat
    BY <2>2, MulType DEF StepUp
  <2>4. QED
    BY <1>2, <2>3 DEF AdjustMultiplier, Clamp
<1>3. CASE target # 0 /\ ~(observed >= target)
  <2>1. Mul(rate, Ratio(target - observed, target)) \in Nat
    BY <1>3, RatioType, MulType
  <2>2. Scale + Mul(rate, Ratio(target - observed, target)) \in Nat \ {0}
    BY <2>1, PricingAssumption
  <2>3. StepDown(current, target - observed, target, rate) \in Nat
    BY <2>2, ReciprocalType, MulType DEF StepDown
  <2>4. QED
    BY <1>3, <2>3 DEF AdjustMultiplier, Clamp
<1>4. QED
  BY <1>1, <1>2, <1>3

-----------------------------------------------------------------------------
(* The sum over the buckets, a fold of saturating_add. *)

\* f holds the capped sum of b over every subset of S.
CapsUp(f, b, S) ==
  f = [s \in SUBSET S |-> IF s = {} THEN 0 ELSE SatAdd(b[Picked(s)], f[Rest(s)])]

\* The fold is the value of such a function at the whole set.
LEMMA CapIsChosen ==
  ASSUME NEW b, NEW S
  PROVE  FoldFunctionOnSet(SatAdd, 0, b, S) = (CHOOSE f : CapsUp(f, b, S))[S]
BY Zenon DEF FoldFunctionOnSet, MapThenFoldSet, CapsUp, Picked, Rest

\* One unfolding of such a function.
LEMMA CapsUpAt ==
  ASSUME NEW f, NEW b, NEW S, CapsUp(f, b, S), NEW s \in SUBSET S
  PROVE  f[s] = IF s = {} THEN 0 ELSE SatAdd(b[Picked(s)], f[Rest(s)])
<1> DEFINE Caps(h) == [t \in SUBSET S |-> IF t = {} THEN 0 ELSE SatAdd(b[Picked(t)], h[Rest(t)])]
<1>1. f = Caps(f)
  BY DEF CapsUp
<1>2. Caps(f)[s] = IF s = {} THEN 0 ELSE SatAdd(b[Picked(s)], f[Rest(s)])
  OBVIOUS
<1> HIDE DEF Caps
<1> QED
  BY <1>1, <1>2

\* Capping what is left before adding to it changes nothing.
LEMMA SatAddCaps ==
  ASSUME NEW a \in Nat, NEW c \in Nat
  PROVE  SatAdd(a, SatAdd(c, 0)) = SatAdd(a + c, 0)
BY PricingAssumption DEF SatAdd

\* Saturating at every addition is saturating once, at the end: the order in
\* which the buckets are added up does not matter.
LEMMA FoldIsCapped ==
  ASSUME NEW S, IsFiniteSet(S), NEW b, \A x \in S : b[x] \in Nat
  PROVE  FoldFunctionOnSet(SatAdd, 0, b, S) = SatAdd(SumFunctionOnSet(b, S), 0)
<1> DEFINE capped == [s \in SUBSET S |-> SatAdd(SumFunctionOnSet(b, s), 0)]
<1>1. \A s \in SUBSET S : IsFiniteSet(s) /\ SumFunctionOnSet(b, s) \in Nat
  BY FS_Subset, SumNat
<1>2. ASSUME NEW s \in SUBSET S
      PROVE  capped[s] = IF s = {} THEN 0 ELSE SatAdd(b[Picked(s)], capped[Rest(s)])
  <2>1. CASE s = {}
    <3>1. SumFunctionOnSet(b, s) = 0
      BY <2>1, SumEmpty
    <3> QED
      BY <2>1, <3>1, PricingAssumption DEF SatAdd
  <2>2. CASE s # {}
    <3>1. Picked(s) \in S /\ Rest(s) \in SUBSET S
      BY <2>2, PickedIn
    <3>2. SumFunctionOnSet(b, s) = b[Picked(s)] + SumFunctionOnSet(b, Rest(s))
      BY <1>1, <2>2, SumUnfold
    <3>3. SatAdd(b[Picked(s)], SatAdd(SumFunctionOnSet(b, Rest(s)), 0))
            = SatAdd(b[Picked(s)] + SumFunctionOnSet(b, Rest(s)), 0)
      BY <1>1, <3>1, SatAddCaps
    <3> QED
      BY <2>2, <3>1, <3>2, <3>3
  <2> QED
    BY <2>1, <2>2
<1> DEFINE again == [s \in SUBSET S |-> IF s = {} THEN 0 ELSE SatAdd(b[Picked(s)], capped[Rest(s)])]
<1>3. capped = again
  <2>1. \A s \in SUBSET S : again[s] = IF s = {} THEN 0 ELSE SatAdd(b[Picked(s)], capped[Rest(s)])
    BY Zenon
  <2>2. \A s \in SUBSET S : capped[s] = again[s]
    <3> HIDE DEF capped, again
    <3> QED
      BY <1>2, <2>1
  <2> QED
    BY <2>2
<1>4. \E f : CapsUp(f, b, S)
  <2> HIDE DEF capped
  <2> QED
    BY <1>3 DEF CapsUp
<1> DEFINE chosen == CHOOSE f : CapsUp(f, b, S)
<1>5. CapsUp(chosen, b, S)
  BY <1>4
<1>6. FoldFunctionOnSet(SatAdd, 0, b, S) = chosen[S]
  BY CapIsChosen
<1>7. capped[S] = SatAdd(SumFunctionOnSet(b, S), 0)
  OBVIOUS
<1> HIDE DEF chosen, capped, again
<1> DEFINE F == {t \in SUBSET S : chosen[t] # capped[t]}
<1>8. SUFFICES ASSUME F # {} PROVE FALSE
  BY <1>6, <1>7
<1>9. PICK T \in F : \A U \in F : U \subseteq T => U = T
  <2>1. F \subseteq SUBSET S
    OBVIOUS
  <2> HIDE DEF F
  <2> QED
    BY <1>8, <2>1, LeastSubset
<1>10. chosen[T] = IF T = {} THEN 0 ELSE SatAdd(b[Picked(T)], chosen[Rest(T)])
  BY <1>5, <1>9, CapsUpAt
<1>11. capped[T] = IF T = {} THEN 0 ELSE SatAdd(b[Picked(T)], capped[Rest(T)])
  BY <1>2, <1>9
<1>12. T # {}
  BY <1>9, <1>10, <1>11
<1>13. chosen[Rest(T)] = capped[Rest(T)]
  BY <1>9, <1>12, PickedIn
<1> QED
  BY <1>9, <1>10, <1>11, <1>12, <1>13

\* The buckets and the days add up to the same, once capped.
LEMMA BucketsAddUp ==
  ASSUME WindowType, BucketsHoldDays
  PROVE  BucketSum = SatAdd(SumFunction(recent), 0)
<1> DEFINE Of(t) == {SlotOf(k) : k \in t}
           Agree(t) == SatAdd(SumFunctionOnSet(buckets, Of(t)), 0)
                         = SatAdd(SumFunctionOnSet(recent, t), 0)
<1>1. IsFiniteSet(Slots) /\ Days \in Nat \ {0} /\ head \in Slots
  BY FS_Interval, PricingAssumption DEF Slots, WindowType
<1>2. \A k \in Slots : SlotOf(k) \in Slots /\ buckets[SlotOf(k)] = SatAdd(recent[k], 0)
  BY <1>1, SlotsApart DEF BucketsHoldDays
<1>3. \A j, k \in Slots : SlotOf(j) = SlotOf(k) => j = k
  BY <1>1 DEF SlotOf, Slots
<1>4. Of(Slots) = Slots
  <2>1. \A s \in Slots : \E k \in Slots : s = SlotOf(k)
    <3> SUFFICES ASSUME NEW s \in Slots PROVE \E k \in Slots : s = SlotOf(k)
      OBVIOUS
    <3>1. CASE s <= head
      <4>1. head - s \in Slots /\ s = SlotOf(head - s)
        BY <1>1, <3>1 DEF SlotOf, Slots
      <4> QED
        BY <4>1
    <3>2. CASE s > head
      <4>1. head + Days - s \in Slots /\ s = SlotOf(head + Days - s)
        BY <1>1, <3>2 DEF SlotOf, Slots
      <4> QED
        BY <4>1
    <3> QED
      BY <1>1, <3>1, <3>2 DEF Slots
  <2> QED
    BY <1>2, <2>1
<1>5. \A t \in SUBSET Slots : IsFiniteSet(t) /\ Of(t) \in SUBSET Slots /\ IsFiniteSet(Of(t))
  BY <1>1, <1>2, FS_Subset
<1>6. \A s \in Slots : buckets[s] \in Nat /\ recent[s] \in Nat
  BY DEF WindowType
<1> HIDE DEF Of
<1> DEFINE F == {t \in SUBSET Slots : ~Agree(t)}
<1>7. F = {}
  <2> SUFFICES ASSUME F # {} PROVE FALSE
    OBVIOUS
  <2>1. PICK T \in F : \A U \in F : U \subseteq T => U = T
    <3>1. F \subseteq SUBSET Slots
      OBVIOUS
    <3> HIDE DEF F
    <3> QED
      BY <1>1, <3>1, LeastSubset
  <2>2. T \in SUBSET Slots /\ ~Agree(T)
    BY <2>1
  <2>3. T # {}
    <3> SUFFICES ASSUME T = {} PROVE FALSE
      OBVIOUS
    <3>1. Of(T) = {}
      BY DEF Of
    <3>2. SumFunctionOnSet(buckets, Of(T)) = 0 /\ SumFunctionOnSet(recent, T) = 0
      BY <3>1, SumEmpty, Zenon
    <3> QED
      BY <2>2, <3>2
  <2>4. PICK k \in T : TRUE
    BY <2>3
  <2> DEFINE R == T \ {k}
  <2>5. R \in SUBSET Slots /\ Agree(R) /\ k \in Slots
    BY <2>1, <2>2, <2>4
  <2>6. SumFunctionOnSet(recent, T) = recent[k] + SumFunctionOnSet(recent, R)
    BY <1>5, <1>6, <2>2, <2>4, SumRemove
  <2>7. SlotOf(k) \in Of(T) /\ Of(T) \ {SlotOf(k)} = Of(R)
    BY <1>3, <2>2, <2>4, <2>5 DEF Of
  <2>8. SumFunctionOnSet(buckets, Of(T))
          = buckets[SlotOf(k)] + SumFunctionOnSet(buckets, Of(T) \ {SlotOf(k)})
    BY <1>5, <1>6, <2>2, <2>7, SumRemove
  <2>9. SumFunctionOnSet(buckets, Of(T))
          = buckets[SlotOf(k)] + SumFunctionOnSet(buckets, Of(R))
    BY <2>7, <2>8
  <2>10. /\ SumFunctionOnSet(buckets, Of(R)) \in Nat
         /\ SumFunctionOnSet(recent, R) \in Nat
         /\ recent[k] \in Nat
    BY <1>5, <1>6, <2>5, SumNat
  <2>11. buckets[SlotOf(k)] = SatAdd(recent[k], 0)
    BY <1>2, <2>5
  <2> DEFINE x == SumFunctionOnSet(buckets, Of(R))
             y == SumFunctionOnSet(recent, R)
             z == recent[k]
  <2>12. x \in Nat /\ y \in Nat /\ z \in Nat /\ SatAdd(x, 0) = SatAdd(y, 0)
    BY <2>5, <2>10
  <2>13. /\ SumFunctionOnSet(buckets, Of(T)) = SatAdd(z, 0) + x
         /\ SumFunctionOnSet(recent, T) = z + y
    BY <2>6, <2>9, <2>11
  <2> HIDE DEF x, y, z
  <2>14. SatAdd(SatAdd(z, 0) + x, 0) = SatAdd(z + y, 0)
    BY <2>12, PricingAssumption DEF SatAdd
  <2> QED
    BY <2>2, <2>13, <2>14
<1>8. Agree(Slots)
  BY <1>7
<1>9. BucketSum = SatAdd(SumFunctionOnSet(buckets, Slots), 0)
  <2>1. DOMAIN buckets = Slots
    BY DEF WindowType
  <2>2. BucketSum = FoldFunctionOnSet(SatAdd, 0, buckets, Slots)
    BY <2>1, Zenon DEF BucketSum, FoldFunction
  <2> QED
    BY <1>1, <1>6, <2>2, FoldIsCapped
<1>10. SumFunction(recent) = SumFunctionOnSet(recent, Slots)
  BY DEF WindowType, SumFunction
<1> HIDE DEF F
<1> QED
  BY <1>4, <1>8, <1>9, <1>10

\* M_slow moves at a rollover alone, by the capped demand of the last Days
\* full days: the bucket of the oldest day is still there when it is read.
THEOREM SlowReadsWholeDays == Spec => SlowFollowsWindow
<1> DEFINE Step == /\ slow' # slow => BeginBlock /\ block' = BlocksPerDay
                   /\ BeginBlock /\ block' = BlocksPerDay =>
                        slow' = AdjustSlow(slow, SatAdd(SumFunction(recent), 0))
<1>1. WindowType /\ BucketsHoldDays /\ [Next]_vars => [Step]_vars
  <2> SUFFICES ASSUME WindowType, BucketsHoldDays, [Next]_vars
               PROVE  Step
    OBVIOUS
  <2>1. BeginBlock /\ block' = BlocksPerDay => slow' = AdjustSlow(slow, BucketSum)
    BY DEF BeginBlock, Rollover
  <2>2. BucketSum = SatAdd(SumFunction(recent), 0)
    BY BucketsAddUp
  <2>3. CASE RecordDemand
    BY <2>1, <2>2, <2>3 DEF RecordDemand
  <2>4. CASE BeginBlock
    <3>1. block' # BlocksPerDay => slow' = slow
      BY <2>4 DEF BeginBlock
    <3> QED
      BY <2>1, <2>2, <2>4, <3>1
  <2>5. CASE UNCHANGED vars
    BY <2>1, <2>2, <2>5 DEF vars
  <2> QED
    BY <2>3, <2>4, <2>5 DEF Next
<1> HIDE DEF Step
<1>2. [][Step]_vars => SlowFollowsWindow
  BY DEF SlowFollowsWindow, Step
<1> QED
  BY <1>1, <1>2, WindowAlways, PTL DEF Spec

-----------------------------------------------------------------------------
(* Types. *)

LEMMA SatAddCapped ==
  ASSUME NEW a \in Nat, NEW b \in Nat
  PROVE  SatAdd(a, b) \in 0 .. CounterMax
BY PricingAssumption DEF SatAdd

\* Every counter is capped, the history counts deposits, and both multipliers
\* keep their configured range.
THEOREM PricingTypes == Spec => []TypeOK
<1>1. Init => TypeOK
  BY PricingAssumption DEF Init, TypeOK, Slots
<1>2. TypeOK /\ [Next]_vars => TypeOK'
  <2> SUFFICES ASSUME TypeOK, [Next]_vars PROVE TypeOK'
    OBVIOUS
  <2>1. /\ WindowType /\ head \in Slots /\ \A s \in Slots : buckets[s] \in Nat
        /\ fast \in Nat /\ slow \in Nat /\ depositsThisBlock \in Nat
    BY PricingAssumption DEF TypeOK, WindowType
  <2>2. CASE RecordDemand
    <3>1. SatAdd(depositsThisBlock, 1) \in 0 .. CounterMax
      BY <2>1, SatAddCapped
    <3>2. SatAdd(buckets[head], 1) \in 0 .. CounterMax
      BY <2>1, SatAddCapped
    <3>3. buckets' \in [Slots -> 0 .. CounterMax]
      BY <2>2, <3>2 DEF TypeOK, RecordDemand
    <3>4. recent' \in [Slots -> Nat]
      <4>1. 0 \in Slots /\ recent[0] + 1 \in Nat
        BY PricingAssumption DEF TypeOK, Slots
      <4> QED
        BY <2>2, <4>1 DEF TypeOK, RecordDemand
    <3> QED
      BY <2>2, <3>1, <3>3, <3>4 DEF TypeOK, RecordDemand
  <2>3. CASE BeginBlock
    <3>1. block' \in 0 .. BlocksPerDay
      BY <2>1, <2>3, BlockInDay
    <3>2. fast' \in FastMin .. FastMax
      <4>1. /\ fast \in FastMin .. FastMax /\ FastMin \in Nat /\ FastMax \in Nat
            /\ FastMin <= FastMax /\ FastTarget \in Nat /\ FastRate \in Nat
        BY PricingAssumption DEF TypeOK
      <4>2. AdjustFast(fast, depositsThisBlock) \in FastMin .. FastMax
        BY <2>1, <4>1, AdjustmentInRange DEF AdjustFast
      <4> QED
        BY <2>3, <4>2 DEF BeginBlock
    <3>3. depositsThisBlock' \in 0 .. CounterMax
      BY <2>3, PricingAssumption DEF BeginBlock
    <3>4. CASE block' = BlocksPerDay
      <4>1. slow' = AdjustSlow(slow, BucketSum) /\ RotateSlowBucket
        BY <2>3, <3>4 DEF BeginBlock, Rollover
      <4>2. BucketSum \in Nat
        <5>1. IsFiniteSet(Slots)
          BY FS_Interval, PricingAssumption DEF Slots
        <5>2. DOMAIN buckets = Slots
          BY DEF TypeOK
        <5>3. BucketSum = FoldFunctionOnSet(SatAdd, 0, buckets, Slots)
          BY <5>2, Zenon DEF BucketSum, FoldFunction
        <5>4. BucketSum = SatAdd(SumFunctionOnSet(buckets, Slots), 0)
          BY <2>1, <5>1, <5>3, FoldIsCapped
        <5>5. SumFunctionOnSet(buckets, Slots) \in Nat
          BY <2>1, <5>1, SumNat
        <5> QED
          BY <5>4, <5>5, SatAddType
      <4>3. slow' \in SlowMin .. SlowMax
        <5>1. /\ slow \in SlowMin .. SlowMax /\ SlowMin \in Nat /\ SlowMax \in Nat
              /\ SlowMin <= SlowMax /\ SlowTarget \in Nat /\ SlowRate \in Nat
          BY PricingAssumption DEF TypeOK
        <5>2. AdjustSlow(slow, BucketSum) \in SlowMin .. SlowMax
          BY <2>1, <4>2, <5>1, AdjustmentInRange DEF AdjustSlow
        <5> QED
          BY <4>1, <5>2
      <4>4. NextHead \in Slots
        BY <2>1, NextHeadWraps, PricingAssumption DEF Slots
      <4>5. head' \in Slots /\ buckets' \in [Slots -> 0 .. CounterMax]
        BY <4>1, <4>4, PricingAssumption DEF RotateSlowBucket, TypeOK
      <4>6. recent' \in [Slots -> Nat]
        <5>1. \A k \in Slots : k # 0 => k - 1 \in Slots
          BY PricingAssumption DEF Slots
        <5> QED
          BY <4>1, <5>1 DEF RotateSlowBucket, NextDay, TypeOK
      <4> QED
        BY <3>1, <3>2, <3>3, <4>3, <4>5, <4>6 DEF TypeOK
    <3>5. CASE block' # BlocksPerDay
      <4>1. UNCHANGED <<slow, buckets, head, recent>>
        BY <2>3, <3>5 DEF BeginBlock
      <4> QED
        BY <3>1, <3>2, <3>3, <4>1 DEF TypeOK
    <3> QED
      BY <3>4, <3>5
  <2>4. CASE UNCHANGED vars
    BY <2>4 DEF vars, TypeOK
  <2> QED
    BY <2>2, <2>3, <2>4 DEF Next
<1> QED
  BY <1>1, <1>2, PTL DEF Spec

-----------------------------------------------------------------------------
(* How far a step moves a multiplier. *)

LEMMA QuotientGrows ==
  ASSUME NEW p \in Nat, NEW q \in Nat, p <= q, NEW d \in Nat \ {0}
  PROVE  p \div d <= q \div d
<1>1. p \div d \in Nat /\ d * (p \div d) <= p
  BY Quotient
<1> DEFINE a == p \div d
<1> HIDE DEF a
<1>2. d * a <= q
  <2>1. d * a <= p /\ a \in Nat
    BY <1>1 DEF a
  <2>2. d * a \in Nat
    BY <2>1
  <2> QED
    BY <2>1, <2>2
<1>3. a \in Nat
  BY <1>1 DEF a
<1>4. a <= q \div d
  BY <1>2, <1>3, QuotientAtLeast
<1> QED
  BY <1>4 DEF a

\* The larger the deviation, the larger the rate it is scaled by.
LEMMA RateGrows ==
  ASSUME NEW rate \in Nat, NEW target \in Nat \ {0}, NEW n \in Nat \ {0}
  PROVE  /\ Mul(rate, Ratio(1, target)) \in Nat
         /\ Mul(rate, Ratio(n, target)) \in Nat
         /\ Mul(rate, Ratio(1, target)) <= Mul(rate, Ratio(n, target))
<1>1. Scale \in Nat \ {0}
  BY PricingAssumption
<1>2. 1 * Scale \in Nat /\ n * Scale \in Nat /\ 1 * Scale <= n * Scale
  <2>1. PICK e \in Nat : n = 1 + e
    <3>1. n - 1 \in Nat
      OBVIOUS
    <3> QED
      BY <3>1
  <2>2. n * Scale = Scale + e * Scale /\ e * Scale \in Nat
    BY <1>1, <2>1
  <2> QED
    BY <1>1, <2>2
<1> DEFINE x == Ratio(1, target)
           y == Ratio(n, target)
<1>3. x \in Nat /\ y \in Nat
  BY RatioType
<1>4. x <= y
  BY <1>2, QuotientGrows DEF Ratio
<1> HIDE DEF x, y
<1>5. rate * x \in Nat /\ rate * y \in Nat /\ rate * x <= rate * y
  <2>1. PICK e \in Nat : y = x + e
    <3>1. y - x \in Nat
      BY <1>3, <1>4
    <3> QED
      BY <1>3, <3>1
  <2>2. rate * y = rate * x + rate * e /\ rate * e \in Nat /\ rate * x \in Nat
    BY <1>3, <2>1
  <2> QED
    BY <2>2
<1>6. Mul(rate, x) <= Mul(rate, y)
  BY <1>1, <1>5, QuotientGrows DEF Mul
<1>7. Mul(rate, x) \in Nat /\ Mul(rate, y) \in Nat
  BY <1>3, MulType
<1> QED
  BY <1>6, <1>7 DEF x, y

LEMMA ProductGrows ==
  ASSUME NEW a \in Nat, NEW b \in Nat, a <= b, NEW c \in Nat
  PROVE  c * a \in Nat /\ c * b \in Nat /\ c * a <= c * b
<1>1. PICK e \in Nat : b = a + e
  <2>1. b - a \in Nat
    OBVIOUS
  <2> QED
    BY <2>1
<1>2. c * b = c * a + c * e /\ c * e \in Nat /\ c * a \in Nat
  BY <1>1
<1> QED
  BY <1>2

\* A step up is felt as soon as the smallest one is at the floor.
LEMMA StepUpRises ==
  ASSUME NEW current \in Nat, NEW n \in Nat \ {0}, NEW target \in Nat \ {0},
         NEW rate \in Nat, NEW min \in Nat, min <= current,
         min * Mul(rate, Ratio(1, target)) >= Scale
  PROVE  StepUp(current, n, target, rate) \in Nat
         /\ StepUp(current, n, target, rate) > current
<1> DEFINE least == Mul(rate, Ratio(1, target))
           r == Mul(rate, Ratio(n, target))
<1>1. least \in Nat /\ r \in Nat /\ least <= r
  BY RateGrows
<1>2. Scale \in Nat \ {0} /\ min * least >= Scale
  BY PricingAssumption
<1>3. StepUp(current, n, target, rate) = (current * (Scale + r)) \div Scale
  BY DEF StepUp, Mul
<1> HIDE DEF least, r
<1>4. least * min \in Nat /\ least * min <= least * current /\ least * current \in Nat
  BY <1>1, ProductGrows
<1>5. current * least <= current * r /\ current * r \in Nat
  BY <1>1, ProductGrows
<1>6. min * least = least * min /\ current * least = least * current
  BY <1>1
<1>7. Scale <= current * r
  BY <1>2, <1>4, <1>5, <1>6
<1> DEFINE p == current * (Scale + r)
<1>8. p = current * Scale + current * r /\ Scale * (current + 1) = current * Scale + Scale
      /\ current * Scale \in Nat
  BY <1>1, <1>2
<1> HIDE DEF p
<1>9. p \in Nat /\ Scale * (current + 1) <= p
  BY <1>2, <1>5, <1>7, <1>8
<1>10. current + 1 <= p \div Scale /\ p \div Scale \in Nat
  BY <1>2, <1>9, QuotientAtLeast, Quotient
<1> QED
  BY <1>3, <1>10 DEF p

\* A step down is felt whatever the rate, unless it rounds to no step at all.
LEMMA StepDownFalls ==
  ASSUME NEW current \in Nat \ {0}, NEW n \in Nat \ {0}, NEW target \in Nat \ {0},
         NEW rate \in Nat, Mul(rate, Ratio(n, target)) # 0
  PROVE  StepDown(current, n, target, rate) \in Nat
         /\ StepDown(current, n, target, rate) < current
<1> DEFINE r == Mul(rate, Ratio(n, target))
           x == Scale + r
           p == 2 * Scale * Scale + x - 1
           back == Reciprocal(x)
<1>1. r \in Nat \ {0} /\ Scale \in Nat \ {0}
  BY RateGrows, PricingAssumption
<1>2. StepDown(current, n, target, rate) = (current * back) \div Scale
  BY DEF StepDown, Mul
<1>3. back = p \div (2 * x)
  BY DEF Reciprocal
<1> HIDE DEF r, back
<1>4. Scale * r \in Nat /\ Scale <= Scale * r /\ r <= Scale * r
  <2>1. Scale * 1 <= Scale * r /\ r * 1 <= r * Scale /\ Scale * r \in Nat
    BY <1>1, ProductGrows
  <2>2. r * Scale = Scale * r
    BY <1>1
  <2> QED
    BY <1>1, <2>1, <2>2
<1>5. Scale * Scale \in Nat
  BY <1>1
<1>6. p = 2 * (Scale * Scale) + Scale + r - 1 /\ (2 * x) * Scale = 2 * (Scale * Scale) + 2 * (Scale * r)
  BY <1>1
<1>7. x \in Nat \ {0} /\ 2 * x \in Nat \ {0}
  BY <1>1
<1> HIDE DEF p, x
<1>8. p \in Nat /\ p < (2 * x) * Scale
  BY <1>1, <1>4, <1>5, <1>6
<1>9. back \in Nat /\ back < Scale
  BY <1>1, <1>3, <1>7, <1>8, Quotient, QuotientBelow
<1>10. current * back \in Nat /\ current * back < Scale * current
  <2>1. current * back \in Nat /\ current * (back + 1) <= current * Scale
    BY <1>1, <1>9, ProductGrows
  <2>2. current * (back + 1) = current * back + current /\ current * Scale = Scale * current
    BY <1>1, <1>9
  <2>3. Scale * current \in Nat
    BY <1>1
  <2> QED
    BY <2>1, <2>2, <2>3
<1> DEFINE q == current * back
<1> HIDE DEF q
<1>11. q \div Scale \in Nat /\ q \div Scale < current
  <2>1. q \in Nat /\ q < Scale * current
    BY <1>10 DEF q
  <2> QED
    BY <1>1, <2>1, Quotient, QuotientBelow
<1> QED
  BY <1>2, <1>11 DEF q

\* Observing the target leaves a multiplier alone.
LEMMA StepByNothing ==
  ASSUME NEW current \in Nat, NEW target \in Nat \ {0}, NEW rate \in Nat
  PROVE  StepUp(current, 0, target, rate) = current
<1>1. Scale \in Nat \ {0}
  BY PricingAssumption
<1>2. \A d \in Nat \ {0} : 0 \div d = 0
  OBVIOUS
<1>3. Ratio(0, target) = 0
  BY <1>1, <1>2 DEF Ratio
<1>4. Mul(rate, 0) = 0
  BY <1>1, <1>2 DEF Mul
<1>5. StepUp(current, 0, target, rate) = (current * (Scale + 0)) \div Scale
  BY <1>3, <1>4 DEF StepUp, Mul
<1> DEFINE p == current * (Scale + 0)
<1>6. p \in Nat /\ p = Scale * current /\ Scale * (current + 1) = Scale * current + Scale
  BY <1>1
<1> HIDE DEF p
<1>7. Scale * current <= p /\ p < Scale * (current + 1)
  BY <1>1, <1>6
<1>8. current <= p \div Scale /\ p \div Scale < current + 1 /\ p \div Scale \in Nat
  BY <1>1, <1>6, <1>7, Quotient, QuotientAtLeast, QuotientBelow
<1> QED
  BY <1>5, <1>8 DEF p

\* At the floor the deviation of a single deposit moves a multiplier by at
\* least one unit of 10^-18: with a floor of 0.1, a rate of 0.125 and a target
\* of 5 it moves it by 2.5 * 10^15 of them.
StepShows(target, rate, min) ==
  target > 0 => min * Mul(rate, Ratio(1, target)) >= Scale

LEMMA AdjustmentMoves ==
  ASSUME NEW current \in Nat, NEW observed \in Nat, NEW target \in Nat \ {0},
         NEW rate \in Nat, NEW min \in Nat, NEW max \in Nat,
         current \in min .. max, StepShows(target, rate, min)
  PROVE  Moves(current, AdjustMultiplier(current, observed, target, rate, min, max),
               observed, target, min, max)
<1> DEFINE new == AdjustMultiplier(current, observed, target, rate, min, max)
<1>1. min * Mul(rate, Ratio(1, target)) >= Scale /\ Scale \in Nat \ {0}
  BY PricingAssumption DEF StepShows
<1>2. CASE observed > target
  <2> DEFINE n == observed - target
             to == StepUp(current, n, target, rate)
  <2>1. n \in Nat \ {0} /\ current \in Nat /\ min <= current
    BY <1>2
  <2>2. new = Clamp(to, min, max)
    BY <1>2 DEF AdjustMultiplier
  <2> HIDE DEF n
  <2>3. to \in Nat /\ to > current
    BY <1>1, <2>1, StepUpRises
  <2> HIDE DEF to
  <2>4. new > current \/ new = max
    BY <2>2, <2>3 DEF Clamp
  <2> HIDE DEF new
  <2> QED
    BY <1>2, <2>4 DEF Moves, new
<1>3. CASE observed = target
  <2>1. observed - target = 0
    BY <1>3
  <2>2. new = Clamp(StepUp(current, 0, target, rate), min, max)
    BY <1>3, <2>1 DEF AdjustMultiplier
  <2>3. StepUp(current, 0, target, rate) = current
    BY StepByNothing
  <2>4. new = current
    BY <2>2, <2>3 DEF Clamp
  <2> HIDE DEF new
  <2> QED
    BY <1>3, <2>4 DEF Moves, new
<1>4. CASE observed < target
  <2> DEFINE n == target - observed
             to == StepDown(current, n, target, rate)
             least == Mul(rate, Ratio(1, target))
             r == Mul(rate, Ratio(n, target))
  <2>1. n \in Nat \ {0}
    BY <1>4
  <2>2. new = Clamp(to, min, max)
    BY <1>4 DEF AdjustMultiplier
  <2> HIDE DEF n
  <2>3. least \in Nat /\ r \in Nat /\ least <= r
    BY <2>1, RateGrows
  <2>4. min * least >= Scale
    BY <1>1
  <2> HIDE DEF least
  <2>5. min # 0 /\ least # 0
    <3>1. min * 0 = 0 /\ 0 * least = 0
      BY <2>3
    <3> QED
      BY <1>1, <2>4, <3>1
  <2>6. r # 0
    BY <2>3, <2>5
  <2>7. current \in Nat \ {0}
    BY <2>5
  <2>8. to \in Nat /\ to < current
    BY <2>1, <2>6, <2>7, StepDownFalls
  <2> HIDE DEF to
  <2>9. new < current \/ new = min
    BY <2>2, <2>8 DEF Clamp
  <2> HIDE DEF new
  <2> QED
    BY <1>4, <2>9 DEF Moves, new
<1> QED
  BY <1>2, <1>3, <1>4

\* Where a step shows at the floor, every block above the target raises M_fast
\* and every block below lowers it, at every value in between: no rounding
\* pins it, whatever the clamp.
THEOREM FastAlwaysReacts ==
  ASSUME StepShows(FastTarget, FastRate, FastMin)
  PROVE  Spec => FastReacts
<1> DEFINE Step == BeginBlock /\ FastTarget > 0 =>
                     Moves(fast, fast', depositsThisBlock, FastTarget, FastMin, FastMax)
<1>1. TypeOK /\ [Next]_vars => [Step]_vars
  <2> SUFFICES ASSUME TypeOK, BeginBlock, FastTarget > 0
               PROVE  Moves(fast, fast', depositsThisBlock, FastTarget, FastMin, FastMax)
    OBVIOUS
  <2>1. /\ FastTarget \in Nat \ {0} /\ FastRate \in Nat /\ FastMin \in Nat /\ FastMax \in Nat
        /\ fast \in Nat /\ fast \in FastMin .. FastMax /\ depositsThisBlock \in Nat
    BY PricingAssumption DEF TypeOK
  <2>2. fast' = AdjustMultiplier(fast, depositsThisBlock, FastTarget, FastRate, FastMin, FastMax)
    BY DEF BeginBlock, AdjustFast
  <2> QED
    BY <2>1, <2>2, AdjustmentMoves
<1> HIDE DEF Step
<1>2. [][Step]_vars => FastReacts
  BY DEF FastReacts, Step
<1> QED
  BY <1>1, <1>2, PricingTypes, PTL DEF Spec

-----------------------------------------------------------------------------
(* A step up and back. *)

\* S stands for Scale, x for Scale plus the rate, u for the multiplier after
\* the step up, R for the reciprocal and b for the multiplier after the step
\* down; k is u \div S.
LEMMA BackNear ==
  ASSUME NEW S \in Nat \ {0}, NEW x \in Nat, S <= x, NEW f \in Nat, NEW u \in Nat,
         NEW R \in Nat, NEW b \in Nat, NEW k \in Nat,
         S * u <= f * x, f * x < S * u + S,
         S * b <= u * R, u * R < S * b + S,
         (2 * x) * R <= 2 * (S * S) + x - 1, 2 * (S * S) + x - 1 < (2 * x) * R + 2 * x,
         u < S * k + S
  PROVE  b <= f + k /\ f <= b + 2 + k
<1> DEFINE P == S * x
           ux == u * x
           uxR == u * (x * R)
           uSS == u * (S * S)
           Pk == P * k
           Pb == P * b
           Pf == P * f
<1>1. /\ P \in Nat /\ ux \in Nat /\ uxR \in Nat /\ uSS \in Nat
      /\ Pk \in Nat /\ Pb \in Nat /\ Pf \in Nat /\ S * S \in Nat /\ x \in Nat \ {0}
  OBVIOUS
<1>2. S * S <= P
  BY ProductGrows
<1>3. uSS <= Pf /\ Pf + S <= uSS + S * S
  <2>1. S * (S * u) = uSS /\ S * (f * x) = Pf /\ S * (S * u + S) = uSS + S * S
        /\ S * (f * x + 1) = Pf + S
    OBVIOUS
  <2>2. S * u \in Nat /\ f * x \in Nat /\ f * x + 1 <= S * u + S
    OBVIOUS
  <2>3. S * (S * u) <= S * (f * x) /\ S * (f * x + 1) <= S * (S * u + S)
    BY <2>2, ProductGrows
  <2> QED
    BY <2>1, <2>3
<1>4. Pb <= uxR /\ uxR + x <= Pb + P
  <2>1. x * (S * b) = Pb /\ x * (u * R) = uxR /\ x * (S * b + S) = Pb + P
        /\ x * (u * R + 1) = uxR + x
    OBVIOUS
  <2>2. S * b \in Nat /\ u * R \in Nat /\ u * R + 1 <= S * b + S
    OBVIOUS
  <2>3. x * (S * b) <= x * (u * R) /\ x * (u * R + 1) <= x * (S * b + S)
    BY <2>2, ProductGrows
  <2> QED
    BY <2>1, <2>3
<1>5. 2 * uxR <= 2 * uSS + ux /\ 2 * uSS <= 2 * uxR + ux
  <2>1. u * ((2 * x) * R) = 2 * uxR /\ u * (2 * (S * S) + x) = 2 * uSS + ux
        /\ u * (2 * (S * S)) = 2 * uSS /\ u * ((2 * x) * R + x) = 2 * uxR + ux
    OBVIOUS
  <2>2. (2 * x) * R \in Nat /\ S * S \in Nat
    OBVIOUS
  <2>3. (2 * x) * R <= 2 * (S * S) + x /\ 2 * (S * S) <= (2 * x) * R + x
    BY <2>2
  <2>4. u * ((2 * x) * R) <= u * (2 * (S * S) + x) /\ u * (2 * (S * S)) <= u * ((2 * x) * R + x)
    BY <2>2, <2>3, ProductGrows
  <2> QED
    BY <2>1, <2>4
<1>6. ux < P + Pk
  <2>1. S * k \in Nat /\ u + 1 <= S * k + S
    OBVIOUS
  <2>2. x * (u + 1) <= x * (S * k + S)
    BY <2>1, ProductGrows
  <2>3. x * (u + 1) = ux + x /\ x * (S * k + S) = Pk + P
    OBVIOUS
  <2> HIDE DEF ux, P, Pk
  <2> QED
    BY <1>1, <2>2, <2>3
<1>7. ASSUME f + k < b PROVE FALSE
  <2>1. f + k + 1 <= b
    BY <1>7
  <2>2. P * (f + k + 1) <= P * b
    BY <1>1, <2>1, ProductGrows
  <2>3. P * (f + k + 1) = Pf + Pk + P
    BY <1>1
  <2> HIDE DEF P, ux, uxR, uSS, Pk, Pb, Pf
  <2>4. Pf + Pk + P <= Pb
    BY <2>2, <2>3 DEF Pb
  <2> QED
    BY <1>1, <1>3, <1>4, <1>5, <1>6, <2>4
<1>8. ASSUME b + 2 + k < f PROVE FALSE
  <2>1. b + 3 + k <= f
    BY <1>8
  <2>2. P * (b + 3 + k) <= P * f
    BY <1>1, <2>1, ProductGrows
  <2>3. P * (b + 3 + k) = Pb + 3 * P + Pk
    BY <1>1
  <2> HIDE DEF P, ux, uxR, uSS, Pk, Pb, Pf
  <2>4. Pb + 3 * P + Pk <= Pf
    BY <2>2, <2>3 DEF Pf
  <2> QED
    BY <1>1, <1>2, <1>3, <1>4, <1>5, <1>6, <2>4
<1> QED
  BY <1>7, <1>8

\* The rounded quotient of a product.
LEMMA MulBounds ==
  ASSUME NEW x \in Nat, NEW y \in Nat
  PROVE  /\ Mul(x, y) \in Nat
         /\ Scale * Mul(x, y) <= x * y
         /\ x * y < Scale * Mul(x, y) + Scale
<1> DEFINE p == x * y
<1>1. p \in Nat /\ Scale \in Nat \ {0}
  BY PricingAssumption
<1> HIDE DEF p
<1>2. p \div Scale \in Nat /\ Scale * (p \div Scale) <= p /\ p < Scale * (p \div Scale) + Scale
  BY <1>1, Quotient
<1> QED
  BY <1>2 DEF Mul, p

\* The reciprocal is within half a unit.
LEMMA ReciprocalBounds ==
  ASSUME NEW x \in Nat \ {0}
  PROVE  /\ Reciprocal(x) \in Nat
         /\ (2 * x) * Reciprocal(x) <= 2 * (Scale * Scale) + x - 1
         /\ 2 * (Scale * Scale) + x - 1 < (2 * x) * Reciprocal(x) + 2 * x
<1> DEFINE p == 2 * Scale * Scale + x - 1
           d == 2 * x
<1>1. p = 2 * (Scale * Scale) + x - 1 /\ Scale * Scale \in Nat
  BY PricingAssumption
<1>2. p \in Nat /\ d \in Nat \ {0}
  BY <1>1
<1>3. Reciprocal(x) = p \div d
  BY DEF Reciprocal
<1> DEFINE q == p \div d
<1> HIDE DEF p, d
<1>4. q \in Nat /\ d * q <= p /\ p < d * q + d
  BY <1>2, Quotient
<1> HIDE DEF q
<1>5. Reciprocal(x) = q
  BY <1>3 DEF q
<1>6. q \in Nat /\ (2 * x) * q <= p /\ p < (2 * x) * q + 2 * x
  BY <1>4 DEF d
<1> QED
  BY <1>1, <1>5, <1>6

\* The two unclamped steps.
LEMMA StepsCancel ==
  ASSUME NEW current \in Nat, NEW n \in Nat \ {0}, NEW target \in Nat \ {0}, NEW rate \in Nat,
         NEW up \in Nat, up = StepUp(current, n, target, rate)
  PROVE  /\ up >= current
         /\ StepDown(up, n, target, rate) \in Nat
         /\ StepDown(up, n, target, rate) <= current + up \div Scale
         /\ current <= StepDown(up, n, target, rate) + 2 + up \div Scale
<1> DEFINE r == Mul(rate, Ratio(n, target))
           x == Scale + r
           R == Reciprocal(x)
           b == StepDown(up, n, target, rate)
           k == up \div Scale
<1>1. Scale \in Nat \ {0} /\ x \in Nat \ {0} /\ Scale <= x
  <2>1. r \in Nat
    BY RateGrows
  <2> HIDE DEF r
  <2> QED
    BY <2>1, PricingAssumption
<1>2. up = Mul(current, x) /\ b = Mul(up, R)
  BY DEF StepUp, StepDown
<1>3. k \in Nat /\ up < Scale * k + Scale
  BY <1>1, Quotient
<1> HIDE DEF x, k
<1>4. /\ R \in Nat
      /\ (2 * x) * R <= 2 * (Scale * Scale) + x - 1
      /\ 2 * (Scale * Scale) + x - 1 < (2 * x) * R + 2 * x
  BY <1>1, ReciprocalBounds
<1> HIDE DEF R, b
<1>5. Scale * up <= current * x /\ current * x < Scale * up + Scale
  BY <1>1, <1>2, MulBounds
<1>6. b \in Nat /\ Scale * b <= up * R /\ up * R < Scale * b + Scale
  BY <1>2, <1>4, MulBounds
<1>7. b <= current + k /\ current <= b + 2 + k
  BY <1>1, <1>3, <1>4, <1>5, <1>6, BackNear
<1>8. current <= up
  <2> DEFINE p == current * x
  <2>1. current * Scale <= p /\ p \in Nat
    BY <1>1, ProductGrows
  <2>2. Scale * current <= p
    <3>1. Scale * current = current * Scale
      BY <1>1
    <3> QED
      BY <2>1, <3>1
  <2>3. up = p \div Scale
    BY <1>2 DEF Mul
  <2> HIDE DEF p
  <2> QED
    BY <1>1, <2>1, <2>2, <2>3, QuotientAtLeast
<1> QED
  BY <1>6, <1>7, <1>8 DEF b, k

\* A block above the target by n and one below it by n bring M_fast back to
\* where it was, up to 2 units and one for each time it exceeds 1.0, unless
\* the ceiling cut the way up: for every value it can have and every rate.
THEOREM FastComesBack == Spec => []RoundTrip
<1>1. fast \in FastMin .. FastMax => RoundTrip
  <2> SUFFICES ASSUME fast \in FastMin .. FastMax, NEW n \in 1 .. FastTarget
               PROVE  LET up == AdjustFast(fast, FastTarget + n)
                          back == AdjustFast(up, FastTarget - n)
                          slack == 2 + up \div Scale
                      IN  up < FastMax => back - fast \in -slack .. slack
    BY DEF RoundTrip
  <2> DEFINE up == AdjustFast(fast, FastTarget + n)
             back == AdjustFast(up, FastTarget - n)
             slack == 2 + up \div Scale
             high == StepUp(fast, n, FastTarget, FastRate)
             low == StepDown(high, n, FastTarget, FastRate)
  <2>1. /\ FastTarget \in Nat \ {0} /\ FastRate \in Nat /\ FastMin \in Nat /\ FastMax \in Nat
        /\ FastMin <= FastMax /\ Scale \in Nat \ {0}
        /\ fast \in Nat /\ FastMin <= fast /\ fast <= FastMax
        /\ n \in Nat \ {0} /\ n <= FastTarget
    BY PricingAssumption
  <2>2. (FastTarget + n) - FastTarget = n /\ FastTarget - (FastTarget - n) = n
        /\ FastTarget + n >= FastTarget /\ ~(FastTarget - n >= FastTarget)
    BY <2>1
  <2>3. up = Clamp(high, FastMin, FastMax)
    BY <2>1, <2>2 DEF AdjustFast, AdjustMultiplier
  <2>4. ASSUME NEW v PROVE AdjustFast(v, FastTarget - n)
                             = Clamp(StepDown(v, n, FastTarget, FastRate), FastMin, FastMax)
    BY <2>1, <2>2 DEF AdjustFast, AdjustMultiplier
  <2>5. back = Clamp(StepDown(up, n, FastTarget, FastRate), FastMin, FastMax)
    BY <2>4
  <2>6. high \in Nat
    <3>1. Scale + Mul(FastRate, Ratio(n, FastTarget)) \in Nat
      BY <2>1, RateGrows
    <3> QED
      BY <2>1, <3>1, MulType DEF StepUp
  <2> HIDE DEF high
  <2>7. /\ high >= fast /\ low \in Nat
        /\ low <= fast + high \div Scale
        /\ fast <= low + 2 + high \div Scale
    BY <2>1, <2>6, StepsCancel DEF high
  <2>8. high \div Scale \in Nat
    BY <2>1, <2>6, Quotient
  <2> HIDE DEF up, back
  <2>9. ASSUME up < FastMax PROVE back - fast \in -slack .. slack
    <3>1. up = high
      BY <2>1, <2>3, <2>6, <2>7, <2>9 DEF Clamp
    <3>2. back = Clamp(low, FastMin, FastMax)
      BY <2>5, <3>1
    <3> DEFINE k == high \div Scale
    <3>3. slack = 2 + k
      BY <3>1
    <3> HIDE DEF low, k, slack
    <3>4. low \in Nat /\ k \in Nat /\ low <= fast + k /\ fast <= low + 2 + k
      BY <2>7, <2>8 DEF k
    <3>5. back \in Nat /\ back <= fast + k /\ fast <= back + 2 + k
      BY <2>1, <3>2, <3>4 DEF Clamp
    <3> QED
      BY <2>1, <3>3, <3>4, <3>5
  <2> QED
    BY <2>9, Zenon DEF up, back, slack
<1>2. TypeOK => RoundTrip
  BY <1>1 DEF TypeOK
<1> QED
  BY <1>2, PricingTypes, PTL
=============================================================================
