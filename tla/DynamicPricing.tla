--------------------------- MODULE DynamicPricing ---------------------------
(***************************************************************************)
(* The dynamic pricing of pallet-midds: the demand counters a deposit or a *)
(* growing update bumps, and the two multipliers on_initialize derives     *)
(* from them, M_fast at every block and M_slow at every day.               *)
(*                                                                         *)
(* A FixedU128 is an integer counting units of 1/Scale; products and       *)
(* ratios round as sp-arithmetic rounds them.  Its upper bound is out of   *)
(* reach of a clamped multiplier.                                          *)
(***************************************************************************)
EXTENDS Integers, Functions

CONSTANTS
  Scale,        \* FixedU128::DIV, the representation of 1.0
  Days,         \* SLOW_WINDOW_DAYS
  BlocksPerDay,
  FastTarget, FastRate, FastMin, FastMax,  \* T::FastTargetPerBlock, ...
  SlowTarget, SlowRate, SlowMin, SlowMax,  \* T::SlowTargetPerWindow, ...
  CounterMax,   \* u32::MAX
  MaxPerBlock   \* bound: demand recorded in one block

ASSUME PricingAssumption ==
  /\ Scale \in Nat \ {0}
  /\ Days \in Nat \ {0}
  /\ BlocksPerDay \in Nat \ {0}
  /\ FastTarget \in Nat /\ SlowTarget \in Nat
  /\ FastRate \in Nat /\ SlowRate \in Nat
  /\ FastMin \in 0 .. Scale /\ SlowMin \in 0 .. Scale
  /\ FastMax \in Nat /\ FastMax >= Scale
  /\ SlowMax \in Nat /\ SlowMax >= Scale
  /\ CounterMax \in Nat
  /\ MaxPerBlock \in Nat

VARIABLES
  block,              \* 0 at genesis, then the block's place in its day
  depositsThisBlock,  \* DepositsThisBlock
  fast,               \* FastMultiplier
  slow,               \* SlowMultiplier
  buckets,            \* SlowWindowBuckets
  head,               \* SlowWindowHead
  recent              \* history: recent[k] is the demand k days ago

vars == <<block, depositsThisBlock, fast, slow, buckets, head, recent>>

Slots == 0 .. Days - 1

-----------------------------------------------------------------------------
(* Fixed-point arithmetic. *)

\* saturating_add on a u32
SatAdd(a, b) == IF a + b > CounterMax THEN CounterMax ELSE a + b

\* FixedU128::saturating_mul rounds down.
Mul(x, y) == (x * y) \div Scale

\* Mutant of Ratio: the quotient is taken before it is scaled.
RatioWhole(n, d) == (n \div d) * Scale

\* FixedU128::saturating_from_rational rounds down.
Ratio(n, d) == (n * Scale) \div d

\* 1.0.const_checked_div(x) rounds to the nearest, halves down.
Reciprocal(x) == (2 * Scale * Scale + x - 1) \div (2 * x)

-----------------------------------------------------------------------------
(* The adjustment. *)

StepUp(current, excess, target, rate) ==
  Mul(current, Scale + Mul(rate, Ratio(excess, target)))

\* Mutant of StepDown: what StepUp adds is subtracted.
StepDownLinear(current, shortfall, target, rate) ==
  Mul(current, Scale - Mul(rate, Ratio(shortfall, target)))

StepDown(current, shortfall, target, rate) ==
  Mul(current, Reciprocal(Scale + Mul(rate, Ratio(shortfall, target))))

\* Mutant of Clamp: no ceiling.
ClampBelow(x, min, max) == IF x < min THEN min ELSE x

Clamp(x, min, max) ==
  IF x < min THEN min ELSE IF x > max THEN max ELSE x

\* adjust_multiplier; StepUp by nothing is the identity.
AdjustMultiplier(current, observed, target, rate, min, max) ==
  IF target = 0 THEN current
  ELSE Clamp(IF observed >= target
             THEN StepUp(current, observed - target, target, rate)
             ELSE StepDown(current, target - observed, target, rate),
             min, max)

AdjustFast(current, observed) ==
  AdjustMultiplier(current, observed, FastTarget, FastRate, FastMin, FastMax)

AdjustSlow(current, observed) ==
  AdjustMultiplier(current, observed, SlowTarget, SlowRate, SlowMin, SlowMax)

\* A fold of saturating_add over the seven buckets.
BucketSum == FoldFunction(SatAdd, 0, buckets)

-----------------------------------------------------------------------------
(* Steps. *)

Init ==
  /\ block = 0
  /\ depositsThisBlock = 0
  /\ fast = Scale
  /\ slow = Scale
  /\ buckets = [s \in Slots |-> 0]
  /\ head = 0
  /\ recent = [k \in Slots |-> 0]

\* record_deposit_demand, at the end of a successful deposit or of a plain
\* update that grows the record.  No call runs in the genesis block.
RecordDemand ==
  /\ block # 0
  /\ depositsThisBlock < MaxPerBlock
  /\ depositsThisBlock' = SatAdd(depositsThisBlock, 1)
  /\ buckets' = [buckets EXCEPT ![head] = SatAdd(@, 1)]
  /\ recent' = [recent EXCEPT ![0] = @ + 1]
  /\ UNCHANGED <<block, fast, slow, head>>

NextHead == (head + 1) % Days

\* The history moves with the calendar, whatever the buckets do.
NextDay == recent' = [k \in Slots |-> IF k = 0 THEN 0 ELSE recent[k - 1]]

\* Mutant of RotateSlowBucket: the bucket of the new day is not emptied.
RotateKeeping ==
  /\ head' = NextHead
  /\ UNCHANGED buckets
  /\ NextDay

\* rotate_slow_bucket
RotateSlowBucket ==
  /\ head' = NextHead
  /\ buckets' = [buckets EXCEPT ![NextHead] = 0]
  /\ NextDay

\* Mutant of Rollover: the bucket is rotated before the adjustment.
RolloverRotatingFirst ==
  /\ slow' = AdjustSlow(slow,
               FoldFunction(SatAdd, 0, [buckets EXCEPT ![NextHead] = 0]))
  /\ RotateSlowBucket

\* The end of a day: n % BlocksPerDay = 0.
Rollover ==
  /\ slow' = AdjustSlow(slow, BucketSum)
  /\ RotateSlowBucket

\* Mutant of BeginBlock: the demand of the last block is read, not taken.
BeginBlockReading ==
  /\ block' = (block % BlocksPerDay) + 1
  /\ fast' = AdjustFast(fast, depositsThisBlock)
  /\ UNCHANGED depositsThisBlock
  /\ IF block' = BlocksPerDay
     THEN Rollover
     ELSE UNCHANGED <<slow, buckets, head, recent>>

\* on_initialize(n), its pricing part.
BeginBlock ==
  /\ block' = (block % BlocksPerDay) + 1
  /\ fast' = AdjustFast(fast, depositsThisBlock)
  /\ depositsThisBlock' = 0
  /\ IF block' = BlocksPerDay
     THEN Rollover
     ELSE UNCHANGED <<slow, buckets, head, recent>>

Next == BeginBlock \/ RecordDemand

\* Blocks keep being produced.
Spec == Init /\ [][Next]_vars /\ WF_vars(BeginBlock)

-----------------------------------------------------------------------------
(* Properties. *)

\* Counters keep their types and each multiplier its configured range.
TypeOK ==
  /\ block \in 0 .. BlocksPerDay
  /\ depositsThisBlock \in 0 .. CounterMax
  /\ fast \in FastMin .. FastMax
  /\ slow \in SlowMin .. SlowMax
  /\ buckets \in [Slots -> 0 .. CounterMax]
  /\ head \in Slots
  /\ recent \in [Slots -> Nat]

\* The bucket that was the head k days ago.
SlotOf(k) == IF k <= head THEN head - k ELSE head + Days - k

\* Going back from the head, the buckets are the demand of today, of
\* yesterday and so on: rotation neither loses a day nor keeps one too many.
BucketsHoldDays ==
  \A k \in Slots : buckets[SlotOf(k)] = SatAdd(recent[k], 0)

\* M_slow moves at a rollover alone, and by the demand of the last Days full
\* days, the one that just ended included.
SlowFollowsWindow ==
  [][/\ slow' # slow => BeginBlock /\ block' = BlocksPerDay
     /\ BeginBlock /\ block' = BlocksPerDay =>
          slow' = AdjustSlow(slow, SatAdd(SumFunction(recent), 0))]_vars

\* A multiplier moves from old to new the way demand did.
Moves(old, new, observed, target, min, max) ==
  /\ observed > target => new > old \/ new = max
  /\ observed = target => new = old
  /\ observed < target => new < old \/ new = min

\* Every block above the target raises M_fast unless it is at its ceiling
\* and every block below lowers it unless it is at its floor: rounding never
\* pins a multiplier, and it can leave a floor or a ceiling.
FastReacts ==
  [][BeginBlock /\ FastTarget > 0 =>
       Moves(fast, fast', depositsThisBlock, FastTarget, FastMin, FastMax)]_vars

\* A block above target by at most the target and one below by as much
\* cancel out, up to the rounding of two products and a reciprocal.
RoundTrip ==
  \A n \in 1 .. FastTarget :
    LET up == AdjustFast(fast, FastTarget + n)
        back == AdjustFast(up, FastTarget - n)
        slack == 2 + up \div Scale
    IN up < FastMax => back - fast \in -slack .. slack

\* Once demand has stopped for good, both multipliers fall to their floors,
\* M_slow after its window has emptied, and stay there.
DemandForgotten ==
  <>[][~RecordDemand]_vars =>
    <>[](/\ FastTarget > 0 => fast = FastMin
         /\ SlowTarget > 0 => slow = SlowMin)
=============================================================================
