------------------------ MODULE MiddsPallet_proofs ------------------------
(***************************************************************************)
(* Theorems about one pallet instance, for every set of accounts, payloads *)
(* and authorizations, every window and budget, and all prices.  First,    *)
(* what the operators on ledgers and layers preserve: a ledger stays a     *)
(* ledger (no balance goes below zero) when the guard of the call holds,   *)
(* and rebasing a layer keeps its premium.  Then the state invariants, and  *)
(* last the steps: what a call or the hook may do to a record, that the    *)
(* pallet implements the finalization queue, and what happens to the       *)
(* money: what is on hold is what the records ask for, and what a          *)
(* settlement takes is what the Treasury receives.                         *)
(***************************************************************************)
EXTENDS MiddsPallet, SumLemmas, FiniteSetTheorems, TLAPS

-----------------------------------------------------------------------------
(* Ledgers *)

LEMMA PayersAreAccounts ==
  Users \subseteq Accounts /\ Treasury \in Accounts /\ Treasury \notin Users
BY BalancesAssumption DEF Accounts

LEMMA HoldType ==
  ASSUME NEW b \in Ledger, NEW a \in Accounts, NEW n \in Nat, CanHold(b, a, n)
  PROVE  Hold(b, a, n) \in Ledger
<1>1. b.free[a] \in Nat /\ b.held[a] \in Nat
  BY DEF Ledger
<1>2. b.free[a] - n \in Nat /\ b.held[a] + n \in Nat
  BY <1>1, BalancesAssumption DEF CanHold
<1> QED
  BY <1>2 DEF Ledger, Hold

LEMMA ReleaseType ==
  ASSUME NEW b \in Ledger, NEW a \in Accounts, NEW n \in Nat, CanRelease(b, a, n)
  PROVE  Release(b, a, n) \in Ledger
<1>1. b.free[a] \in Nat /\ b.held[a] \in Nat
  BY DEF Ledger
<1>2. b.free[a] + n \in Nat /\ b.held[a] - n \in Nat
  BY <1>1 DEF CanRelease
<1> QED
  BY <1>2 DEF Ledger, Release

LEMMA AdjustType ==
  ASSUME NEW b \in Ledger, NEW a \in Accounts, NEW old \in Nat, NEW new \in Nat,
         CanAdjust(b, a, old, new)
  PROVE  Adjust(b, a, old, new) \in Ledger
<1>1. CASE new > old
  <2>1. new - old \in Nat /\ CanHold(b, a, new - old)
    BY <1>1 DEF CanAdjust
  <2> QED
    BY <1>1, <2>1, HoldType DEF Adjust
<1>2. CASE ~(new > old)
  <2>1. old - new \in Nat /\ CanRelease(b, a, old - new)
    BY <1>2 DEF CanAdjust
  <2> QED
    BY <1>2, <2>1, ReleaseType DEF Adjust
<1> QED
  BY <1>1, <1>2

LEMMA TransferType ==
  ASSUME NEW b \in Ledger, NEW from \in Accounts, NEW to \in Accounts, NEW n \in Nat,
         CanTransfer(b, from, to, n)
  PROVE  Transfer(b, from, to, n) \in Ledger
<1>1. b.free[from] \in Nat /\ b.free[to] \in Nat /\ from # to
  BY DEF Ledger, CanTransfer
<1>2. b.free[from] - n \in Nat /\ b.free[to] + n \in Nat
  BY <1>1, BalancesAssumption DEF CanTransfer
<1>3. [b.free EXCEPT ![from] = @ - n, ![to] = @ + n] \in [Accounts -> Nat]
  BY <1>1, <1>2 DEF Ledger
<1>4. b.held \in [Accounts -> Nat]
  BY DEF Ledger
<1> QED
  BY <1>3, <1>4 DEF Ledger, Transfer

-----------------------------------------------------------------------------
(* Layers *)

LEMMA PremiumType ==
  ASSUME NEW layer \in Layer
  PROVE  /\ Premium(layer) \in Nat
         /\ Premium(layer) <= layer.amount
BY DEF Layer, Premium, SatSub

\* An edit moves a layer's base and keeps its premium.
LEMMA RebaseKeepsPremium ==
  ASSUME NEW layer \in Layer, NEW n \in Nat
  PROVE  /\ Rebase(layer, n) \in Layer
         /\ Rebase(layer, n).base = n
         /\ Rebase(layer, n).payer = layer.payer
         /\ Premium(Rebase(layer, n)) = Premium(layer)
<1>1. Premium(layer) \in Nat
  BY PremiumType
<1>2. /\ Rebase(layer, n) \in Layer
      /\ Rebase(layer, n).base = n
      /\ Rebase(layer, n).payer = layer.payer
      /\ Rebase(layer, n).amount = n + Premium(layer)
  BY <1>1 DEF Rebase, Layer
<1>3. SatSub(n + Premium(layer), n) = Premium(layer)
  BY <1>1 DEF SatSub
<1>4. Premium(Rebase(layer, n)) = SatSub(Rebase(layer, n).amount, Rebase(layer, n).base)
  BY DEF Premium
<1> QED
  BY <1>2, <1>3, <1>4

LEMMA TreasuryShareType ==
  ASSUME NEW layer \in Layer, NEW kind \in SettlementKind
  PROVE  /\ TreasuryShare(layer, kind) \in Nat
         /\ TreasuryShare(layer, kind) <= layer.amount
BY PremiumType DEF Layer, TreasuryShare, SettlementKind

\* Settling a layer gives its payer back what the Treasury does not take,
\* and takes the whole amount out of the hold.
LEMMA SettleLayerType ==
  ASSUME NEW b \in Ledger, NEW layer \in Layer, NEW kind \in SettlementKind,
         CanSettleLayer(b, layer, kind)
  PROVE  SettleLayer(b, layer, kind) \in Ledger
<1> DEFINE a     == layer.payer
           share == TreasuryShare(layer, kind)
           mid   == TransferOnHold(b, a, Treasury, share)
<1>1. /\ a \in Accounts /\ Treasury \in Accounts
      /\ share \in Nat /\ layer.amount \in Nat /\ share <= layer.amount
  BY PayersAreAccounts, TreasuryShareType DEF Layer
<1>2. b.held[a] \in Nat /\ b.held[a] >= layer.amount /\ b.free[Treasury] \in Nat
  BY <1>1 DEF CanSettleLayer, CanRelease, Ledger
<1>3. b.held[a] - share \in Nat /\ b.free[Treasury] + share \in Nat
  BY <1>1, <1>2
<1>4. mid \in Ledger /\ mid.held[a] = b.held[a] - share
  BY <1>1, <1>3 DEF TransferOnHold, Ledger
<1>5. layer.amount - share \in Nat /\ CanRelease(mid, a, layer.amount - share)
  BY <1>1, <1>2, <1>4 DEF CanRelease
<1> HIDE DEF mid, share, a
<1>6. Release(mid, a, layer.amount - share) \in Ledger
  BY <1>1, <1>4, <1>5, ReleaseType
<1> QED
  BY <1>6 DEF SettleLayer, mid, share, a

-----------------------------------------------------------------------------
(* The bond formula and the layers of a record *)

LEMMA QuotientType ==
  ASSUME NEW x \in Nat, NEW y \in Nat \ {0}
  PROVE  x \div y \in Nat
OBVIOUS

LEMMA ProductType ==
  ASSUME NEW x \in Nat, NEW y \in Nat
  PROVE  x * y \in Nat
OBVIOUS

LEMMA NewLayerType ==
  ASSUME NEW payer \in Users, NEW base \in Nat, NEW m \in Multipliers
  PROVE  /\ NewLayer(payer, base, m) \in Layer
         /\ NewLayer(payer, base, m).base = base
         /\ NewLayer(payer, base, m).payer = payer
<1>1. m.num \in Nat /\ m.den \in Nat \ {0}
  BY MiddsAssumption
<1>2. base * m.num \in Nat
  BY <1>1, ProductType
<1>3. (base * m.num) \div m.den \in Nat
  BY <1>1, <1>2, QuotientType
<1> QED
  BY <1>3 DEF NewLayer, ApplyMultipliers, Layer

LEMMA BaseBondType ==
  ASSUME depositBase \in Nat, perByte \in Nat, NEW p \in Payloads
  PROVE  ComputeBaseBond(p) \in Nat
<1>1. p.size \in Nat
  BY MiddsAssumption
<1>2. perByte * p.size \in Nat
  BY <1>1, ProductType
<1> QED
  BY <1>2 DEF ComputeBaseBond

\* What an edit may change of a record: its layers' bases and amounts.
SameRecord(d, d2) ==
  /\ d2 \in Deposit_
  /\ d2.depositor = d.depositor
  /\ d2.deposited_at = d.deposited_at
  /\ d2.finalized = d.finalized
  /\ d2.payload_hash = d.payload_hash
  /\ d2.sponsor_layer.payer = d.sponsor_layer.payer
  /\ Premium(d2.sponsor_layer) = Premium(d.sponsor_layer)
  /\ HasOwnerLayer(d) =>
       /\ HasOwnerLayer(d2)
       /\ d2.owner_layer.payer = d.owner_layer.payer
       /\ Premium(d2.owner_layer) = Premium(d.owner_layer)

LEMMA LayerKinds ==
  ASSUME NEW d \in Deposit_
  PROVE  /\ d.sponsor_layer \in Layer
         /\ HasOwnerLayer(d) => d.owner_layer \in Layer
         /\ OwnerBase(d) \in Nat
         /\ OwnerAmount(d) \in Nat
         /\ TotalBase(d) \in Nat
BY DEF Deposit_, HasOwnerLayer, OwnerBase, OwnerAmount, TotalBase, Layer

LEMMA WithSponsorLayerFacts ==
  ASSUME NEW d \in Deposit_, NEW layer \in Layer
  PROVE  /\ WithSponsorLayer(d, layer) \in Deposit_
         /\ WithSponsorLayer(d, layer).sponsor_layer = layer
         /\ WithSponsorLayer(d, layer).owner_layer = d.owner_layer
         /\ WithSponsorLayer(d, layer).depositor = d.depositor
         /\ WithSponsorLayer(d, layer).deposited_at = d.deposited_at
         /\ WithSponsorLayer(d, layer).finalized = d.finalized
         /\ WithSponsorLayer(d, layer).payload_hash = d.payload_hash
BY DEF Deposit_, WithSponsorLayer

LEMMA WithOwnerLayerFacts ==
  ASSUME NEW d \in Deposit_, NEW layer \in Layer \cup {NoLayer}
  PROVE  /\ WithOwnerLayer(d, layer) \in Deposit_
         /\ WithOwnerLayer(d, layer).owner_layer = layer
         /\ WithOwnerLayer(d, layer).sponsor_layer = d.sponsor_layer
         /\ WithOwnerLayer(d, layer).depositor = d.depositor
         /\ WithOwnerLayer(d, layer).deposited_at = d.deposited_at
         /\ WithOwnerLayer(d, layer).finalized = d.finalized
         /\ WithOwnerLayer(d, layer).payload_hash = d.payload_hash
BY DEF Deposit_, WithOwnerLayer

\* A record's owner layer is the caller's when the edit opened it.
OwnerLayerFrom(d, d2, caller) ==
  HasOwnerLayer(d2) =>
    \/ HasOwnerLayer(d)
    \/ d2.owner_layer.payer = caller /\ caller # d.sponsor_layer.payer

LEMMA GrowFacts ==
  ASSUME NEW d \in Deposit_, NEW caller \in Users, NEW delta \in Nat,
         NEW m \in Multipliers
  PROVE  /\ SameRecord(d, Grow(d, caller, delta, m))
         /\ TotalBase(Grow(d, caller, delta, m)) = TotalBase(d) + delta
         /\ OwnerLayerFrom(d, Grow(d, caller, delta, m), caller)
<1> DEFINE d2 == Grow(d, caller, delta, m)
           s  == d.sponsor_layer
           o  == d.owner_layer
<1>0. s \in Layer /\ (HasOwnerLayer(d) => o \in Layer)
  BY LayerKinds
<1>1. CASE caller = d.sponsor_layer.payer
  <2> DEFINE s2 == Rebase(s, s.base + delta)
  <2>1. s.base + delta \in Nat
    BY <1>0 DEF Layer
  <2>2. /\ s2 \in Layer /\ s2.base = s.base + delta /\ s2.payer = s.payer
        /\ Premium(s2) = Premium(s)
    BY <1>0, <2>1, RebaseKeepsPremium
  <2>3. d2 = WithSponsorLayer(d, s2)
    BY <1>1 DEF Grow
  <2> HIDE DEF s2, d2
  <2>4. SameRecord(d, d2) /\ d2.sponsor_layer = s2 /\ d2.owner_layer = o
    BY <2>2, <2>3, WithSponsorLayerFacts DEF SameRecord, HasOwnerLayer
  <2>5. s.base \in Nat /\ OwnerBase(d) \in Nat /\ OwnerBase(d2) = OwnerBase(d)
    BY <1>0, <2>4, LayerKinds DEF OwnerBase, HasOwnerLayer, Layer
  <2>6. TotalBase(d2) = TotalBase(d) + delta
    BY <2>2, <2>4, <2>5 DEF TotalBase
  <2> QED
    BY <2>4, <2>6 DEF OwnerLayerFrom, HasOwnerLayer, d2
<1>2. CASE caller # d.sponsor_layer.payer
  <2> DEFINE o2 == IF HasOwnerLayer(d) THEN Rebase(o, o.base + delta)
                   ELSE NewLayer(caller, delta, m)
  <2>1. CASE HasOwnerLayer(d)
    <3>1. o \in Layer /\ o.base \in Nat /\ o.base + delta \in Nat
      BY <1>0, <2>1 DEF Layer
    <3> QED
      <4>1. /\ o2 \in Layer /\ o2.base = o.base + delta
            /\ o2.payer = o.payer /\ Premium(o2) = Premium(o)
        BY <2>1, <3>1, RebaseKeepsPremium
      <4>2. d2 = WithOwnerLayer(d, o2)
        BY <1>2 DEF Grow
      <4> HIDE DEF o2, d2
      <4>3. SameRecord(d, d2) /\ d2.sponsor_layer = s /\ d2.owner_layer = o2
        BY <2>1, <4>1, <4>2, WithOwnerLayerFacts, NoLayerAssumption
        DEF SameRecord, HasOwnerLayer
      <4>4. HasOwnerLayer(d2)
        BY <4>1, <4>3, NoLayerAssumption DEF HasOwnerLayer
      <4>5. OwnerBase(d2) = OwnerBase(d) + delta /\ OwnerBase(d) \in Nat /\ s.base \in Nat
        BY <1>0, <2>1, <3>1, <4>1, <4>3, <4>4 DEF OwnerBase, Layer
      <4>6. TotalBase(d2) = TotalBase(d) + delta
        BY <4>3, <4>5 DEF TotalBase
      <4> QED
        BY <2>1, <4>3, <4>6 DEF OwnerLayerFrom, d2
  <2>2. CASE ~HasOwnerLayer(d)
    <3>1. o2 \in Layer /\ o2.base = delta /\ o2.payer = caller
      BY <2>2, NewLayerType
    <3>2. d2 = WithOwnerLayer(d, o2)
      BY <1>2 DEF Grow
    <3> HIDE DEF o2, d2
    <3>3. SameRecord(d, d2) /\ d2.sponsor_layer = s /\ d2.owner_layer = o2
      BY <2>2, <3>1, <3>2, WithOwnerLayerFacts DEF SameRecord
    <3>4. HasOwnerLayer(d2)
      BY <3>1, <3>3, NoLayerAssumption DEF HasOwnerLayer
    <3>5. OwnerBase(d2) = delta /\ OwnerBase(d) = 0 /\ s.base \in Nat
      BY <1>0, <2>2, <3>1, <3>3, <3>4 DEF OwnerBase, Layer
    <3>6. TotalBase(d2) = TotalBase(d) + delta
      BY <3>3, <3>5 DEF TotalBase
    <3> QED
      BY <1>2, <3>1, <3>3, <3>6 DEF OwnerLayerFrom, d2
  <2> QED
    BY <2>1, <2>2
<1> QED
  BY <1>1, <1>2

\* What the two layers give back adds up to the decrease.
LEMMA PartsFacts ==
  ASSUME NEW d \in Deposit_, NEW caller \in Users, NEW delta \in Nat,
         delta <= TotalBase(d)
  PROVE  /\ SponsorPart(d, caller, delta) \in Nat
         /\ OwnerPart(d, caller, delta) \in Nat
         /\ SponsorPart(d, caller, delta) <= d.sponsor_layer.base
         /\ OwnerPart(d, caller, delta) <= OwnerBase(d)
         /\ SponsorPart(d, caller, delta) + OwnerPart(d, caller, delta) = delta
<1>1. /\ d.sponsor_layer.base \in Nat /\ OwnerBase(d) \in Nat
      /\ delta <= d.sponsor_layer.base + OwnerBase(d)
  BY LayerKinds DEF TotalBase, Layer
<1>2. CASE caller = d.sponsor_layer.payer
  BY <1>1, <1>2 DEF SponsorPart, OwnerPart, Smaller
<1>3. CASE caller # d.sponsor_layer.payer
  BY <1>1, <1>3 DEF SponsorPart, OwnerPart, Smaller
<1> QED
  BY <1>2, <1>3

LEMMA ShrinkFacts ==
  ASSUME NEW d \in Deposit_, NEW caller \in Users, NEW delta \in Nat,
         delta <= TotalBase(d)
  PROVE  /\ SameRecord(d, Shrink(d, caller, delta))
         /\ TotalBase(Shrink(d, caller, delta)) = TotalBase(d) - delta
         /\ OwnerLayerFrom(d, Shrink(d, caller, delta), caller)
<1> DEFINE sp == SponsorPart(d, caller, delta)
           op == OwnerPart(d, caller, delta)
           s  == d.sponsor_layer
           o  == d.owner_layer
           s2 == IF sp = 0 THEN s ELSE Rebase(s, s.base - sp)
           o2 == IF op = 0 THEN o ELSE Rebase(o, o.base - op)
           d1 == WithSponsorLayer(d, s2)
           d2 == WithOwnerLayer(d1, o2)
<1>1. Shrink(d, caller, delta) = d2
  BY DEF Shrink
<1>2. /\ sp \in Nat /\ op \in Nat /\ sp <= s.base /\ op <= OwnerBase(d)
      /\ sp + op = delta
  BY PartsFacts
<1>3. /\ s \in Layer /\ s.base \in Nat /\ OwnerBase(d) \in Nat
      /\ HasOwnerLayer(d) => o \in Layer /\ OwnerBase(d) = o.base
      /\ ~HasOwnerLayer(d) => o = NoLayer /\ OwnerBase(d) = 0
  BY LayerKinds DEF Layer, OwnerBase, HasOwnerLayer
<1> HIDE DEF sp, op
<1>4. /\ s2 \in Layer /\ s2.base = s.base - sp /\ s2.payer = s.payer
      /\ Premium(s2) = Premium(s)
  <2>1. CASE sp = 0
    BY <1>3, <2>1
  <2>2. CASE sp # 0
    <3>1. s.base - sp \in Nat
      BY <1>2, <1>3
    <3> QED
      BY <1>3, <2>2, <3>1, RebaseKeepsPremium
  <2> QED
    BY <2>1, <2>2
<1>5. /\ HasOwnerLayer(d) =>
           /\ o2 \in Layer /\ o2.base = o.base - op /\ o2.payer = o.payer
           /\ Premium(o2) = Premium(o)
      /\ ~HasOwnerLayer(d) => o2 = NoLayer /\ op = 0
  <2>1. CASE op = 0
    <3>1. HasOwnerLayer(d) => o.base - op = o.base
      BY <1>3, <2>1 DEF Layer
    <3> QED
      BY <1>3, <2>1, <3>1
  <2>2. CASE op # 0
    <3>1. HasOwnerLayer(d) /\ o.base - op \in Nat
      BY <1>2, <1>3, <2>2 DEF Layer
    <3> QED
      BY <1>3, <2>2, <3>1, RebaseKeepsPremium
  <2> QED
    BY <2>1, <2>2
<1> HIDE DEF s2, o2
<1>6. /\ d1 \in Deposit_ /\ d1.sponsor_layer = s2 /\ d1.owner_layer = o
      /\ d1.depositor = d.depositor /\ d1.deposited_at = d.deposited_at
      /\ d1.finalized = d.finalized /\ d1.payload_hash = d.payload_hash
  BY <1>4, WithSponsorLayerFacts
<1>7. o2 \in Layer \cup {NoLayer}
  BY <1>5
<1> HIDE DEF d1
<1>8. /\ d2 \in Deposit_ /\ d2.sponsor_layer = s2 /\ d2.owner_layer = o2
      /\ d2.depositor = d.depositor /\ d2.deposited_at = d.deposited_at
      /\ d2.finalized = d.finalized /\ d2.payload_hash = d.payload_hash
  BY <1>6, <1>7, WithOwnerLayerFacts
<1> HIDE DEF d2
<1>9. HasOwnerLayer(d2) <=> HasOwnerLayer(d)
  BY <1>5, <1>8, NoLayerAssumption DEF HasOwnerLayer
<1>10. SameRecord(d, d2) /\ OwnerLayerFrom(d, d2, caller)
  BY <1>4, <1>5, <1>8, <1>9 DEF SameRecord, OwnerLayerFrom
<1>11. OwnerBase(d2) = OwnerBase(d) - op
  BY <1>2, <1>3, <1>5, <1>8, <1>9 DEF OwnerBase
<1>12. TotalBase(d2) = TotalBase(d) - delta
  BY <1>2, <1>3, <1>4, <1>8, <1>11 DEF TotalBase
<1> QED
  BY <1>1, <1>10, <1>12

\* An edit leaves the bases adding up to the new price, keeps each layer's
\* payer and premium, and opens an owner layer for a caller who is not the
\* sponsor alone.
LEMMA RouteSizeDeltaFacts ==
  ASSUME NEW d \in Deposit_, NEW caller \in Users, NEW n \in Nat,
         NEW m \in Multipliers
  PROVE  /\ SameRecord(d, RouteSizeDelta(d, caller, n, m))
         /\ TotalBase(RouteSizeDelta(d, caller, n, m)) = n
         /\ OwnerLayerFrom(d, RouteSizeDelta(d, caller, n, m), caller)
<1>0. TotalBase(d) \in Nat
  BY LayerKinds
<1>1. CASE n = TotalBase(d)
  BY <1>1 DEF RouteSizeDelta, SameRecord, OwnerLayerFrom
<1>2. CASE n > TotalBase(d)
  <2>1. n - TotalBase(d) \in Nat
    BY <1>0, <1>2
  <2>2. RouteSizeDelta(d, caller, n, m) = Grow(d, caller, n - TotalBase(d), m)
    BY <1>0, <1>2 DEF RouteSizeDelta
  <2>3. TotalBase(d) + (n - TotalBase(d)) = n
    BY <1>0
  <2> QED
    BY <2>1, <2>2, <2>3, GrowFacts
<1>3. CASE n < TotalBase(d)
  <2>1. TotalBase(d) - n \in Nat /\ TotalBase(d) - n <= TotalBase(d)
    BY <1>0, <1>3
  <2>2. RouteSizeDelta(d, caller, n, m) = Shrink(d, caller, TotalBase(d) - n)
    BY <1>0, <1>3 DEF RouteSizeDelta
  <2>3. TotalBase(d) - (TotalBase(d) - n) = n
    BY <1>0
  <2> QED
    BY <2>1, <2>2, <2>3, ShrinkFacts
<1> QED
  BY <1>0, <1>1, <1>2, <1>3

-----------------------------------------------------------------------------
(* Money *)

LEMMA SettleBondType ==
  ASSUME NEW b \in Ledger, NEW d \in Deposit_, NEW kind \in SettlementKind,
         CanSettleBond(b, d, kind)
  PROVE  SettleBond(b, d, kind) \in Ledger
<1>1. /\ CanSettleLayer(b, d.sponsor_layer, kind)
      /\ d.sponsor_layer \in Layer
  BY LayerKinds DEF CanSettleBond
<1>2. SettleLayer(b, d.sponsor_layer, kind) \in Ledger
  BY <1>1, SettleLayerType
<1>3. ASSUME HasOwnerLayer(d)
      PROVE  SettleLayer(SettleLayer(b, d.sponsor_layer, kind), d.owner_layer, kind)
               \in Ledger
  <2>1. /\ d.owner_layer \in Layer
        /\ CanSettleLayer(SettleLayer(b, d.sponsor_layer, kind), d.owner_layer, kind)
    BY <1>3, LayerKinds DEF CanSettleBond
  <2> QED
    BY <1>2, <2>1, SettleLayerType
<1> QED
  BY <1>2, <1>3 DEF SettleBond

LEMMA RebalanceType ==
  ASSUME NEW b \in Ledger, NEW d \in Deposit_, NEW d2 \in Deposit_,
         CanRebalance(b, d, d2)
  PROVE  Rebalance(b, d, d2) \in Ledger
<1>1. /\ d.sponsor_layer \in Layer /\ d2.sponsor_layer \in Layer
      /\ OwnerAmount(d) \in Nat /\ OwnerAmount(d2) \in Nat
      /\ HasOwnerLayer(d2) => d2.owner_layer \in Layer
  BY LayerKinds
<1>2. /\ d.sponsor_layer.payer \in Accounts
      /\ d.sponsor_layer.amount \in Nat /\ d2.sponsor_layer.amount \in Nat
      /\ HasOwnerLayer(d2) => d2.owner_layer.payer \in Accounts
  BY <1>1, PayersAreAccounts DEF Layer
<1>3. AdjustSponsor(b, d, d2) \in Ledger
  BY <1>2, AdjustType DEF CanRebalance, AdjustSponsor
<1>4. ASSUME HasOwnerLayer(d2)
      PROVE  Adjust(AdjustSponsor(b, d, d2), d2.owner_layer.payer,
                    OwnerAmount(d), OwnerAmount(d2)) \in Ledger
  BY <1>1, <1>2, <1>3, <1>4, AdjustType DEF CanRebalance
<1> QED
  BY <1>3, <1>4 DEF Rebalance

-----------------------------------------------------------------------------
(* The inductive invariant *)

\* Ids not handed out yet name nothing.
Fresh == \A id \in Ids : id >= nextId => info[id] = None

\* A record the hook has collected is past its window.
DueElapsed ==
  /\ phase = "dispatch" => due = {}
  /\ \A id \in due : id \in LiveIds => Expiry(info[id]) <= block

PalletInv ==
  /\ TypeOK
  /\ Fresh
  /\ IndexesAgree
  /\ QueueMatchesRecords
  /\ DueElapsed
  /\ NeverFinalizedEarly
  /\ OwnerLayerIsOwners

LEMMA NoneIsNotADeposit == None \notin Deposit_ /\ None \notin Payloads /\ None \notin Ids
  BY MiddsAssumption DEF Ids

LEMMA InitInv == Init => PalletInv
<1> SUFFICES ASSUME Init PROVE PalletInv
  OBVIOUS
<1>1. \A id \in Ids : info[id] = None /\ items[id] = None
  BY DEF Init
<1>2. \A id : ~Recorded(id)
  BY <1>1 DEF Recorded
<1>3. LiveIds = {} /\ pending = {} /\ due = {} /\ claims = {} /\ phase = "hook"
  BY <1>1 DEF Init, LiveIds, Queue!Init
<1>4. TypeOK
  <2>1. Queue!TypeOK
    BY MiddsAssumption DEF Init, Queue!Init, Queue!TypeOK
  <2>2. nextId \in 0 .. MaxRecords
    BY MiddsAssumption DEF Init
  <2>3. bal \in Ledger
    BY MiddsAssumption DEF Init, Ledger
  <2>4. batch \in Seq(RemovalRequest)
    BY DEF Init
  <2> QED
    BY <2>1, <2>2, <2>3, <2>4 DEF Init, TypeOK
<1>5. IndexesAgree
  BY <1>1, <1>2, <1>3 DEF Init, IndexesAgree
<1> QED
  BY <1>1, <1>2, <1>3, <1>4, <1>5
  DEF PalletInv, Fresh, QueueMatchesRecords, DueElapsed, NeverFinalizedEarly,
      OwnerLayerIsOwners

\* A payload rewritten in a record.
LEMMA WithHashFacts ==
  ASSUME NEW d \in Deposit_, NEW p \in Payloads
  PROVE  LET d2 == [d EXCEPT !.payload_hash = p]
         IN /\ d2 \in Deposit_
            /\ d2.payload_hash = p
            /\ d2.depositor = d.depositor
            /\ d2.deposited_at = d.deposited_at
            /\ d2.finalized = d.finalized
            /\ d2.sponsor_layer = d.sponsor_layer
            /\ d2.owner_layer = d.owner_layer
BY DEF Deposit_

\* A live record's own data.
LEMMA RecordedFacts ==
  ASSUME PalletInv, NEW id, Recorded(id)
  PROVE  /\ id \in Ids /\ id \in Nat /\ id < nextId
         /\ info[id] \in Deposit_
         /\ items[id] \in Payloads
         /\ items[id] = info[id].payload_hash
         /\ hashes[items[id]] = id
         /\ <<items[id].ident, id>> \in claims
<1>1. id \in Ids /\ info[id] # None /\ info[id] \in Deposit_
  BY DEF Recorded, PalletInv, TypeOK
<1>2. id \in Nat /\ nextId \in Nat
  BY <1>1, MiddsAssumption DEF Ids, PalletInv, TypeOK
<1>3. id < nextId
  BY <1>1, <1>2 DEF PalletInv, Fresh
<1>4. items[id] # None /\ items[id] \in Payloads
  BY <1>1 DEF PalletInv, TypeOK, IndexesAgree
<1> QED
  BY <1>1, <1>2, <1>3, <1>4 DEF PalletInv, IndexesAgree

-----------------------------------------------------------------------------
(* Steps that leave the records alone *)

\* Whatever else such a step does, it keeps the part about records.
LEMMA RecordsKept ==
  ASSUME PalletInv, UNCHANGED recordVars, UNCHANGED block, pending' = pending
  PROVE  Fresh' /\ IndexesAgree' /\ QueueMatchesRecords' /\ OwnerLayerIsOwners'
         /\ NeverFinalizedEarly'
<1> USE DEF PalletInv, recordVars
<1>1. Fresh' /\ OwnerLayerIsOwners' /\ NeverFinalizedEarly'
  BY DEF Fresh, OwnerLayerIsOwners, NeverFinalizedEarly, Recorded, HasOwnerLayer,
         InWindow, Elapsed
<1>2. IndexesAgree'
  BY DEF IndexesAgree, Recorded
<1>3. QueueMatchesRecords'
  BY DEF QueueMatchesRecords, LiveIds, Expiry
<1> QED
  BY <1>1, <1>2, <1>3

\* A call that touches neither the records nor the queue.
LEMMA IdleStep ==
  ASSUME PalletInv, UNCHANGED <<queueVars, recordVars>>,
         bal' \in Ledger, nonce' \in [Users -> Nat], mult' \in Multipliers,
         depositBase' \in BaseChoices, perByte' \in PerByteChoices,
         batch' \in Seq(RemovalRequest)
  PROVE  PalletInv'
<1>1. UNCHANGED <<block, phase, cursor, remaining, probes, due, pending, skipped,
                  nextId, items, claims, hashes, info>>
  BY DEF queueVars, recordVars
<1>2. UNCHANGED recordVars /\ UNCHANGED block /\ pending' = pending
  BY <1>1 DEF recordVars
<1>3. TypeOK'
  BY <1>1 DEF PalletInv, TypeOK, Queue!TypeOK
<1>4. DueElapsed'
  BY <1>1 DEF PalletInv, DueElapsed, LiveIds, Expiry
<1> QED
  BY <1>2, <1>3, <1>4, RecordsKept DEF PalletInv

\* A hook step that finalizes nothing.
LEMMA HookIdle ==
  ASSUME PalletInv, UNCHANGED recordVars, pending' = pending, Queue!TypeOK',
         block' \in Nat, block' >= block, DueElapsed',
         UNCHANGED <<nonce, bal, depositBase, perByte, batch>>, mult' \in Multipliers
  PROVE  PalletInv'
<1>1. TypeOK'
  BY DEF PalletInv, TypeOK, recordVars
<1>2. Fresh' /\ OwnerLayerIsOwners'
  BY DEF PalletInv, Fresh, OwnerLayerIsOwners, Recorded, HasOwnerLayer, recordVars
<1>3. IndexesAgree'
  BY DEF PalletInv, IndexesAgree, Recorded, recordVars
<1>4. QueueMatchesRecords'
  BY DEF PalletInv, QueueMatchesRecords, LiveIds, Expiry, recordVars
<1>5. NeverFinalizedEarly'
  <2> SUFFICES ASSUME NEW id \in Ids, Recorded(id), info[id].finalized
               PROVE  ~(block' - info[id].deposited_at < Window)
    BY DEF NeverFinalizedEarly, Recorded, InWindow, Elapsed, recordVars
  <2>1. info[id].deposited_at \in Nat
    BY RecordedFacts DEF Deposit_
  <2>2. ~(block - info[id].deposited_at < Window)
    BY DEF PalletInv, NeverFinalizedEarly, InWindow, Elapsed
  <2> QED
    BY <2>1, <2>2, MiddsAssumption DEF PalletInv, TypeOK, Queue!TypeOK
<1> QED
  BY <1>1, <1>2, <1>3, <1>4, <1>5 DEF PalletInv

-----------------------------------------------------------------------------
(* Deposits *)

\* The record do_deposit writes.
NewRecord(depositor, payer, p) ==
  [depositor     |-> depositor,
   deposited_at  |-> block,
   sponsor_layer |-> NewLayer(payer, ComputeBaseBond(p), mult),
   owner_layer   |-> NoLayer,
   payload_hash  |-> p,
   finalized     |-> FALSE]

LEMMA NewRecordType ==
  ASSUME PalletInv, NEW depositor \in Users, NEW payer \in Users, NEW p \in Payloads
  PROVE  /\ NewRecord(depositor, payer, p) \in Deposit_
         /\ NewRecord(depositor, payer, p).sponsor_layer
              = NewLayer(payer, ComputeBaseBond(p), mult)
         /\ NewLayer(payer, ComputeBaseBond(p), mult).amount \in Nat
         /\ ~HasOwnerLayer(NewRecord(depositor, payer, p))
<1>1. ComputeBaseBond(p) \in Nat
  BY BaseBondType, MiddsAssumption DEF PalletInv, TypeOK
<1>2. NewLayer(payer, ComputeBaseBond(p), mult) \in Layer
  BY <1>1, NewLayerType DEF PalletInv, TypeOK
<1>3. block \in Nat
  BY DEF PalletInv, TypeOK, Queue!TypeOK
<1> QED
  BY <1>2, <1>3 DEF NewRecord, Deposit_, HasOwnerLayer, Layer

LEMMA DepositStep ==
  ASSUME PalletInv, NEW depositor \in Users, NEW payer \in Users, NEW p \in Payloads,
         Dispatching, DoDeposit(depositor, payer, p), nonce' \in [Users -> Nat]
  PROVE  PalletInv'
<1> DEFINE new == NewRecord(depositor, payer, p)
           n   == nextId
<1>1. /\ n \in Ids /\ n \in Nat /\ hashes[p] = None
      /\ CanHold(bal, payer, new.sponsor_layer.amount)
      /\ bal' = Hold(bal, payer, new.sponsor_layer.amount)
      /\ items' = [items EXCEPT ![n] = p]
      /\ claims' = claims \cup {<<p.ident, n>>}
      /\ hashes' = [hashes EXCEPT ![p] = n]
      /\ info' = [info EXCEPT ![n] = new]
      /\ nextId' = n + 1
      /\ pending' = pending \cup {<<block + Window, n>>}
      /\ UNCHANGED <<block, phase, cursor, remaining, probes, due, skipped>>
      /\ UNCHANGED <<mult, depositBase, perByte, batch>>
      /\ phase = "dispatch"
  <2>1. n \in Ids /\ n \in Nat
    BY MiddsAssumption DEF DoDeposit, Ids
  <2>2. new.sponsor_layer = NewLayer(payer, ComputeBaseBond(p), mult)
    BY NewRecordType
  <2>3. /\ UNCHANGED <<block, phase, cursor, remaining, probes, due, skipped>>
        /\ pending' = pending \cup {<<block + Window, n>>}
        /\ phase = "dispatch"
    BY DEF DoDeposit, Queue!Enqueue, Queue!hookVars
  <2>4. /\ hashes[p] = None
        /\ CanHold(bal, payer, new.sponsor_layer.amount)
        /\ bal' = Hold(bal, payer, new.sponsor_layer.amount)
    BY <2>2 DEF DoDeposit
  <2>5. info' = [info EXCEPT ![n] = new]
    BY DEF DoDeposit, NewRecord
  <2> QED
    BY <2>1, <2>3, <2>4, <2>5 DEF DoDeposit, paramVars
<1>2. /\ new \in Deposit_ /\ new.sponsor_layer.amount \in Nat
      /\ ~HasOwnerLayer(new) /\ new.finalized = FALSE /\ new.payload_hash = p
      /\ new.deposited_at = block
  BY NewRecordType DEF NewRecord
<1> HIDE DEF new
<1>3. /\ info[n] = None /\ items[n] = None /\ new # None
      /\ ~Recorded(n)
  BY <1>1, <1>2, NoneIsNotADeposit DEF PalletInv, Fresh, IndexesAgree, Recorded, TypeOK
<1>4. /\ info' \in [Ids -> Deposit_ \cup {None}] /\ info'[n] = new
      /\ \A id \in Ids : id # n => info'[id] = info[id] /\ items'[id] = items[id]
      /\ items'[n] = p
      /\ hashes'[p] = n
      /\ \A q \in Payloads : q # p => hashes'[q] = hashes[q]
      /\ items' \in [Ids -> Payloads \cup {None}]
      /\ hashes' \in [Payloads -> Ids \cup {None}]
  BY <1>1, <1>2 DEF PalletInv, TypeOK
<1>5. \A id \in Ids : Recorded(id)' <=> Recorded(id) \/ id = n
  BY <1>3, <1>4 DEF Recorded
<1>6. TypeOK'
  <2>1. payer \in Accounts
    BY PayersAreAccounts
  <2>2. bal' \in Ledger
    BY <1>1, <1>2, <2>1, HoldType DEF PalletInv, TypeOK
  <2>3. nextId' \in 0 .. MaxRecords
    BY <1>1, MiddsAssumption DEF Ids
  <2>4. claims' \in SUBSET (Identifiers \X Ids)
    BY <1>1 DEF PalletInv, TypeOK, Identifiers
  <2>5. block + Window \in Nat
    BY MiddsAssumption, SMTT(30) DEF PalletInv, TypeOK, Queue!TypeOK
  <2>6. Queue!TypeOK'
    BY <1>1, <2>5 DEF PalletInv, TypeOK, Queue!TypeOK
  <2> QED
    BY <1>1, <1>4, <2>2, <2>3, <2>4, <2>6 DEF PalletInv, TypeOK
<1>7. Fresh'
  BY <1>1, <1>4, MiddsAssumption DEF Fresh, PalletInv, Ids
<1>8. IndexesAgree'
  <2>1. \A id \in Ids : Recorded(id) => items[id] # p /\ items[id] \in Payloads
    BY <1>1, RecordedFacts, NoneIsNotADeposit
  <2>2. \A id \in Ids : info'[id] = None <=> items'[id] = None
    BY <1>2, <1>3, <1>4, NoneIsNotADeposit DEF PalletInv, IndexesAgree
  <2>3. \A id \in Ids : Recorded(id)' =>
          info'[id].payload_hash = items'[id] /\ hashes'[items'[id]] = id
    <3> SUFFICES ASSUME NEW id \in Ids, Recorded(id)'
                 PROVE  info'[id].payload_hash = items'[id] /\ hashes'[items'[id]] = id
      OBVIOUS
    <3>1. CASE id = n
      BY <1>2, <1>4, <3>1
    <3>2. CASE id # n
      <4>1. Recorded(id)
        BY <1>5, <3>2
      <4>2. /\ info[id].payload_hash = items[id] /\ hashes[items[id]] = id
            /\ items[id] # p /\ items[id] \in Payloads
        BY <2>1, <4>1, RecordedFacts
      <4> QED
        BY <1>4, <3>2, <4>2
    <3> QED
      BY <3>1, <3>2
  <2>4. \A q \in Payloads : hashes'[q] # None => items'[hashes'[q]] = q
    <3> SUFFICES ASSUME NEW q \in Payloads, hashes'[q] # None
                 PROVE  items'[hashes'[q]] = q
      OBVIOUS
    <3>1. CASE q = p
      BY <1>4, <3>1
    <3>2. CASE q # p
      <4>1. hashes[q] # None /\ hashes[q] \in Ids /\ items[hashes[q]] = q
        BY <1>4, <3>2 DEF PalletInv, IndexesAgree, TypeOK
      <4>2. hashes[q] # n
        BY <1>3, <4>1, NoneIsNotADeposit
      <4> QED
        BY <1>4, <3>2, <4>1, <4>2
    <3> QED
      BY <3>1, <3>2
  <2>5. claims' = {<<items'[id].ident, id>> : id \in {i \in Ids : Recorded(i)'}}
    <3>1. claims = {<<items[id].ident, id>> : id \in {i \in Ids : Recorded(i)}}
      BY DEF PalletInv, IndexesAgree
    <3> QED
      BY <1>1, <1>3, <1>4, <1>5, <3>1
  <2> QED
    BY <2>2, <2>3, <2>4, <2>5 DEF IndexesAgree, Recorded
<1>9. QueueMatchesRecords'
  <2>1. pending = {<<Expiry(info[id]), id>> : id \in LiveIds}
    BY DEF PalletInv, QueueMatchesRecords
  <2>2. LiveIds' = LiveIds \cup {n} /\ n \notin LiveIds
    BY <1>1, <1>2, <1>3, <1>4 DEF LiveIds
  <2>3. Expiry(new) = block + Window
    BY <1>2 DEF Expiry
  <2>4. \A id \in LiveIds : info'[id] = info[id]
    BY <1>4, <2>2 DEF LiveIds
  <2> QED
    BY <1>1, <1>4, <2>1, <2>2, <2>3, <2>4 DEF QueueMatchesRecords, Expiry
<1>10. DueElapsed'
  BY <1>1 DEF PalletInv, DueElapsed
<1>11. NeverFinalizedEarly'
  BY <1>1, <1>2, <1>4, <1>5 DEF PalletInv, NeverFinalizedEarly, InWindow, Elapsed
<1>12. OwnerLayerIsOwners'
  BY <1>2, <1>4, <1>5 DEF PalletInv, OwnerLayerIsOwners, HasOwnerLayer
<1> QED
  BY <1>6, <1>7, <1>8, <1>9, <1>10, <1>11, <1>12 DEF PalletInv

-----------------------------------------------------------------------------
(* Edits *)

\* The owner layer of a record is its owner's, and the sponsor is another.
OwnerLayerSound(d) ==
  HasOwnerLayer(d) =>
    d.owner_layer.payer = d.depositor /\ d.sponsor_layer.payer # d.depositor

LEMMA EditStep ==
  ASSUME PalletInv, NEW id, Recorded(id), NEW p \in Payloads, NEW d2,
         SameRecord(info[id], d2), OwnerLayerSound(d2),
         IdentifierUnchanged(id, p), Rehash(id, info[id], p),
         info' = [info EXCEPT ![id] = [d2 EXCEPT !.payload_hash = p]],
         EditFrame, bal' \in Ledger, nonce' \in [Users -> Nat]
  PROVE  PalletInv'
<1> DEFINE old == info[id].payload_hash
           new == [d2 EXCEPT !.payload_hash = p]
<1>1. /\ id \in Ids /\ info[id] \in Deposit_ /\ items[id] = old
      /\ hashes[old] = id /\ <<old.ident, id>> \in claims /\ old \in Payloads
  BY RecordedFacts
<1>2. /\ new \in Deposit_ /\ new # None /\ new.payload_hash = p
      /\ new.depositor = info[id].depositor
      /\ new.deposited_at = info[id].deposited_at
      /\ new.finalized = info[id].finalized
      /\ OwnerLayerSound(new)
  BY WithHashFacts, NoneIsNotADeposit DEF SameRecord, OwnerLayerSound, HasOwnerLayer
<1>3. /\ p # old => hashes[p] = None
      /\ hashes' = IF p = old THEN hashes ELSE [hashes EXCEPT ![old] = None, ![p] = id]
      /\ items' = [items EXCEPT ![id] = p]
  BY <1>1, NoneIsNotADeposit DEF Rehash, PalletInv, IndexesAgree
<1>4. /\ UNCHANGED <<block, phase, cursor, remaining, probes, due, pending, skipped>>
      /\ UNCHANGED <<nextId, claims, mult, depositBase, perByte, batch>>
      /\ phase = "dispatch"
  BY DEF EditFrame, Queue!QueueIdle, Queue!vars, paramVars
<1> HIDE DEF new
<1>5. /\ info' \in [Ids -> Deposit_ \cup {None}] /\ info'[id] = new
      /\ \A i \in Ids : i # id => info'[i] = info[i] /\ items'[i] = items[i]
      /\ items' \in [Ids -> Payloads \cup {None}] /\ items'[id] = p
  BY <1>1, <1>2, <1>3 DEF PalletInv, TypeOK, new
<1>6. /\ hashes' \in [Payloads -> Ids \cup {None}] /\ hashes'[p] = id
      /\ \A q \in Payloads : q # p /\ q # old => hashes'[q] = hashes[q]
      /\ p # old => hashes'[old] = None
  BY <1>1, <1>3 DEF PalletInv, TypeOK
<1>7. \A i : Recorded(i)' <=> Recorded(i)
  BY <1>2, <1>5 DEF Recorded
<1>8. p.ident = old.ident
  <2>1. <<p.ident, id>> \in claims
    BY DEF IdentifierUnchanged
  <2>2. PICK i \in Ids : Recorded(i) /\ <<p.ident, id>> = <<items[i].ident, i>>
    BY <2>1 DEF PalletInv, IndexesAgree
  <2> QED
    BY <1>1, <2>2
<1>9. TypeOK'
  BY <1>4, <1>5, <1>6 DEF PalletInv, TypeOK, Queue!TypeOK
<1>10. Fresh'
  BY <1>4, <1>5, <1>7 DEF PalletInv, Fresh, Recorded
<1>11. IndexesAgree'
  <2>1. \A i \in Ids : info'[i] = None <=> items'[i] = None
    BY <1>1, <1>2, <1>5, NoneIsNotADeposit DEF PalletInv, IndexesAgree
  <2>2. \A i \in Ids : Recorded(i)' =>
          info'[i].payload_hash = items'[i] /\ hashes'[items'[i]] = i
    <3> SUFFICES ASSUME NEW i \in Ids, Recorded(i)'
                 PROVE  info'[i].payload_hash = items'[i] /\ hashes'[items'[i]] = i
      OBVIOUS
    <3>1. CASE i = id
      BY <1>2, <1>5, <1>6, <3>1
    <3>2. CASE i # id
      <4>1. /\ info[i].payload_hash = items[i] /\ hashes[items[i]] = i
            /\ items[i] \in Payloads
        BY <1>7, RecordedFacts
      <4>2. items[i] # old /\ items[i] # p
        BY <1>1, <1>3, <3>2, <4>1, NoneIsNotADeposit
      <4> QED
        BY <1>5, <1>6, <3>2, <4>1, <4>2
    <3> QED
      BY <3>1, <3>2
  <2>3. \A q \in Payloads : hashes'[q] # None => items'[hashes'[q]] = q
    <3> SUFFICES ASSUME NEW q \in Payloads, hashes'[q] # None
                 PROVE  items'[hashes'[q]] = q
      OBVIOUS
    <3>1. CASE q = p
      BY <1>5, <1>6, <3>1
    <3>2. CASE q # p
      <4>1. q # old
        BY <1>6, <3>2
      <4>2. hashes[q] # None /\ hashes[q] \in Ids /\ items[hashes[q]] = q
        BY <1>6, <3>2, <4>1 DEF PalletInv, IndexesAgree, TypeOK
      <4>3. hashes[q] # id
        BY <1>1, <4>1, <4>2
      <4> QED
        BY <1>5, <1>6, <3>2, <4>1, <4>2, <4>3
    <3> QED
      BY <3>1, <3>2
  <2>4. claims' = {<<items'[i].ident, i>> : i \in {j \in Ids : Recorded(j)'}}
    <3>1. claims = {<<items[i].ident, i>> : i \in {j \in Ids : Recorded(j)}}
      BY DEF PalletInv, IndexesAgree
    <3>2. \A i \in Ids : items'[i].ident = items[i].ident
      BY <1>1, <1>5, <1>8
    <3> QED
      BY <1>4, <1>7, <3>1, <3>2
  <2> QED
    BY <2>1, <2>2, <2>3, <2>4 DEF IndexesAgree, Recorded
<1>12. \A i \in Ids : Recorded(i) =>
         /\ info'[i].deposited_at = info[i].deposited_at
         /\ info'[i].finalized = info[i].finalized
  BY <1>2, <1>5
<1>13. LiveIds' = LiveIds /\ \A i \in LiveIds : Expiry(info'[i]) = Expiry(info[i])
  BY <1>7, <1>12 DEF LiveIds, Recorded, Expiry
<1>14. QueueMatchesRecords'
  BY <1>4, <1>13 DEF PalletInv, QueueMatchesRecords, Expiry
<1>15. DueElapsed'
  BY <1>4 DEF PalletInv, DueElapsed
<1>16. NeverFinalizedEarly'
  BY <1>4, <1>7, <1>12 DEF PalletInv, NeverFinalizedEarly, InWindow, Elapsed
<1>17. OwnerLayerIsOwners'
  BY <1>2, <1>5, <1>7 DEF PalletInv, OwnerLayerIsOwners, OwnerLayerSound, HasOwnerLayer
<1> QED
  BY <1>9, <1>10, <1>11, <1>14, <1>15, <1>16, <1>17 DEF PalletInv

\* What apply_edit does to the one record it edits.
LEMMA ApplyEditFacts ==
  ASSUME PalletInv, NEW id, Recorded(id), NEW p \in Payloads, NEW caller \in Users,
         caller \in {info[id].depositor, info[id].sponsor_layer.payer},
         ApplyEdit(id, p, info[id], caller)
  PROVE  LET d2 == RouteSizeDelta(info[id], caller, ComputeBaseBond(p), mult)
         IN /\ SameRecord(info[id], d2) /\ OwnerLayerSound(d2)
            /\ TotalBase(d2) = ComputeBaseBond(p)
            /\ Rehash(id, info[id], p)
            /\ info' = [info EXCEPT ![id] = [d2 EXCEPT !.payload_hash = p]]
            /\ bal' \in Ledger
<1> DEFINE d2 == RouteSizeDelta(info[id], caller, ComputeBaseBond(p), mult)
<1>1. info[id] \in Deposit_
  BY RecordedFacts
<1>2. ComputeBaseBond(p) \in Nat
  BY BaseBondType, MiddsAssumption DEF PalletInv, TypeOK
<1>3. /\ SameRecord(info[id], d2) /\ TotalBase(d2) = ComputeBaseBond(p)
      /\ OwnerLayerFrom(info[id], d2, caller)
  BY <1>1, <1>2, RouteSizeDeltaFacts DEF PalletInv, TypeOK
<1>4. /\ Rehash(id, info[id], p) /\ CanRebalance(bal, info[id], d2)
      /\ bal' = Rebalance(bal, info[id], d2)
      /\ info' = [info EXCEPT ![id] = [d2 EXCEPT !.payload_hash = p]]
  BY DEF ApplyEdit
<1> HIDE DEF d2
<1>5. bal' \in Ledger
  BY <1>1, <1>3, <1>4, RebalanceType DEF SameRecord, PalletInv, TypeOK
<1>6. OwnerLayerSound(info[id])
  BY DEF PalletInv, OwnerLayerIsOwners, OwnerLayerSound, Recorded
<1>7. OwnerLayerSound(d2)
  BY <1>3, <1>6 DEF OwnerLayerSound, OwnerLayerFrom, SameRecord
<1> QED
  BY <1>3, <1>4, <1>5, <1>7 DEF d2

-----------------------------------------------------------------------------
(* Removals and finalizations *)

LEMMA RemoveStep ==
  ASSUME PalletInv, NEW id, Recorded(id), CleanupStorage(id, info[id]),
         bal' \in Ledger, nonce' \in [Users -> Nat], UNCHANGED paramVars,
         batch' \in Seq(RemovalRequest)
  PROVE  PalletInv'
<1> DEFINE old == info[id].payload_hash
<1>1. /\ id \in Ids /\ info[id] \in Deposit_ /\ items[id] = old
      /\ hashes[old] = id /\ old \in Payloads
  BY RecordedFacts
<1>2. /\ items' = [items EXCEPT ![id] = None]
      /\ claims' = claims \ {<<old.ident, id>>}
      /\ hashes' = [hashes EXCEPT ![old] = None]
      /\ info' = [info EXCEPT ![id] = None]
      /\ pending' = pending \ {<<Expiry(info[id]), id>>}
      /\ UNCHANGED <<block, phase, cursor, remaining, probes, due, skipped, nextId>>
      /\ UNCHANGED <<mult, depositBase, perByte>>
      /\ phase = "dispatch"
  BY <1>1 DEF CleanupStorage, Queue!Dequeue, Queue!hookVars, paramVars
<1>3. /\ info' \in [Ids -> Deposit_ \cup {None}] /\ info'[id] = None
      /\ \A i \in Ids : i # id => info'[i] = info[i] /\ items'[i] = items[i]
      /\ items' \in [Ids -> Payloads \cup {None}] /\ items'[id] = None
      /\ hashes' \in [Payloads -> Ids \cup {None}] /\ hashes'[old] = None
      /\ \A q \in Payloads : q # old => hashes'[q] = hashes[q]
  BY <1>1, <1>2 DEF PalletInv, TypeOK
<1>4. \A i : Recorded(i)' <=> Recorded(i) /\ i # id
  BY <1>3 DEF Recorded
<1>5. TypeOK'
  BY <1>2, <1>3 DEF PalletInv, TypeOK, Queue!TypeOK
<1>6. Fresh'
  BY <1>2, <1>3, <1>4 DEF PalletInv, Fresh, Recorded
<1>7. IndexesAgree'
  <2>1. \A i \in Ids : info'[i] = None <=> items'[i] = None
    BY <1>3 DEF PalletInv, IndexesAgree
  <2>2. \A i \in Ids : Recorded(i)' =>
          info'[i].payload_hash = items'[i] /\ hashes'[items'[i]] = i
    <3> SUFFICES ASSUME NEW i \in Ids, Recorded(i), i # id
                 PROVE  info'[i].payload_hash = items'[i] /\ hashes'[items'[i]] = i
      BY <1>4
    <3>1. /\ info[i].payload_hash = items[i] /\ hashes[items[i]] = i
          /\ items[i] \in Payloads
      BY RecordedFacts
    <3>2. items[i] # old
      BY <1>1, <3>1
    <3> QED
      BY <1>3, <3>1, <3>2
  <2>3. \A q \in Payloads : hashes'[q] # None => items'[hashes'[q]] = q
    <3> SUFFICES ASSUME NEW q \in Payloads, hashes'[q] # None
                 PROVE  items'[hashes'[q]] = q
      OBVIOUS
    <3>1. q # old
      BY <1>3
    <3>2. hashes[q] # None /\ hashes[q] \in Ids /\ items[hashes[q]] = q
      BY <1>3, <3>1 DEF PalletInv, IndexesAgree, TypeOK
    <3>3. hashes[q] # id
      BY <1>1, <3>1, <3>2
    <3> QED
      BY <1>3, <3>1, <3>2, <3>3
  <2>4. claims' = {<<items'[i].ident, i>> : i \in {j \in Ids : Recorded(j)'}}
    <3>1. claims = {<<items[i].ident, i>> : i \in {j \in Ids : Recorded(j)}}
      BY DEF PalletInv, IndexesAgree
    <3> QED
      BY <1>1, <1>2, <1>3, <1>4, <3>1
  <2> QED
    BY <2>1, <2>2, <2>3, <2>4 DEF IndexesAgree, Recorded
<1>8. LiveIds' = LiveIds \ {id} /\ \A i \in LiveIds' : info'[i] = info[i]
  BY <1>3 DEF LiveIds
<1>9. QueueMatchesRecords'
  BY <1>2, <1>8 DEF PalletInv, QueueMatchesRecords, Expiry
<1>10. DueElapsed'
  BY <1>2 DEF PalletInv, DueElapsed
<1>11. NeverFinalizedEarly'
  BY <1>2, <1>3, <1>4 DEF PalletInv, NeverFinalizedEarly, InWindow, Elapsed
<1>12. OwnerLayerIsOwners'
  BY <1>3, <1>4 DEF PalletInv, OwnerLayerIsOwners, HasOwnerLayer
<1> QED
  BY <1>5, <1>6, <1>7, <1>9, <1>10, <1>11, <1>12 DEF PalletInv

LEMMA FinalizeStep ==
  ASSUME PalletInv, NEW id, DoFinalize(id), ~InWindow(info[id]),
         pending' = pending \ {<<Expiry(info[id]), id>>},
         due' \subseteq due, UNCHANGED <<block, phase, cursor, remaining, probes, skipped>>
  PROVE  PalletInv'
<1> DEFINE new == [info[id] EXCEPT !.finalized = TRUE]
<1>1. /\ Recorded(id) /\ ~info[id].finalized
      /\ CanSettleBond(bal, info[id], "Full")
      /\ bal' = SettleBond(bal, info[id], "Full")
      /\ info' = [info EXCEPT ![id] = new]
      /\ UNCHANGED <<nextId, items, claims, hashes, nonce, mult, depositBase, perByte, batch>>
  BY DEF DoFinalize, CanFinalize, paramVars
<1>2. id \in Ids /\ info[id] \in Deposit_
  BY <1>1, RecordedFacts
<1>3. /\ new \in Deposit_ /\ new # None /\ new.finalized = TRUE
      /\ new.deposited_at = info[id].deposited_at
      /\ new.payload_hash = info[id].payload_hash
      /\ new.depositor = info[id].depositor
      /\ new.sponsor_layer = info[id].sponsor_layer
      /\ new.owner_layer = info[id].owner_layer
  BY <1>2, NoneIsNotADeposit DEF Deposit_
<1> HIDE DEF new
<1>4. /\ info' \in [Ids -> Deposit_ \cup {None}] /\ info'[id] = new
      /\ \A i \in Ids : i # id => info'[i] = info[i]
  BY <1>1, <1>2, <1>3 DEF PalletInv, TypeOK
<1>5. \A i : Recorded(i)' <=> Recorded(i)
  BY <1>1, <1>3, <1>4 DEF Recorded
<1>6. TypeOK'
  <2>1. bal' \in Ledger
    BY <1>1, <1>2, SettleBondType DEF PalletInv, TypeOK, SettlementKind
  <2>2. Queue!TypeOK'
    BY DEF PalletInv, TypeOK, Queue!TypeOK
  <2> QED
    BY <1>1, <1>4, <2>1, <2>2 DEF PalletInv, TypeOK
<1>7. Fresh'
  BY <1>1, <1>5 DEF PalletInv, Fresh, Recorded
<1>8. IndexesAgree'
  <2>1. \A i \in Ids : info'[i] = None <=> items'[i] = None
    BY <1>1, <1>3, <1>4 DEF PalletInv, IndexesAgree, Recorded
  <2>2. \A i \in Ids : Recorded(i)' =>
          info'[i].payload_hash = items'[i] /\ hashes'[items'[i]] = i
    BY <1>1, <1>3, <1>4, <1>5 DEF PalletInv, IndexesAgree
  <2> QED
    BY <1>1, <1>5, <2>1, <2>2 DEF PalletInv, IndexesAgree, Recorded
<1>9. LiveIds' = LiveIds \ {id} /\ \A i \in LiveIds' : info'[i] = info[i]
  BY <1>3, <1>4 DEF LiveIds
<1>10. QueueMatchesRecords'
  BY <1>9 DEF PalletInv, QueueMatchesRecords, Expiry
<1>11. DueElapsed'
  BY <1>9 DEF PalletInv, DueElapsed, Expiry
<1>12. NeverFinalizedEarly'
  BY <1>3, <1>4, <1>5 DEF PalletInv, NeverFinalizedEarly, InWindow, Elapsed
<1>13. OwnerLayerIsOwners'
  BY <1>1, <1>3, <1>4, <1>5 DEF PalletInv, OwnerLayerIsOwners, HasOwnerLayer
<1> QED
  BY <1>6, <1>7, <1>8, <1>10, <1>11, <1>12, <1>13 DEF PalletInv

-----------------------------------------------------------------------------
(* Every step keeps the invariant *)

LEMMA ConsumeType ==
  ASSUME PalletInv, NEW sig \in Signed, Consume(sig)
  PROVE  /\ nonce' \in [Users -> Nat]
         /\ sig.owner \in Users /\ sig.operator \in Users
         /\ sig.item \in Payloads /\ sig.id \in Ids
BY MiddsAssumption DEF Authorization, Consume, PalletInv, TypeOK

\* The queue module's cardinality is the one this module's lemmas are about.
LEMMA SameCardinality ==
  ASSUME NEW S
  PROVE  Queue!Cardinality(S) = Cardinality(S)
BY DEF Queue!Cardinality, Cardinality

\* A probe takes ids of the cursor's prefix, no more than the budget allows.
LEMMA ProbeFacts ==
  ASSUME PalletInv, Queue!ProbePrefix
  PROVE  /\ Queue!TypeOK'
         /\ \A id \in due' : <<cursor, id>> \in pending
         /\ cursor <= block
<1>1. PICK ids \in Queue!Takes(cursor) :
        /\ due' = ids
        /\ remaining' = remaining - Cardinality(ids)
        /\ probes' = probes - 1
        /\ cursor' = IF remaining - Cardinality(ids) > 0 /\ probes - 1 > 0
                       THEN cursor + 1
                       ELSE cursor
  BY SameCardinality DEF Queue!ProbePrefix
<1>2. /\ ids \in SUBSET Queue!Prefix(cursor)
      /\ \/ ids = Queue!Prefix(cursor) /\ Cardinality(ids) <= remaining
         \/ Cardinality(ids) = remaining
  BY SameCardinality DEF Queue!Takes
<1>3. IsFiniteSet(Ids)
  BY FS_Interval, MiddsAssumption DEF Ids
<1>4. ids \in SUBSET Ids
  BY <1>2 DEF Queue!Prefix
<1>5. Cardinality(ids) \in Nat
  BY <1>3, <1>4, FS_Subset, FS_CardinalityType
<1>6. /\ UNCHANGED <<block, phase, pending, skipped>>
      /\ cursor <= block /\ remaining > 0 /\ probes > 0
  BY DEF Queue!ProbePrefix, Queue!Scanning
<1>7. Queue!TypeOK
  BY DEF PalletInv, TypeOK
<1>8. remaining' \in Nat /\ probes' \in Nat /\ cursor' \in Nat
  BY <1>1, <1>2, <1>5, <1>6, <1>7 DEF Queue!TypeOK
<1>9. Queue!TypeOK'
  BY <1>1, <1>4, <1>6, <1>7, <1>8 DEF Queue!TypeOK
<1> QED
  BY <1>1, <1>2, <1>6, <1>9 DEF Queue!Prefix

LEMMA RemoveOwnStep ==
  ASSUME PalletInv, NEW id, Dispatching, DoRemoveOwn(id), nonce' \in [Users -> Nat]
  PROVE  PalletInv'
<1>1. /\ Recorded(id) /\ CanSettleBond(bal, info[id], "PremiumOnly")
      /\ bal' = SettleBond(bal, info[id], "PremiumOnly")
      /\ CleanupStorage(id, info[id])
      /\ UNCHANGED <<paramVars, batch>>
  BY DEF DoRemoveOwn
<1>2. bal' \in Ledger
  BY <1>1, RecordedFacts, SettleBondType DEF PalletInv, TypeOK, SettlementKind
<1> QED
  BY <1>1, <1>2, RemoveStep DEF PalletInv, TypeOK

LEMMA ForceRemoveStep ==
  ASSUME PalletInv, NEW id, NEW kind, DoForceRemove(id, kind),
         nonce' \in [Users -> Nat], UNCHANGED paramVars, batch' \in Seq(RemovalRequest)
  PROVE  PalletInv'
<1> DEFINE k == IF kind = "Refund" THEN "Refund" ELSE "Full"
<1>1. /\ Recorded(id)
      /\ ~info[id].finalized => CanSettleBond(bal, info[id], k)
      /\ bal' = IF info[id].finalized THEN bal ELSE SettleBond(bal, info[id], k)
      /\ CleanupStorage(id, info[id])
  BY DEF DoForceRemove, CanForceRemove
<1>2. k \in SettlementKind
  BY DEF SettlementKind
<1>3. bal \in Ledger /\ info[id] \in Deposit_
  BY <1>1, RecordedFacts DEF PalletInv, TypeOK
<1> HIDE DEF k
<1>4. bal' \in Ledger
  BY <1>1, <1>2, <1>3, SettleBondType
<1> QED
  BY <1>1, <1>4, RemoveStep

\* A collected record that is still live is past its window.
LEMMA CollectedIsPastWindow ==
  ASSUME PalletInv, NEW id \in due, Recorded(id), ~info[id].finalized
  PROVE  ~InWindow(info[id])
<1>1. Expiry(info[id]) <= block
  BY DEF PalletInv, DueElapsed, LiveIds, Recorded
<1>2. info[id].deposited_at \in Nat /\ block \in Nat
  BY RecordedFacts DEF Deposit_, PalletInv, TypeOK, Queue!TypeOK
<1> QED
  BY <1>1, <1>2, MiddsAssumption DEF Expiry, InWindow, Elapsed

LEMMA FinalizeDueStep ==
  ASSUME PalletInv, NEW id, FinalizeDue(id)
  PROVE  PalletInv'
<1>1. CASE DoFinalize(id) /\ Queue!FinalizeOk(Expiry(info[id]), id)
  <2>1. id \in due /\ Recorded(id) /\ ~info[id].finalized
    BY <1>1 DEF DoFinalize, CanFinalize, Queue!FinalizeOk
  <2>2. ~InWindow(info[id])
    BY <2>1, CollectedIsPastWindow
  <2>3. /\ pending' = pending \ {<<Expiry(info[id]), id>>}
        /\ due' \subseteq due
        /\ UNCHANGED <<block, phase, cursor, remaining, probes, skipped>>
    BY <1>1 DEF Queue!FinalizeOk
  <2> QED
    BY <1>1, <2>2, <2>3, FinalizeStep
<1>2. CASE /\ Queue!FinalizeErr(id)
           /\ UNCHANGED <<recordVars, nonce, bal, paramVars, batch>>
  <2>1. /\ phase = "hook" /\ id \in due /\ due' = due \ {id}
        /\ skipped' = skipped \cup {id}
        /\ UNCHANGED <<block, phase, cursor, remaining, probes, pending>>
    BY <1>2 DEF Queue!FinalizeErr
  <2>2. UNCHANGED <<nextId, items, claims, hashes, info>> /\ UNCHANGED recordVars
        /\ UNCHANGED <<nonce, bal, mult, depositBase, perByte, batch>>
    BY <1>2 DEF recordVars, paramVars
  <2>3. Queue!TypeOK'
    BY <2>1 DEF PalletInv, TypeOK, Queue!TypeOK
  <2>4. DueElapsed'
    BY <2>1, <2>2 DEF PalletInv, DueElapsed, LiveIds, Expiry
  <2>5. block' \in Nat /\ block' >= block /\ mult' \in Multipliers
    BY <2>1, <2>2 DEF PalletInv, TypeOK, Queue!TypeOK
  <2> QED
    BY <2>1, <2>2, <2>3, <2>4, <2>5, HookIdle
<1> QED
  BY <1>1, <1>2 DEF FinalizeDue

LEMMA StepInv == PalletInv /\ [Next]_vars => PalletInv'
<1> SUFFICES ASSUME PalletInv, [Next]_vars PROVE PalletInv'
  OBVIOUS
<1>0. TypeOK /\ Queue!TypeOK /\ bal \in Ledger /\ nonce \in [Users -> Nat]
      /\ mult \in Multipliers /\ depositBase \in BaseChoices
      /\ perByte \in PerByteChoices /\ batch \in Seq(RemovalRequest)
      /\ block \in Nat
  BY DEF PalletInv, TypeOK, Queue!TypeOK
<1>1. ASSUME NEW who \in Users, NEW p \in Payloads, Deposit(who, p) PROVE PalletInv'
  BY <1>0, <1>1, DepositStep DEF Deposit
<1>2. ASSUME NEW sig \in Signed, DepositOnBehalf(sig) PROVE PalletInv'
  BY <1>2, ConsumeType, DepositStep DEF DepositOnBehalf
<1>3. ASSUME NEW who \in Users, NEW id \in Ids, NEW p \in Payloads, Update(who, id, p)
      PROVE  PalletInv'
  BY <1>0, <1>3, ApplyEditFacts, EditStep DEF Update
<1>4. ASSUME NEW sig \in Signed, UpdateOnBehalf(sig) PROVE PalletInv'
  BY <1>4, ConsumeType, ApplyEditFacts, EditStep DEF UpdateOnBehalf
<1>5. ASSUME NEW who \in Users, NEW id \in Ids, RemoveOwn(who, id) PROVE PalletInv'
  BY <1>0, <1>5, RemoveOwnStep DEF RemoveOwn
<1>6. ASSUME NEW sig \in Signed, RemoveOwnOnBehalf(sig) PROVE PalletInv'
  BY <1>6, ConsumeType, RemoveOwnStep DEF RemoveOwnOnBehalf
<1>7. ASSUME NEW id \in Ids, Finalize(id) PROVE PalletInv'
  <2>1. /\ Recorded(id) /\ ~InWindow(info[id]) /\ DoFinalize(id)
        /\ pending' = pending \ {<<Expiry(info[id]), id>>}
        /\ due' \subseteq due
        /\ UNCHANGED <<block, phase, cursor, remaining, probes, skipped>>
    <3>1. info[id].deposited_at \in Nat
      BY <1>7, RecordedFacts DEF Finalize, Deposit_
    <3> QED
      BY <1>0, <1>7, <3>1, MiddsAssumption
      DEF Finalize, Queue!Dequeue, Queue!hookVars, InWindow, Elapsed
  <2> QED
    BY <2>1, FinalizeStep
<1>8. ASSUME NEW id \in Ids, NEW p \in Payloads, ForceEdit(id, p) PROVE PalletInv'
  <2>1. /\ Recorded(id) /\ IdentifierUnchanged(id, p) /\ EditFrame
        /\ nonce' \in [Users -> Nat] /\ info[id] \in Deposit_
    BY <1>0, <1>8, RecordedFacts DEF ForceEdit
  <2>2. CASE ApplyFinalizedEdit(id, p, info[id])
    <3>1. SameRecord(info[id], info[id])
      BY <2>1 DEF SameRecord
    <3>2. OwnerLayerSound(info[id])
      BY <2>1 DEF PalletInv, OwnerLayerIsOwners, OwnerLayerSound, Recorded
    <3>3. /\ Rehash(id, info[id], p) /\ bal' \in Ledger
          /\ info' = [info EXCEPT ![id] = [info[id] EXCEPT !.payload_hash = p]]
      BY <1>0, <2>2 DEF ApplyFinalizedEdit
    <3> QED
      BY <2>1, <3>1, <3>2, <3>3, EditStep
  <2>3. CASE ApplyEdit(id, p, info[id], info[id].sponsor_layer.payer)
    <3>1. info[id].sponsor_layer.payer \in Users
      BY <2>1, LayerKinds DEF Layer
    <3> QED
      BY <2>1, <2>3, <3>1, ApplyEditFacts, EditStep
  <2> QED
    BY <1>8, <2>2, <2>3 DEF ForceEdit
<1>9. ASSUME NEW id \in Ids, NEW kind, ForceRemove(id, kind) PROVE PalletInv'
  BY <1>0, <1>9, ForceRemoveStep DEF ForceRemove
<1>10. ASSUME NEW reqs \in Requests, ForceRemoveMany(reqs) PROVE PalletInv'
  <2>1. reqs \in Seq(RemovalRequest)
    BY MiddsAssumption DEF Requests
  <2>2. /\ UNCHANGED <<queueVars, recordVars>> /\ batch' = reqs
        /\ UNCHANGED <<nonce, bal, mult, depositBase, perByte>>
    BY <1>10 DEF ForceRemoveMany, paramVars
  <2> QED
    BY <1>0, <2>1, <2>2, IdleStep
<1>11. CASE BatchStep
  <2>1. batch' \in Seq(RemovalRequest) /\ nonce' = nonce
        /\ UNCHANGED paramVars /\ UNCHANGED <<mult, depositBase, perByte>>
    BY <1>0, <1>11 DEF BatchStep, paramVars
  <2>2. CASE DoForceRemove(Head(batch).id, Head(batch).kind)
    BY <1>0, <2>1, <2>2, ForceRemoveStep
  <2>3. CASE UNCHANGED <<queueVars, recordVars, bal>>
    BY <1>0, <2>1, <2>3, IdleStep
  <2> QED
    BY <1>11, <2>2, <2>3 DEF BatchStep
<1>12. ASSUME NEW new \in BaseChoices, ForceSetDepositBase(new) PROVE PalletInv'
  BY <1>0, <1>12, IdleStep DEF ForceSetDepositBase
<1>13. ASSUME NEW new \in PerByteChoices, ForceSetDepositPerByte(new) PROVE PalletInv'
  BY <1>0, <1>13, IdleStep DEF ForceSetDepositPerByte
<1>14. ASSUME NEW from \in Accounts, NEW to \in Accounts, NEW n \in TransferAmounts,
              ExternalTransfer(from, to, n)
       PROVE  PalletInv'
  <2>1. bal' \in Ledger
    BY <1>0, <1>14, TransferType, MiddsAssumption DEF ExternalTransfer
  <2>2. /\ UNCHANGED <<queueVars, recordVars>>
        /\ UNCHANGED <<nonce, mult, depositBase, perByte, batch>>
    BY <1>14 DEF ExternalTransfer, paramVars
  <2> QED
    BY <1>0, <2>1, <2>2, IdleStep
<1>15. CASE BeginBlock
  <2>1. /\ phase = "dispatch" /\ block' = block + 1 /\ phase' = "hook"
        /\ remaining' = Cap /\ probes' = Cap /\ mult' \in Multipliers
        /\ UNCHANGED <<cursor, due, pending, skipped>>
        /\ UNCHANGED <<recordVars, nonce, bal, depositBase, perByte, batch>>
    BY <1>15 DEF BeginBlock, Queue!BeginBlock
  <2>2. Queue!TypeOK' /\ block' >= block /\ block' \in Nat
    BY <1>0, <2>1, MiddsAssumption DEF Queue!TypeOK
  <2>3. DueElapsed'
    BY <2>1 DEF PalletInv, DueElapsed
  <2> QED
    BY <2>1, <2>2, <2>3, HookIdle
<1>16. CASE ProbePrefix
  <2>1. /\ Queue!ProbePrefix /\ UNCHANGED <<block, phase, pending, skipped>>
        /\ phase = "hook"
        /\ UNCHANGED recordVars /\ UNCHANGED info
        /\ UNCHANGED <<nonce, bal, mult, depositBase, perByte, batch>>
    BY <1>16 DEF ProbePrefix, Queue!ProbePrefix, paramVars, recordVars
  <2>2. DueElapsed'
    <3> SUFFICES ASSUME NEW id \in due', id \in LiveIds
                 PROVE  Expiry(info[id]) <= block
      BY <2>1 DEF DueElapsed, LiveIds, Expiry
    <3>1. <<cursor, id>> \in pending /\ cursor <= block
      BY <2>1, ProbeFacts
    <3>2. cursor = Expiry(info[id])
      BY <3>1 DEF PalletInv, QueueMatchesRecords
    <3> QED
      BY <3>1, <3>2
  <2> QED
    BY <1>0, <2>1, <2>2, ProbeFacts, HookIdle
<1>17. ASSUME NEW id \in Ids, FinalizeDue(id) PROVE PalletInv'
  BY <1>17, FinalizeDueStep
<1>18. CASE EndHook
  <2>1. /\ phase' = "dispatch" /\ due = {}
        /\ UNCHANGED <<block, cursor, remaining, probes, due, pending, skipped>>
        /\ UNCHANGED recordVars
        /\ UNCHANGED <<nonce, bal, mult, depositBase, perByte, batch>>
    BY <1>18 DEF EndHook, Queue!EndHook, paramVars
  <2>2. Queue!TypeOK' /\ DueElapsed'
    BY <1>0, <2>1 DEF Queue!TypeOK, DueElapsed
  <2> QED
    BY <1>0, <2>1, <2>2, HookIdle
<1>19. CASE UNCHANGED vars
  BY <1>0, <1>19, IdleStep DEF vars, paramVars
<1> QED
  BY <1>1, <1>2, <1>3, <1>4, <1>5, <1>6, <1>7, <1>8, <1>9, <1>10, <1>11, <1>12,
     <1>13, <1>14, <1>15, <1>16, <1>17, <1>18, <1>19
  DEF Next

LEMMA InvHolds == Spec => []PalletInv
BY InitInv, StepInv, PTL DEF Spec

-----------------------------------------------------------------------------
(* What the specification guarantees in every state *)

\* Every balance stays a natural number, every map keeps its shape, and the
\* batch and the hook keep theirs: no call of impls.rs takes more out of a
\* hold than is in it.
THEOREM TypeCorrect == Spec => []TypeOK
<1>1. PalletInv => TypeOK
  BY DEF PalletInv
<1> QED
  BY <1>1, InvHolds, PTL

\* Items, IdentifierClaims, PayloadHashes and DepositInfo always describe the
\* same records.
THEOREM IndexesAlwaysAgree == Spec => []IndexesAgree
<1>1. PalletInv => IndexesAgree
  BY DEF PalletInv
<1> QED
  BY <1>1, InvHolds, PTL

\* PendingFinalization holds exactly the records not finalized, each under
\* the key its own deposit block gives.
THEOREM QueueAlwaysMatches == Spec => []QueueMatchesRecords
<1>1. PalletInv => QueueMatchesRecords
  BY DEF PalletInv
<1> QED
  BY <1>1, InvHolds, PTL

\* Neither the hook nor the extrinsic finalizes a record inside its window.
THEOREM NothingFinalizedEarly == Spec => []NeverFinalizedEarly
<1>1. PalletInv => NeverFinalizedEarly
  BY DEF PalletInv
<1> QED
  BY <1>1, InvHolds, PTL

\* Only the owner of a sponsored record ever pays for its owner layer,
\* whoever edits it.
THEOREM OwnerLayerAlwaysOwners == Spec => []OwnerLayerIsOwners
<1>1. PalletInv => OwnerLayerIsOwners
  BY DEF PalletInv
<1> QED
  BY <1>1, InvHolds, PTL

-----------------------------------------------------------------------------
(* What the specification guarantees of every step *)

\* The four ways a step changes the records.
NewRecordFiled ==
  \E d \in Deposit_ :
    /\ nextId \in Ids /\ info[nextId] = None
    /\ info' = [info EXCEPT ![nextId] = d]
    /\ items' = [items EXCEPT ![nextId] = d.payload_hash]
    /\ nextId' = nextId + 1

RecordEdited(id, p, d2) ==
  /\ Recorded(id) /\ p \in Payloads
  /\ SameRecord(info[id], d2)
  /\ IdentifierUnchanged(id, p)
  /\ info' = [info EXCEPT ![id] = [d2 EXCEPT !.payload_hash = p]]
  /\ items' = [items EXCEPT ![id] = p]
  /\ info[id].finalized => d2 = info[id] /\ bal' = bal
  /\ ~info[id].finalized => TotalBase(d2) = ComputeBaseBond(p)
  /\ nextId' = nextId

RecordRemoved(id) ==
  /\ Recorded(id)
  /\ info' = [info EXCEPT ![id] = None]
  /\ items' = [items EXCEPT ![id] = None]
  /\ info[id].finalized => bal' = bal
  /\ nextId' = nextId

RecordFinalized(id) ==
  /\ Recorded(id) /\ ~info[id].finalized
  /\ info' = [info EXCEPT ![id] = [info[id] EXCEPT !.finalized = TRUE]]
  /\ items' = items
  /\ nextId' = nextId

RecordChange ==
  \/ info' = info /\ items' = items /\ nextId' = nextId
  \/ NewRecordFiled
  \/ \E id \in Ids, p \in Payloads, d2 \in Deposit_ : RecordEdited(id, p, d2)
  \/ \E id \in Ids : RecordRemoved(id)
  \/ \E id \in Ids : RecordFinalized(id)

LEMMA ApplyEditChange ==
  ASSUME PalletInv, NEW id, Recorded(id), ~info[id].finalized, NEW p \in Payloads,
         NEW caller \in Users,
         caller \in {info[id].depositor, info[id].sponsor_layer.payer},
         IdentifierUnchanged(id, p), ApplyEdit(id, p, info[id], caller), EditFrame
  PROVE  RecordChange
<1> DEFINE d2 == RouteSizeDelta(info[id], caller, ComputeBaseBond(p), mult)
<1>1. /\ SameRecord(info[id], d2) /\ TotalBase(d2) = ComputeBaseBond(p)
      /\ Rehash(id, info[id], p)
      /\ info' = [info EXCEPT ![id] = [d2 EXCEPT !.payload_hash = p]]
  BY ApplyEditFacts
<1> HIDE DEF d2
<1>2. d2 \in Deposit_ /\ id \in Ids
  BY <1>1 DEF SameRecord, Recorded
<1>3. RecordEdited(id, p, d2)
  BY <1>1 DEF RecordEdited, Rehash, EditFrame
<1> QED
  BY <1>2, <1>3 DEF RecordChange

LEMMA DepositChange ==
  ASSUME PalletInv, NEW depositor \in Users, NEW payer \in Users, NEW p \in Payloads,
         DoDeposit(depositor, payer, p)
  PROVE  RecordChange
<1>1. NewRecord(depositor, payer, p) \in Deposit_
  BY NewRecordType
<1>2. nextId \in Ids /\ info[nextId] = None
  BY MiddsAssumption DEF DoDeposit, PalletInv, Fresh, TypeOK
<1>3. /\ info' = [info EXCEPT ![nextId] = NewRecord(depositor, payer, p)]
      /\ items' = [items EXCEPT ![nextId] = p]
      /\ nextId' = nextId + 1
  BY DEF DoDeposit, NewRecord
<1>4. NewRecord(depositor, payer, p).payload_hash = p
  BY DEF NewRecord
<1> QED
  BY <1>1, <1>2, <1>3, <1>4 DEF RecordChange, NewRecordFiled

LEMMA RemoveChange ==
  ASSUME NEW id, Recorded(id), CleanupStorage(id, info[id]),
         info[id].finalized => bal' = bal
  PROVE  RecordChange
BY DEF CleanupStorage, RecordChange, RecordRemoved, Recorded

LEMMA FinalizeChange ==
  ASSUME NEW id, DoFinalize(id)
  PROVE  RecordChange
BY DEF DoFinalize, CanFinalize, RecordChange, RecordFinalized, Recorded

LEMMA StepChange == PalletInv /\ [Next]_vars => RecordChange
<1> SUFFICES ASSUME PalletInv, [Next]_vars PROVE RecordChange
  OBVIOUS
<1>0. ASSUME UNCHANGED recordVars PROVE RecordChange
  BY <1>0 DEF RecordChange, recordVars
<1>1. ASSUME NEW who \in Users, NEW p \in Payloads, Deposit(who, p) PROVE RecordChange
  BY <1>1, DepositChange DEF Deposit
<1>2. ASSUME NEW sig \in Signed, DepositOnBehalf(sig) PROVE RecordChange
  BY <1>2, ConsumeType, DepositChange DEF DepositOnBehalf
<1>3. ASSUME NEW who \in Users, NEW id \in Ids, NEW p \in Payloads, Update(who, id, p)
      PROVE  RecordChange
  BY <1>3, ApplyEditChange DEF Update
<1>4. ASSUME NEW sig \in Signed, UpdateOnBehalf(sig) PROVE RecordChange
  BY <1>4, ConsumeType, ApplyEditChange DEF UpdateOnBehalf
<1>5. ASSUME NEW who \in Users, NEW id \in Ids, RemoveOwn(who, id) PROVE RecordChange
  BY <1>5, RemoveChange DEF RemoveOwn, DoRemoveOwn
<1>6. ASSUME NEW sig \in Signed, RemoveOwnOnBehalf(sig) PROVE RecordChange
  BY <1>6, RemoveChange DEF RemoveOwnOnBehalf, DoRemoveOwn
<1>7. ASSUME NEW id \in Ids, Finalize(id) PROVE RecordChange
  BY <1>7, FinalizeChange DEF Finalize
<1>8. ASSUME NEW id \in Ids, NEW p \in Payloads, ForceEdit(id, p) PROVE RecordChange
  <2>1. Recorded(id) /\ IdentifierUnchanged(id, p) /\ info[id] \in Deposit_
    BY <1>8, RecordedFacts DEF ForceEdit
  <2>2. CASE info[id].finalized /\ ApplyFinalizedEdit(id, p, info[id])
    <3>1. RecordEdited(id, p, info[id])
      BY <1>8, <2>1, <2>2
      DEF RecordEdited, ApplyFinalizedEdit, Rehash, SameRecord, ForceEdit, EditFrame
    <3> QED
      BY <2>1, <3>1 DEF RecordChange
  <2>3. CASE ~info[id].finalized /\ ApplyEdit(id, p, info[id], info[id].sponsor_layer.payer)
    <3>1. info[id].sponsor_layer.payer \in Users
      BY <2>1, LayerKinds DEF Layer
    <3> QED
      BY <1>8, <2>1, <2>3, <3>1, ApplyEditChange DEF ForceEdit
  <2> QED
    BY <1>8, <2>2, <2>3 DEF ForceEdit
<1>9. ASSUME NEW id, NEW kind, DoForceRemove(id, kind) PROVE RecordChange
  BY <1>9, RemoveChange DEF DoForceRemove, CanForceRemove
<1>10. ASSUME NEW id \in Ids, NEW kind, ForceRemove(id, kind) PROVE RecordChange
  BY <1>9, <1>10 DEF ForceRemove
<1>11. CASE BatchStep
  BY <1>0, <1>9, <1>11 DEF BatchStep
<1>12. ASSUME NEW id \in Ids, FinalizeDue(id) PROVE RecordChange
  BY <1>0, <1>12, FinalizeChange DEF FinalizeDue
<1>13. ASSUME NEW reqs \in Requests, ForceRemoveMany(reqs) PROVE RecordChange
  BY <1>0, <1>13 DEF ForceRemoveMany
<1>14. ASSUME NEW new, ForceSetDepositBase(new) \/ ForceSetDepositPerByte(new)
       PROVE  RecordChange
  BY <1>0, <1>14 DEF ForceSetDepositBase, ForceSetDepositPerByte
<1>15. ASSUME NEW from, NEW to, NEW n, ExternalTransfer(from, to, n) PROVE RecordChange
  BY <1>0, <1>15 DEF ExternalTransfer
<1>16. CASE BeginBlock \/ ProbePrefix \/ EndHook
  BY <1>0, <1>16 DEF BeginBlock, ProbePrefix, EndHook
<1>17. CASE UNCHANGED vars
  BY <1>0, <1>17 DEF vars
<1> QED
  BY <1>1, <1>2, <1>3, <1>4, <1>5, <1>6, <1>7, <1>8, <1>10, <1>11, <1>12,
     <1>13, <1>14, <1>15, <1>16, <1>17
  DEF Next

\* Rewriting a record's payload with the payload it has changes nothing.
LEMMA SamePayload ==
  ASSUME NEW d \in Deposit_
  PROVE  [d EXCEPT !.payload_hash = d.payload_hash] = d
BY DEF Deposit_

\* An edit keeps the identifier its record was filed under.
LEMMA EditKeepsIdentifier ==
  ASSUME PalletInv, NEW id, Recorded(id), NEW p, IdentifierUnchanged(id, p)
  PROVE  p.ident = items[id].ident
<1>1. <<p.ident, id>> \in {<<items[i].ident, i>> : i \in {j \in Ids : Recorded(j)}}
  BY DEF IdentifierUnchanged, PalletInv, IndexesAgree
<1> QED
  BY <1>1

\* The record an edit leaves.
LEMMA EditedRecord ==
  ASSUME PalletInv, NEW id, NEW p, NEW d2, RecordEdited(id, p, d2)
  PROVE  /\ id \in Ids
         /\ items'[id] = p
         /\ info'[id] \in Deposit_
         /\ info'[id].depositor = info[id].depositor
         /\ info'[id].deposited_at = info[id].deposited_at
         /\ info'[id].sponsor_layer = d2.sponsor_layer
         /\ info'[id].owner_layer = d2.owner_layer
         /\ SameRecord(info[id], d2)
         /\ Recorded(id) /\ IdentifierUnchanged(id, p)
         /\ info[id].finalized => d2 = info[id] /\ bal' = bal
         /\ ~info[id].finalized => TotalBase(d2) = ComputeBaseBond(p)
         /\ \A i \in Ids : i # id => info'[i] = info[i] /\ items'[i] = items[i]
<1>1. id \in Ids /\ d2 \in Deposit_ /\ p \in Payloads
  BY DEF RecordEdited, Recorded, SameRecord
<1>2. /\ items'[id] = p /\ info'[id] = [d2 EXCEPT !.payload_hash = p]
      /\ \A i \in Ids : i # id => info'[i] = info[i] /\ items'[i] = items[i]
  BY <1>1 DEF RecordEdited, PalletInv, TypeOK
<1>3. /\ SameRecord(info[id], d2) /\ Recorded(id) /\ IdentifierUnchanged(id, p)
      /\ info[id].finalized => d2 = info[id] /\ bal' = bal
      /\ ~info[id].finalized => TotalBase(d2) = ComputeBaseBond(p)
  BY DEF RecordEdited
<1> DEFINE new == [d2 EXCEPT !.payload_hash = p]
<1>4. /\ new \in Deposit_
      /\ new.depositor = d2.depositor /\ new.deposited_at = d2.deposited_at
      /\ new.sponsor_layer = d2.sponsor_layer /\ new.owner_layer = d2.owner_layer
  BY <1>1, WithHashFacts
<1>5. d2.depositor = info[id].depositor /\ d2.deposited_at = info[id].deposited_at
  BY <1>3 DEF SameRecord
<1> HIDE DEF new
<1>6. info'[id] = new
  BY <1>2 DEF new
<1> QED
  BY <1>1, <1>2, <1>3, <1>4, <1>5, <1>6 DEF new

\* Every other change touches at most the record it is about, and never a
\* layer.
LEMMA OtherChanges ==
  ASSUME PalletInv, RecordChange, NEW id \in Ids, Recorded(id), Recorded(id)',
         ~\E p \in Payloads, d2 \in Deposit_ : RecordEdited(id, p, d2)
  PROVE  /\ items'[id] = items[id]
         /\ \/ info'[id] = info[id]
            \/ ~info[id].finalized /\ info'[id] = [info[id] EXCEPT !.finalized = TRUE]
<1>0. info \in [Ids -> Deposit_ \cup {None}] /\ items \in [Ids -> Payloads \cup {None}]
  BY DEF PalletInv, TypeOK
<1>1. CASE info' = info /\ items' = items
  BY <1>1
<1>2. CASE NewRecordFiled
  <2>1. id # nextId
    BY <1>2 DEF NewRecordFiled, Recorded
  <2> QED
    BY <1>0, <1>2, <2>1 DEF NewRecordFiled
<1>3. ASSUME NEW i \in Ids, NEW p \in Payloads, NEW d2 \in Deposit_, RecordEdited(i, p, d2)
      PROVE  info'[id] = info[id] /\ items'[id] = items[id]
  <2>1. i # id
    BY <1>3
  <2> QED
    BY <1>3, <2>1, EditedRecord
<1>4. ASSUME NEW i \in Ids, RecordRemoved(i)
      PROVE  info'[id] = info[id] /\ items'[id] = items[id]
  BY <1>0, <1>4 DEF RecordRemoved, Recorded
<1>5. ASSUME NEW i \in Ids, RecordFinalized(i)
      PROVE  /\ items'[id] = items[id]
             /\ \/ info'[id] = info[id]
                \/ /\ ~info[id].finalized
                   /\ info'[id] = [info[id] EXCEPT !.finalized = TRUE]
  BY <1>0, <1>5 DEF RecordFinalized
<1> QED
  BY <1>1, <1>2, <1>3, <1>4, <1>5 DEF RecordChange

\* What finalization leaves of a record.
LEMMA FinalizedRecord ==
  ASSUME NEW d \in Deposit_
  PROVE  LET d2 == [d EXCEPT !.finalized = TRUE]
         IN /\ d2.depositor = d.depositor /\ d2.deposited_at = d.deposited_at
            /\ d2.sponsor_layer = d.sponsor_layer /\ d2.owner_layer = d.owner_layer
BY DEF Deposit_

\* A record present before and after a step keeps its attribution, its
\* identifier and the premiums of its layers.
LEMMA RecordKept ==
  ASSUME PalletInv, RecordChange, NEW id \in Ids, Recorded(id), Recorded(id)'
  PROVE  /\ info'[id].depositor = info[id].depositor
         /\ info'[id].deposited_at = info[id].deposited_at
         /\ info'[id].sponsor_layer.payer = info[id].sponsor_layer.payer
         /\ items'[id].ident = items[id].ident
         /\ Premium(info'[id].sponsor_layer) = Premium(info[id].sponsor_layer)
         /\ HasOwnerLayer(info[id]) =>
              /\ HasOwnerLayer(info'[id])
              /\ Premium(info'[id].owner_layer) = Premium(info[id].owner_layer)
<1>1. ASSUME NEW p \in Payloads, NEW d2 \in Deposit_, RecordEdited(id, p, d2)
      PROVE  /\ info'[id].depositor = info[id].depositor
             /\ info'[id].deposited_at = info[id].deposited_at
             /\ info'[id].sponsor_layer = d2.sponsor_layer
             /\ info'[id].owner_layer = d2.owner_layer
             /\ items'[id].ident = items[id].ident
             /\ SameRecord(info[id], d2)
  BY <1>1, EditedRecord, EditKeepsIdentifier
<1>2. CASE \E p \in Payloads, d2 \in Deposit_ : RecordEdited(id, p, d2)
  <2>1. PICK p \in Payloads, d2 \in Deposit_ : RecordEdited(id, p, d2)
    BY <1>2
  <2> QED
    BY <1>1, <2>1 DEF SameRecord, HasOwnerLayer
<1>3. CASE ~\E p \in Payloads, d2 \in Deposit_ : RecordEdited(id, p, d2)
  <2>1. /\ items'[id] = items[id]
        /\ \/ info'[id] = info[id]
           \/ info'[id] = [info[id] EXCEPT !.finalized = TRUE]
    BY <1>3, OtherChanges
  <2>2. info[id] \in Deposit_
    BY RecordedFacts
  <2>3. /\ info'[id].depositor = info[id].depositor
        /\ info'[id].deposited_at = info[id].deposited_at
        /\ info'[id].sponsor_layer = info[id].sponsor_layer
        /\ info'[id].owner_layer = info[id].owner_layer
    BY <2>1, <2>2, FinalizedRecord
  <2> QED
    BY <2>1, <2>3 DEF HasOwnerLayer
<1> QED
  BY <1>2, <1>3

\* The premium the deposit-time multipliers took survives every edit, by
\* whoever it is made.
THEOREM PremiumIsSticky == Spec => PremiumSticky
<1>1. PalletInv /\ [Next]_vars => PremiumKept
  BY StepChange, RecordKept DEF PremiumKept
<1> QED
  BY <1>1, InvHolds, PTL DEF Spec, PremiumSticky

\* Ids are never reused, and a record's owner, sponsor, deposit block and
\* identifier never change.
THEOREM AttributionIsImmutable == Spec => AttributionImmutable
<1>1. ASSUME PalletInv, RecordChange, NEW id \in Ids, id < nextId, ~Recorded(id)
      PROVE  ~Recorded(id)'
  <2>1. id # nextId
    BY <1>1, MiddsAssumption DEF Ids, PalletInv, TypeOK
  <2>2. info \in [Ids -> Deposit_ \cup {None}]
    BY <1>1 DEF PalletInv, TypeOK
  <2>3. ASSUME NEW i \in Ids, NEW p \in Payloads, NEW d2 \in Deposit_,
               RecordEdited(i, p, d2)
        PROVE  info'[id] = info[id]
    <3>1. i # id
      BY <1>1, <2>3, EditedRecord
    <3> QED
      BY <1>1, <2>3, <3>1, EditedRecord
  <2>4. CASE info' = info \/ NewRecordFiled
    BY <1>1, <2>1, <2>2, <2>4 DEF NewRecordFiled, Recorded
  <2>5. ASSUME NEW i \in Ids, RecordRemoved(i) \/ RecordFinalized(i)
        PROVE  ~Recorded(id)'
    BY <1>1, <2>2, <2>5 DEF RecordRemoved, RecordFinalized, Recorded
  <2> QED
    BY <1>1, <2>3, <2>4, <2>5 DEF RecordChange, Recorded
<1>2. PalletInv /\ [Next]_vars => AttributionKept
  BY <1>1, StepChange, RecordKept DEF AttributionKept
<1> QED
  BY <1>2, InvHolds, PTL DEF Spec, AttributionImmutable

\* No call but the force origin's is accepted about a finalized record.
LEMMA FinalizedIsClosed ==
  ASSUME NEW id \in Ids, info[id].finalized
  PROVE  ~CalledOn(id)
<1>1. ASSUME NEW who \in Users PROVE ~RemoveOwn(who, id)
  BY DEF RemoveOwn, DoRemoveOwn
<1>2. ASSUME NEW who \in Users, NEW p \in Payloads PROVE ~Update(who, id, p)
  BY DEF Update
<1>3. ASSUME NEW sig \in Signed, sig.id = id
      PROVE  ~UpdateOnBehalf(sig) /\ ~RemoveOwnOnBehalf(sig)
  BY <1>3 DEF UpdateOnBehalf, RemoveOwnOnBehalf, DoRemoveOwn
<1>4. ~Finalize(id)
  BY DEF Finalize, DoFinalize, CanFinalize
<1> QED
  BY <1>1, <1>2, <1>3, <1>4 DEF CalledOn

\* A step that changes a finalized record is one the force origin takes on it.
LEMMA ChangeIsForced ==
  ASSUME PalletInv, [Next]_vars, NEW id \in Ids, Recorded(id), info[id].finalized,
         info'[id] # info[id]
  PROVE  ForcedOn(id)
<1> SUFFICES ASSUME ~ForcedOn(id) PROVE info'[id] = info[id]
  OBVIOUS
<1>0. info \in [Ids -> Deposit_ \cup {None}] /\ nextId # id
  <2>1. id \in Nat /\ id < nextId
    BY RecordedFacts
  <2>2. info \in [Ids -> Deposit_ \cup {None}] /\ nextId \in 0 .. MaxRecords
    BY DEF PalletInv, TypeOK
  <2> QED
    BY <2>1, <2>2, MiddsAssumption
<1>1. ASSUME NEW depositor, NEW payer, NEW p, DoDeposit(depositor, payer, p)
      PROVE  info'[id] = info[id]
  BY <1>0, <1>1 DEF DoDeposit
<1>2. ASSUME NEW i, NEW p, NEW caller, i # id, ApplyEdit(i, p, info[i], caller)
      PROVE  info'[id] = info[id]
  BY <1>0, <1>2 DEF ApplyEdit
<1>3. ASSUME NEW i, i # id, CleanupStorage(i, info[i])
      PROVE  info'[id] = info[id]
  BY <1>0, <1>3 DEF CleanupStorage
<1>4. ASSUME NEW i, DoFinalize(i) PROVE info'[id] = info[id]
  <2>1. i # id
    BY <1>4 DEF DoFinalize, CanFinalize
  <2> QED
    BY <1>0, <1>4, <2>1 DEF DoFinalize
<1>5. ASSUME NEW i, DoRemoveOwn(i) PROVE info'[id] = info[id]
  <2>1. i # id
    BY <1>5 DEF DoRemoveOwn
  <2> QED
    BY <1>3, <1>5, <2>1 DEF DoRemoveOwn
<1>6. ASSUME NEW who \in Users, NEW p \in Payloads, Deposit(who, p) PROVE info'[id] = info[id]
  BY <1>1, <1>6 DEF Deposit
<1>7. ASSUME NEW sig \in Signed, DepositOnBehalf(sig) PROVE info'[id] = info[id]
  BY <1>1, <1>7 DEF DepositOnBehalf
<1>8. ASSUME NEW who \in Users, NEW i \in Ids, NEW p \in Payloads, Update(who, i, p)
      PROVE  info'[id] = info[id]
  <2>1. i # id
    BY <1>8 DEF Update
  <2> QED
    BY <1>2, <1>8, <2>1 DEF Update
<1>9. ASSUME NEW sig \in Signed, UpdateOnBehalf(sig) PROVE info'[id] = info[id]
  <2>1. sig.id # id
    BY <1>9 DEF UpdateOnBehalf
  <2> QED
    BY <1>2, <1>9, <2>1 DEF UpdateOnBehalf
<1>10. ASSUME NEW who \in Users, NEW i \in Ids, RemoveOwn(who, i) PROVE info'[id] = info[id]
  BY <1>5, <1>10 DEF RemoveOwn
<1>11. ASSUME NEW sig \in Signed, RemoveOwnOnBehalf(sig) PROVE info'[id] = info[id]
  BY <1>5, <1>11 DEF RemoveOwnOnBehalf
<1>12. ASSUME NEW i \in Ids, Finalize(i) PROVE info'[id] = info[id]
  BY <1>4, <1>12 DEF Finalize
<1>13. ASSUME NEW i \in Ids, NEW p \in Payloads, ForceEdit(i, p) PROVE info'[id] = info[id]
  <2>1. i # id
    BY <1>13 DEF ForcedOn
  <2>2. CASE ApplyFinalizedEdit(i, p, info[i])
    BY <1>0, <2>1, <2>2 DEF ApplyFinalizedEdit
  <2> QED
    BY <1>2, <1>13, <2>1, <2>2 DEF ForceEdit
<1>14. ASSUME NEW i, NEW kind, DoForceRemove(i, kind), i # id \/ kind = "Refund"
       PROVE  info'[id] = info[id]
  <2>1. i # id
    BY <1>14 DEF DoForceRemove, CanForceRemove
  <2> QED
    BY <1>3, <1>14, <2>1 DEF DoForceRemove
<1>15. ASSUME NEW i \in Ids, ForceRemove(i, "Refund") PROVE info'[id] = info[id]
  BY <1>14, <1>15 DEF ForceRemove
<1>16. ASSUME NEW i \in Ids, ForceRemove(i, "Slash") PROVE info'[id] = info[id]
  <2>1. i # id
    BY <1>16 DEF ForcedOn
  <2> QED
    BY <1>14, <1>16, <2>1 DEF ForceRemove
<1>17. CASE BatchStep
  <2>1. CASE DoForceRemove(Head(batch).id, Head(batch).kind)
    <3>1. Head(batch) \in RemovalRequest
      BY <1>17 DEF BatchStep, PalletInv, TypeOK
    <3>2. Head(batch).id # id \/ Head(batch).kind = "Refund"
      BY <1>17, <3>1 DEF ForcedOn, BatchStep, RemovalRequest
    <3> QED
      BY <1>14, <2>1, <3>2
  <2> QED
    BY <1>17, <2>1 DEF BatchStep, recordVars
<1>18. ASSUME NEW i \in Ids, FinalizeDue(i) PROVE info'[id] = info[id]
  BY <1>4, <1>18 DEF FinalizeDue, recordVars
<1>19. ASSUME UNCHANGED recordVars PROVE info'[id] = info[id]
  BY <1>19 DEF recordVars
<1>20. ASSUME NEW reqs \in Requests, ForceRemoveMany(reqs) PROVE info'[id] = info[id]
  BY <1>19, <1>20 DEF ForceRemoveMany
<1>21. ASSUME NEW new, ForceSetDepositBase(new) \/ ForceSetDepositPerByte(new)
       PROVE  info'[id] = info[id]
  BY <1>19, <1>21 DEF ForceSetDepositBase, ForceSetDepositPerByte
<1>22. ASSUME NEW from, NEW to, NEW n, ExternalTransfer(from, to, n)
       PROVE  info'[id] = info[id]
  BY <1>19, <1>22 DEF ExternalTransfer
<1>23. CASE BeginBlock \/ ProbePrefix \/ EndHook
  BY <1>19, <1>23 DEF BeginBlock, ProbePrefix, EndHook
<1>24. CASE UNCHANGED vars
  BY <1>19, <1>24 DEF vars
<1> QED
  BY <1>6, <1>7, <1>8, <1>9, <1>10, <1>11, <1>12, <1>13, <1>15, <1>16, <1>17,
     <1>18, <1>20, <1>21, <1>22, <1>23, <1>24
  DEF Next

\* Once a record is finalized only the force origin changes it, by a rewrite or
\* a slash: no call of its owner, no signed message, no second finalization and
\* no step of the hook does, and no money moves when it is changed.
THEOREM FinalizationIsPermanent == Spec => FinalizedPermanent
<1>1. ASSUME PalletInv, RecordChange, NEW id \in Ids, Recorded(id), info[id].finalized
      PROVE  /\ Recorded(id)' =>
                  info'[id] = [info[id] EXCEPT !.payload_hash = items'[id]]
             /\ info'[id] # info[id] => bal' = bal
  <2>1. info[id] \in Deposit_ /\ items[id] = info[id].payload_hash
    BY <1>1, RecordedFacts
  <2>2. ASSUME NEW p \in Payloads, NEW d2 \in Deposit_, RecordEdited(id, p, d2)
        PROVE  /\ info'[id] = [info[id] EXCEPT !.payload_hash = items'[id]]
               /\ bal' = bal
               /\ info'[id] \in Deposit_
    <3>1. d2 = info[id] /\ bal' = bal /\ items'[id] = p /\ info'[id] \in Deposit_
      BY <1>1, <2>2, EditedRecord
    <3>2. info' = [info EXCEPT ![id] = [info[id] EXCEPT !.payload_hash = items'[id]]]
      BY <2>2, <3>1 DEF RecordEdited
    <3>3. info \in [Ids -> Deposit_ \cup {None}]
      BY <1>1 DEF PalletInv, TypeOK
    <3> QED
      BY <3>1, <3>2, <3>3
  <2>3. CASE /\ Recorded(id)'
             /\ ~\E p \in Payloads, d2 \in Deposit_ : RecordEdited(id, p, d2)
    <3>1. info'[id] = info[id] /\ items'[id] = items[id]
      BY <1>1, <2>3, OtherChanges
    <3> QED
      BY <2>1, <3>1, SamePayload
  <2>4. CASE ~Recorded(id)'
    <3>0. info \in [Ids -> Deposit_ \cup {None}]
      BY <1>1 DEF PalletInv, TypeOK
    <3>1. ASSUME NEW i \in Ids, NEW p \in Payloads, NEW d2 \in Deposit_,
                 RecordEdited(i, p, d2)
          PROVE  Recorded(id)'
      <4>1. CASE i = id
        BY <2>2, <3>1, <4>1, NoneIsNotADeposit DEF Recorded
      <4>2. CASE i # id
        BY <1>1, <3>1, <4>2, EditedRecord DEF Recorded
      <4> QED
        BY <4>1, <4>2
    <3>2. CASE info' = info \/ NewRecordFiled
      BY <1>1, <2>4, <3>0, <3>2 DEF NewRecordFiled, Recorded
    <3>3. ASSUME NEW i \in Ids, RecordRemoved(i) PROVE bal' = bal
      BY <1>1, <2>4, <3>0, <3>3 DEF RecordRemoved, Recorded
    <3>4. ASSUME NEW i \in Ids, RecordFinalized(i) PROVE info'[id] = info[id]
      BY <1>1, <2>4, <3>0, <3>4, NoneIsNotADeposit, FinalizedRecord DEF RecordFinalized, Recorded
    <3> QED
      BY <1>1, <2>4, <3>1, <3>2, <3>3, <3>4 DEF RecordChange
  <2> QED
    BY <2>2, <2>3, <2>4
<1>2. PalletInv /\ [Next]_vars => FinalizedKept
  BY <1>1, StepChange, FinalizedIsClosed, ChangeIsForced DEF FinalizedKept
<1> QED
  BY <1>2, InvHolds, PTL DEF Spec, FinalizedPermanent

\* After an edit of a live record its bases add up to the bond formula of
\* the new payload, however the change was split over the layers.
THEOREM EditsRebase == Spec => EditRebases
<1>1. ASSUME PalletInv, RecordChange, NEW id \in LiveIds, Recorded(id)',
             items'[id] # items[id]
      PROVE  TotalBase(info'[id]) = ComputeBaseBond(items'[id])
  <2>1. id \in Ids /\ Recorded(id) /\ ~info[id].finalized
    BY DEF LiveIds, Recorded
  <2>2. PICK p \in Payloads, d2 \in Deposit_ : RecordEdited(id, p, d2)
    BY <1>1, <2>1, OtherChanges
  <2>3. /\ items'[id] = p /\ TotalBase(d2) = ComputeBaseBond(p)
        /\ info'[id].sponsor_layer = d2.sponsor_layer
        /\ info'[id].owner_layer = d2.owner_layer
    BY <1>1, <2>1, <2>2, EditedRecord
  <2> QED
    BY <2>3 DEF TotalBase, OwnerBase, HasOwnerLayer
<1>2. PalletInv /\ [Next]_vars => EditRebased
  BY <1>1, StepChange DEF EditRebased
<1> QED
  BY <1>2, InvHolds, PTL DEF Spec, EditRebases

-----------------------------------------------------------------------------
(* The pallet implements the finalization queue *)

\* Every id the hook has met was handed out by an earlier deposit, so that a
\* new deposit's id is new to the queue as well.
RefinementInv ==
  /\ PalletInv
  /\ block <= LastBlock
  /\ \A id \in due \cup skipped : id < nextId

QueueStep == Queue!Next \/ UNCHANGED Queue!vars

\* There is always room for one more entry under an expiry block: the
\* records' ids are all different.
LEMMA PrefixHasRoom ==
  ASSUME PalletInv, nextId \in Ids, NEW e
  PROVE  Queue!Cardinality(Queue!Prefix(e)) < MaxRecords
<1> DEFINE others == Ids \ {nextId}
<1>1. Queue!Prefix(e) \in SUBSET others
  <2> SUFFICES ASSUME NEW id \in Ids, <<e, id>> \in pending PROVE id # nextId
    BY DEF Queue!Prefix
  <2>1. id \in LiveIds
    BY DEF PalletInv, QueueMatchesRecords
  <2>2. Recorded(id)
    BY <2>1 DEF LiveIds, Recorded
  <2>3. id \in Nat /\ id < nextId
    BY <2>2, RecordedFacts
  <2> QED
    BY <2>3
<1>2. nextId \in Nat /\ MaxRecords \in Nat /\ MaxRecords > 0
  BY MiddsAssumption DEF Ids
<1>3. IsFiniteSet(Ids) /\ Cardinality(Ids) = MaxRecords
  BY <1>2, FS_Interval DEF Ids
<1>4. IsFiniteSet(others) /\ Cardinality(others) = MaxRecords - 1
  BY <1>3, FS_RemoveElement
<1>5. Cardinality(Queue!Prefix(e)) <= MaxRecords - 1
      /\ Cardinality(Queue!Prefix(e)) \in Nat
  BY <1>1, <1>4, FS_Subset, FS_CardinalityType
<1> QED
  BY <1>2, <1>5, SameCardinality

LEMMA DepositIsQueued ==
  ASSUME RefinementInv, NEW depositor, NEW payer, NEW p, DoDeposit(depositor, payer, p)
  PROVE  QueueStep
<1>1. nextId \in Ids /\ Queue!Enqueue(nextId) /\ block <= LastBlock
  BY DEF DoDeposit, RefinementInv
<1>2. nextId \notin skipped
  BY <1>1, MiddsAssumption DEF RefinementInv, Ids
<1>3. \A q \in pending : q[2] # nextId
  <2> SUFFICES ASSUME NEW id \in LiveIds PROVE id # nextId
    BY DEF RefinementInv, PalletInv, QueueMatchesRecords
  <2>1. Recorded(id) /\ PalletInv
    BY DEF LiveIds, Recorded, RefinementInv
  <2>2. id < nextId /\ id \in Nat
    BY <2>1, RecordedFacts
  <2> QED
    BY <2>2
<1>4. Queue!Cardinality(Queue!Prefix(block + Window)) < MaxRecords
  BY <1>1, PrefixHasRoom DEF RefinementInv
<1>5. Queue!Deposit(nextId)
  BY <1>1, <1>2, <1>3, <1>4 DEF Queue!Deposit
<1> QED
  BY <1>1, <1>5 DEF QueueStep, Queue!Next

\* A live record has its entry; a finalized one has none to drop.
LEMMA DequeueIsQueued ==
  ASSUME PalletInv, NEW id, Recorded(id), Queue!Dequeue(Expiry(info[id]), id)
  PROVE  QueueStep
<1>1. pending = {<<Expiry(info[i]), i>> : i \in LiveIds}
  BY DEF PalletInv, QueueMatchesRecords
<1>2. CASE id \in LiveIds
  <2> DEFINE q == <<Expiry(info[id]), id>>
  <2>1. q \in pending /\ q[1] = Expiry(info[id]) /\ q[2] = id
    BY <1>1, <1>2
  <2> HIDE DEF q
  <2> QED
    BY <2>1 DEF QueueStep, Queue!Next
<1>3. CASE id \notin LiveIds
  <2>1. <<Expiry(info[id]), id>> \notin pending
    BY <1>1, <1>3
  <2>2. UNCHANGED <<pending, block, phase, cursor, remaining, probes, due, skipped>>
    BY <2>1 DEF Queue!Dequeue, Queue!hookVars
  <2> QED
    BY <2>2 DEF QueueStep, Queue!vars
<1> QED
  BY <1>2, <1>3

LEMMA StepIsQueued == RefinementInv /\ [Next]_vars => QueueStep
<1> SUFFICES ASSUME RefinementInv, [Next]_vars PROVE QueueStep
  OBVIOUS
<1>0. PalletInv
  BY DEF RefinementInv
<1>a. ASSUME UNCHANGED queueVars PROVE QueueStep
  BY <1>a DEF QueueStep, queueVars, Queue!vars
<1>b. ASSUME EditFrame PROVE QueueStep
  BY <1>b DEF EditFrame, Queue!QueueIdle, QueueStep
<1>c. ASSUME NEW id, Recorded(id), CleanupStorage(id, info[id]) PROVE QueueStep
  BY <1>0, <1>c, DequeueIsQueued DEF CleanupStorage
<1>d. ASSUME NEW id, NEW kind, DoForceRemove(id, kind) PROVE QueueStep
  BY <1>c, <1>d DEF DoForceRemove, CanForceRemove
<1>1. ASSUME NEW who \in Users, NEW p \in Payloads, Deposit(who, p) PROVE QueueStep
  BY <1>1, DepositIsQueued DEF Deposit
<1>2. ASSUME NEW sig \in Signed, DepositOnBehalf(sig) PROVE QueueStep
  BY <1>2, DepositIsQueued DEF DepositOnBehalf
<1>3. ASSUME NEW who \in Users, NEW id \in Ids, NEW p \in Payloads, Update(who, id, p)
      PROVE  QueueStep
  BY <1>b, <1>3 DEF Update
<1>4. ASSUME NEW sig \in Signed, UpdateOnBehalf(sig) PROVE QueueStep
  BY <1>b, <1>4 DEF UpdateOnBehalf
<1>5. ASSUME NEW who \in Users, NEW id \in Ids, RemoveOwn(who, id) PROVE QueueStep
  BY <1>c, <1>5 DEF RemoveOwn, DoRemoveOwn
<1>6. ASSUME NEW sig \in Signed, RemoveOwnOnBehalf(sig) PROVE QueueStep
  BY <1>c, <1>6 DEF RemoveOwnOnBehalf, DoRemoveOwn
<1>7. ASSUME NEW id \in Ids, Finalize(id) PROVE QueueStep
  BY <1>0, <1>7, DequeueIsQueued DEF Finalize
<1>8. ASSUME NEW id \in Ids, NEW p \in Payloads, ForceEdit(id, p) PROVE QueueStep
  BY <1>b, <1>8 DEF ForceEdit
<1>9. ASSUME NEW id \in Ids, NEW kind, ForceRemove(id, kind) PROVE QueueStep
  BY <1>d, <1>9 DEF ForceRemove
<1>10. CASE BatchStep
  BY <1>a, <1>d, <1>10 DEF BatchStep
<1>11. ASSUME NEW reqs \in Requests, ForceRemoveMany(reqs) PROVE QueueStep
  BY <1>a, <1>11 DEF ForceRemoveMany
<1>12. ASSUME NEW new, ForceSetDepositBase(new) \/ ForceSetDepositPerByte(new)
       PROVE  QueueStep
  BY <1>a, <1>12 DEF ForceSetDepositBase, ForceSetDepositPerByte
<1>13. ASSUME NEW from, NEW to, NEW n, ExternalTransfer(from, to, n) PROVE QueueStep
  BY <1>a, <1>13 DEF ExternalTransfer
<1>14. CASE BeginBlock \/ ProbePrefix \/ EndHook
  BY <1>14 DEF BeginBlock, ProbePrefix, EndHook, QueueStep, Queue!Next
<1>15. ASSUME NEW id \in Ids, FinalizeDue(id) PROVE QueueStep
  <2>1. CASE Queue!FinalizeErr(id)
    BY <2>1 DEF QueueStep, Queue!Next
  <2>2. CASE DoFinalize(id) /\ Queue!FinalizeOk(Expiry(info[id]), id)
    <3> DEFINE q == <<Expiry(info[id]), id>>
    <3>1. id \in LiveIds
      BY <2>2 DEF DoFinalize, CanFinalize, Recorded, LiveIds
    <3>2. q \in pending /\ q[1] = Expiry(info[id]) /\ q[2] = id
      BY <1>0, <3>1 DEF PalletInv, QueueMatchesRecords
    <3> HIDE DEF q
    <3> QED
      BY <2>2, <3>2 DEF QueueStep, Queue!Next
  <2> QED
    BY <1>15, <2>1, <2>2 DEF FinalizeDue
<1>16. CASE UNCHANGED vars
  BY <1>a, <1>16 DEF vars
<1> QED
  BY <1>1, <1>2, <1>3, <1>4, <1>5, <1>6, <1>7, <1>8, <1>9, <1>10, <1>11, <1>12,
     <1>13, <1>14, <1>15, <1>16
  DEF Next

\* What a step of the queue can add to the ids its hook has met.
LEMMA QueueStepMeets ==
  ASSUME PalletInv, block <= LastBlock, QueueStep
  PROVE  /\ block' <= LastBlock
         /\ \A id \in due' \cup skipped' :
              id \in due \cup skipped \/ \E e : <<e, id>> \in pending
<1>1. block \in Nat
  BY DEF PalletInv, TypeOK, Queue!TypeOK
<1>2. CASE Queue!BeginBlock
  BY <1>1, <1>2, MiddsAssumption DEF Queue!BeginBlock
<1>3. CASE Queue!ProbePrefix
  BY <1>3, ProbeFacts DEF Queue!ProbePrefix
<1>4. ASSUME NEW q \in pending, Queue!FinalizeOk(q[1], q[2]) \/ Queue!Dequeue(q[1], q[2])
      PROVE  UNCHANGED <<block, skipped>> /\ due' \subseteq due
  BY <1>4 DEF Queue!FinalizeOk, Queue!Dequeue, Queue!hookVars
<1>5. ASSUME NEW id \in Ids, Queue!FinalizeErr(id)
      PROVE  block' = block /\ due' \subseteq due /\ skipped' \subseteq due \cup skipped
  BY <1>5 DEF Queue!FinalizeErr
<1>6. ASSUME NEW id \in Ids, Queue!Deposit(id) PROVE UNCHANGED <<block, skipped, due>>
  BY <1>6 DEF Queue!Deposit, Queue!Enqueue, Queue!hookVars
<1>7. CASE Queue!EndHook \/ UNCHANGED Queue!vars
  BY <1>7 DEF Queue!EndHook, Queue!vars
<1> QED
  BY <1>2, <1>3, <1>4, <1>5, <1>6, <1>7 DEF QueueStep, Queue!Next

LEMMA RefinementInvStep == RefinementInv /\ [Next]_vars => RefinementInv'
<1> SUFFICES ASSUME RefinementInv, [Next]_vars PROVE RefinementInv'
  OBVIOUS
<1>1. PalletInv /\ PalletInv' /\ QueueStep /\ RecordChange
  BY StepInv, StepIsQueued, StepChange DEF RefinementInv
<1>2. nextId \in Nat /\ nextId' \in Nat /\ nextId' >= nextId
  <2>1. nextId \in Nat /\ nextId' \in Nat
    BY <1>1, MiddsAssumption DEF PalletInv, TypeOK
  <2> QED
    BY <1>1, <2>1
    DEF RecordChange, NewRecordFiled, RecordEdited, RecordRemoved, RecordFinalized
<1>3. ASSUME NEW id, NEW e, <<e, id>> \in pending PROVE id < nextId
  <2>1. Recorded(id)
    BY <1>1, <1>3 DEF PalletInv, QueueMatchesRecords, LiveIds, Recorded
  <2> QED
    BY <1>1, <2>1, RecordedFacts
<1>4. \A id \in due' \cup skipped' : id < nextId
  BY <1>1, <1>3, QueueStepMeets DEF RefinementInv
<1>5. \A id \in due' \cup skipped' : id \in Nat
  BY <1>1, MiddsAssumption DEF PalletInv, TypeOK, Queue!TypeOK, Ids
<1>6. \A id \in due' \cup skipped' : id < nextId'
  BY <1>2, <1>4, <1>5
<1> QED
  BY <1>1, <1>6, QueueStepMeets DEF RefinementInv

\* Seen through its queue variables, the pallet is an implementation of
\* FinalizationQueue: every call and every step of the hook is one of its
\* actions or a stutter.
THEOREM PalletImplementsQueue == Spec => QueueRefinement
<1>1. Init => RefinementInv
  BY InitInv, MiddsAssumption DEF RefinementInv, Init, Queue!Init
<1>2. Init => Queue!Init
  BY DEF Init
<1>3. RefinementInv /\ [Next]_vars => [Queue!Next]_(Queue!vars)
  BY StepIsQueued DEF QueueStep
<1> QED
  BY <1>1, <1>2, <1>3, RefinementInvStep, PTL DEF Spec, QueueRefinement, Queue!Spec

-----------------------------------------------------------------------------
(* What the ledger operations move *)

\* The two layers of record d, seen from account a: what it has locked there
\* and what of it a settlement takes.
Stake(d, a) ==
  (IF d.sponsor_layer.payer = a THEN d.sponsor_layer.amount ELSE 0)
  + (IF HasOwnerLayer(d) /\ d.owner_layer.payer = a
       THEN d.owner_layer.amount ELSE 0)
Forfeit(d, a, kind) ==
  (IF d.sponsor_layer.payer = a THEN TreasuryShare(d.sponsor_layer, kind) ELSE 0)
  + (IF HasOwnerLayer(d) /\ d.owner_layer.payer = a
       THEN TreasuryShare(d.owner_layer, kind) ELSE 0)

LEMMA StakeIsLocked ==
  ASSUME NEW id, NEW a
  PROVE  Locked(a, id) = Stake(info[id], a)
BY DEF Locked, LayerSum, Stake

LEMMA ForfeitIsForfeited ==
  ASSUME NEW id, NEW a, NEW kind
  PROVE  Forfeited(a, id, kind) = Forfeit(info[id], a, kind)
BY DEF Forfeited, LayerSum, Forfeit

LEMMA StakeType ==
  ASSUME NEW d \in Deposit_, NEW a, NEW kind \in SettlementKind
  PROVE  Stake(d, a) \in Nat /\ Forfeit(d, a, kind) \in Nat
BY LayerKinds, TreasuryShareType DEF Stake, Forfeit, Layer

LEMMA LedgerTypes ==
  ASSUME NEW b \in Ledger, NEW x \in Accounts
  PROVE  b.free[x] \in Nat /\ b.held[x] \in Nat /\ Wealth(b, x) \in Nat
BY DEF Ledger, Wealth

\* Adjusting an account's hold moves its own money only, between its free
\* balance and its hold.
LEMMA AdjustMoves ==
  ASSUME NEW b \in Ledger, NEW a \in Accounts, NEW old \in Nat, NEW new \in Nat,
         NEW x \in Accounts
  PROVE  /\ Adjust(b, a, old, new).held[x] = b.held[x] + (IF x = a THEN new - old ELSE 0)
         /\ Wealth(Adjust(b, a, old, new), x) = Wealth(b, x)
<1>1. b.free \in [Accounts -> Nat] /\ b.held \in [Accounts -> Nat]
  BY DEF Ledger
<1>2. CASE new > old
  BY <1>1, <1>2 DEF Adjust, Hold, Wealth
<1>3. CASE ~(new > old)
  BY <1>1, <1>3 DEF Adjust, Release, Wealth
<1> QED
  BY <1>2, <1>3

\* An edit changes the holds of the record's payers by what it changes of
\* their layers, and nobody's wealth.
LEMMA RebalanceMoves ==
  ASSUME NEW b \in Ledger, NEW d \in Deposit_, NEW d2 \in Deposit_,
         CanRebalance(b, d, d2), SameRecord(d, d2), NEW x \in Accounts
  PROVE  /\ Rebalance(b, d, d2).held[x] = b.held[x] - Stake(d, x) + Stake(d2, x)
         /\ Wealth(Rebalance(b, d, d2), x) = Wealth(b, x)
<1> DEFINE s == d.sponsor_layer
           s2 == d2.sponsor_layer
           b1 == AdjustSponsor(b, d, d2)
           own == IF HasOwnerLayer(d) /\ d.owner_layer.payer = x THEN d.owner_layer.amount ELSE 0
           own2 == IF HasOwnerLayer(d2) /\ d2.owner_layer.payer = x THEN d2.owner_layer.amount ELSE 0
<1>1. /\ s.payer = s2.payer /\ s.payer \in Accounts
      /\ s.amount \in Nat /\ s2.amount \in Nat
      /\ OwnerAmount(d) \in Nat /\ OwnerAmount(d2) \in Nat
      /\ HasOwnerLayer(d2) => d2.owner_layer.payer \in Accounts
      /\ own \in Nat /\ own2 \in Nat
  BY LayerKinds, PayersAreAccounts DEF SameRecord, Layer
<1>2. /\ Stake(d, x) = (IF s.payer = x THEN s.amount ELSE 0) + own
      /\ Stake(d2, x) = (IF s2.payer = x THEN s2.amount ELSE 0) + own2
  BY DEF Stake
<1>3. /\ b1 \in Ledger
      /\ b1.held[x] = b.held[x] + (IF x = s.payer THEN s2.amount - s.amount ELSE 0)
      /\ Wealth(b1, x) = Wealth(b, x)
  <2>1. b1 = Adjust(b, s.payer, s.amount, s2.amount)
    BY DEF AdjustSponsor
  <2>2. CanAdjust(b, s.payer, s.amount, s2.amount)
    BY DEF CanRebalance
  <2> HIDE DEF b1, s, s2
  <2> QED
    BY <1>1, <2>1, <2>2, AdjustMoves, AdjustType
<1>4. b.held[x] \in Nat /\ b1.held[x] \in Nat
  BY <1>3, LedgerTypes
<1>5. CASE HasOwnerLayer(d2)
  <2>1. /\ Rebalance(b, d, d2).held[x] =
             b1.held[x] + (IF x = d2.owner_layer.payer THEN OwnerAmount(d2) - OwnerAmount(d) ELSE 0)
        /\ Wealth(Rebalance(b, d, d2), x) = Wealth(b1, x)
    <3> HIDE DEF b1
    <3>1. LET after == Adjust(b1, d2.owner_layer.payer, OwnerAmount(d), OwnerAmount(d2))
          IN /\ after.held[x] = b1.held[x] + (IF x = d2.owner_layer.payer THEN OwnerAmount(d2) - OwnerAmount(d) ELSE 0)
             /\ Wealth(after, x) = Wealth(b1, x)
      BY <1>1, <1>3, <1>5, AdjustMoves
    <3> QED
      BY <1>5, <3>1 DEF Rebalance, b1
  <2>2. OwnerAmount(d2) = d2.owner_layer.amount
    BY <1>5 DEF OwnerAmount
  <2>3. /\ own2 = IF x = d2.owner_layer.payer THEN OwnerAmount(d2) ELSE 0
        /\ own = IF x = d2.owner_layer.payer THEN OwnerAmount(d) ELSE 0
    <3>1. CASE HasOwnerLayer(d)
      <4>1. OwnerAmount(d) = d.owner_layer.amount /\ d2.owner_layer.payer = d.owner_layer.payer
        BY <3>1 DEF OwnerAmount, SameRecord
      <4> QED
        BY <1>5, <2>2, <3>1, <4>1
    <3>2. CASE ~HasOwnerLayer(d)
      <4>1. OwnerAmount(d) = 0
        BY <3>2 DEF OwnerAmount
      <4> QED
        BY <1>5, <2>2, <3>2, <4>1
    <3> QED
      BY <3>1, <3>2
  <2> HIDE DEF own, own2, s, s2, b1
  <2> QED
    BY <1>1, <1>2, <1>3, <1>4, <2>1, <2>3
<1>6. CASE ~HasOwnerLayer(d2)
  <2>1. Rebalance(b, d, d2) = b1
    BY <1>6 DEF Rebalance
  <2>2. own = 0 /\ own2 = 0
    BY <1>6 DEF SameRecord
  <2> HIDE DEF own, own2, s, s2, b1
  <2> QED
    BY <1>1, <1>2, <1>3, <1>4, <2>1, <2>2
<1> QED
  BY <1>5, <1>6

\* Settling a layer empties its hold; the payer loses the Treasury's share
\* and the Treasury receives it.
LEMMA SettleLayerMoves ==
  ASSUME NEW b \in Ledger, NEW layer \in Layer, NEW kind \in SettlementKind,
         CanSettleLayer(b, layer, kind), NEW x \in Accounts
  PROVE  LET after == SettleLayer(b, layer, kind)
             share == TreasuryShare(layer, kind)
         IN /\ after.held[x] = b.held[x] - (IF x = layer.payer THEN layer.amount ELSE 0)
            /\ Wealth(after, x) = Wealth(b, x) - (IF x = layer.payer THEN share ELSE 0)
                                  + (IF x = Treasury THEN share ELSE 0)
<1> DEFINE a     == layer.payer
           share == TreasuryShare(layer, kind)
           mid   == TransferOnHold(b, a, Treasury, share)
           after == Release(mid, a, layer.amount - share)
<1>1. /\ a \in Accounts /\ Treasury \in Accounts /\ a # Treasury
      /\ share \in Nat /\ layer.amount \in Nat /\ share <= layer.amount
  BY PayersAreAccounts, TreasuryShareType DEF Layer
<1>2. b.free \in [Accounts -> Nat] /\ b.held \in [Accounts -> Nat]
  BY DEF Ledger
<1> HIDE DEF share
<1>3. /\ mid.free \in [Accounts -> Int] /\ mid.held \in [Accounts -> Int]
      /\ mid.free[x] = b.free[x] + (IF x = Treasury THEN share ELSE 0)
      /\ mid.held[x] = b.held[x] - (IF x = a THEN share ELSE 0)
  BY <1>1, <1>2 DEF TransferOnHold
<1> HIDE DEF mid
<1>4. /\ after.free[x] = mid.free[x] + (IF x = a THEN layer.amount - share ELSE 0)
      /\ after.held[x] = mid.held[x] - (IF x = a THEN layer.amount - share ELSE 0)
  BY <1>1, <1>3 DEF Release
<1>5. SettleLayer(b, layer, kind) = after
  BY DEF SettleLayer, mid, share
<1>6. b.free[x] \in Nat /\ b.held[x] \in Nat
  BY <1>2
<1> HIDE DEF after, a
<1>7. /\ after.held[x] = b.held[x] - (IF x = a THEN layer.amount ELSE 0)
      /\ after.free[x] + after.held[x] = (b.free[x] + b.held[x]) - (IF x = a THEN share ELSE 0)
                                         + (IF x = Treasury THEN share ELSE 0)
  BY <1>1, <1>3, <1>4, <1>6
<1>8. /\ Wealth(after, x) = after.free[x] + after.held[x]
      /\ Wealth(b, x) = b.free[x] + b.held[x]
  BY DEF Wealth
<1>9. Wealth(after, x) = Wealth(b, x) - (IF x = a THEN share ELSE 0)
                         + (IF x = Treasury THEN share ELSE 0)
  BY <1>7, <1>8, Zenon
<1>10. /\ SettleLayer(b, layer, kind).held[x] =
            b.held[x] - (IF x = layer.payer THEN layer.amount ELSE 0)
       /\ Wealth(SettleLayer(b, layer, kind), x) =
            Wealth(b, x) - (IF x = layer.payer THEN TreasuryShare(layer, kind) ELSE 0)
            + (IF x = Treasury THEN TreasuryShare(layer, kind) ELSE 0)
  BY <1>5, <1>7, <1>9, Zenon DEF share, a
<1> QED
  BY <1>10, Zenon

\* What the Treasury takes of a record's two layers.
Receipts(d, kind) ==
  TreasuryShare(d.sponsor_layer, kind)
  + (IF HasOwnerLayer(d) THEN TreasuryShare(d.owner_layer, kind) ELSE 0)

\* Settling a record empties its payers' holds of it, takes from each what
\* the kind of settlement says, and gives the Treasury the total.
LEMMA SettleBondMoves ==
  ASSUME NEW b \in Ledger, NEW d \in Deposit_, NEW kind \in SettlementKind,
         CanSettleBond(b, d, kind), NEW x \in Accounts
  PROVE  LET after == SettleBond(b, d, kind)
         IN /\ after.held[x] = b.held[x] - Stake(d, x)
            /\ Wealth(after, x) = Wealth(b, x) - Forfeit(d, x, kind)
                                  + (IF x = Treasury THEN Receipts(d, kind) ELSE 0)
<1> DEFINE s   == d.sponsor_layer
           o   == d.owner_layer
           mid == SettleLayer(b, s, kind)
<1>1. s \in Layer /\ CanSettleLayer(b, s, kind)
  BY LayerKinds DEF CanSettleBond
<1>2. /\ mid \in Ledger
      /\ mid.held[x] = b.held[x] - (IF x = s.payer THEN s.amount ELSE 0)
      /\ Wealth(mid, x) = Wealth(b, x) - (IF x = s.payer THEN TreasuryShare(s, kind) ELSE 0)
                          + (IF x = Treasury THEN TreasuryShare(s, kind) ELSE 0)
  BY <1>1, SettleLayerMoves, SettleLayerType
<1>3. b.held[x] \in Nat /\ Wealth(b, x) \in Nat /\ mid.held[x] \in Nat /\ Wealth(mid, x) \in Nat
  BY <1>2, LedgerTypes
<1>4. s.amount \in Nat /\ TreasuryShare(s, kind) \in Nat
  BY <1>1, TreasuryShareType DEF Layer
<1>5. CASE HasOwnerLayer(d)
  <2>1. /\ o \in Layer /\ CanSettleLayer(mid, o, kind)
        /\ SettleBond(b, d, kind) = SettleLayer(mid, o, kind)
    BY <1>5, LayerKinds DEF CanSettleBond, SettleBond
  <2> HIDE DEF mid
  <2>2. LET after == SettleLayer(mid, o, kind)
        IN /\ after.held[x] = mid.held[x] - (IF x = o.payer THEN o.amount ELSE 0)
           /\ Wealth(after, x) = Wealth(mid, x) - (IF x = o.payer THEN TreasuryShare(o, kind) ELSE 0)
                                 + (IF x = Treasury THEN TreasuryShare(o, kind) ELSE 0)
    BY <1>2, <2>1, SettleLayerMoves
  <2>3. o.amount \in Nat /\ TreasuryShare(o, kind) \in Nat
    BY <2>1, TreasuryShareType DEF Layer
  <2>4. /\ Stake(d, x) = (IF s.payer = x THEN s.amount ELSE 0) + (IF o.payer = x THEN o.amount ELSE 0)
        /\ Forfeit(d, x, kind) = (IF s.payer = x THEN TreasuryShare(s, kind) ELSE 0)
                                 + (IF o.payer = x THEN TreasuryShare(o, kind) ELSE 0)
        /\ Receipts(d, kind) = TreasuryShare(s, kind) + TreasuryShare(o, kind)
    BY <1>5 DEF Stake, Forfeit, Receipts
  <2> HIDE DEF s, o
  <2> QED
    BY <1>2, <1>3, <1>4, <2>1, <2>2, <2>3, <2>4
<1>6. CASE ~HasOwnerLayer(d)
  <2>1. SettleBond(b, d, kind) = mid
    BY <1>6 DEF SettleBond
  <2>2. /\ Stake(d, x) = IF s.payer = x THEN s.amount ELSE 0
        /\ Forfeit(d, x, kind) = IF s.payer = x THEN TreasuryShare(s, kind) ELSE 0
        /\ Receipts(d, kind) = TreasuryShare(s, kind)
    BY <1>4, <1>6 DEF Stake, Forfeit, Receipts
  <2> HIDE DEF s, mid
  <2> QED
    BY <1>2, <1>3, <1>4, <2>1, <2>2
<1> QED
  BY <1>5, <1>6

-----------------------------------------------------------------------------
(* The four ways a step moves money *)

\* The live records other than e are the same before and after.
OthersAlone(e) ==
  /\ LiveIds \ {e} = LiveIds' \ {e}
  /\ \A id \in LiveIds \ {e} : info'[id] = info[id]

NothingMoves ==
  /\ LiveIds' = LiveIds
  /\ \A id \in LiveIds : info'[id] = info[id]
  /\ bal' = bal

FreePayment ==
  /\ UNCHANGED recordVars
  /\ bal' \in Ledger /\ bal'.held = bal.held

\* A deposit or an edit holds what the layers of record id now ask for.
LayersPriced(id) ==
  /\ id \in Ids /\ LiveIds' = LiveIds \cup {id} /\ OthersAlone(id)
  /\ \A x \in Accounts :
       /\ bal'.held[x] = bal.held[x] - (IF id \in LiveIds THEN Stake(info[id], x) ELSE 0)
                         + Stake(info'[id], x)
       /\ Wealth(bal', x) = Wealth(bal, x)

RecordSettled(id, kind) ==
  /\ id \in LiveIds /\ LiveIds' = LiveIds \ {id} /\ OthersAlone(id)
  /\ kind \in SettlementKind
  /\ CanSettleBond(bal, info[id], kind)
  /\ bal' = SettleBond(bal, info[id], kind)
  /\ Recorded(id)' => kind = "Full"
  /\ ~InWindow(info[id]) => kind # "PremiumOnly"

MoneyChange ==
  \/ NothingMoves
  \/ FreePayment
  \/ \E id \in Ids : LayersPriced(id)
  \/ \E id \in Ids, kind \in SettlementKind : RecordSettled(id, kind)

LEMMA LiveFacts ==
  ASSUME PalletInv, NEW id \in LiveIds
  PROVE  /\ id \in Ids /\ Recorded(id) /\ ~info[id].finalized
         /\ info[id] \in Deposit_
BY RecordedFacts DEF LiveIds, Recorded

LEMMA DepositMoney ==
  ASSUME PalletInv, NEW depositor \in Users, NEW payer \in Users, NEW p \in Payloads,
         DoDeposit(depositor, payer, p)
  PROVE  MoneyChange
<1> DEFINE new == NewRecord(depositor, payer, p)
           n   == nextId
<1>1. /\ new \in Deposit_ /\ new.finalized = FALSE
      /\ new.sponsor_layer = NewLayer(payer, ComputeBaseBond(p), mult)
      /\ new.sponsor_layer.amount \in Nat /\ ~HasOwnerLayer(new)
  BY NewRecordType DEF NewRecord
<1>2. new.sponsor_layer.payer = payer
  BY <1>1 DEF NewLayer
<1>3. /\ n \in Ids /\ info[n] = None
      /\ info' = [info EXCEPT ![n] = new]
  BY MiddsAssumption DEF DoDeposit, NewRecord, PalletInv, Fresh, TypeOK
<1>4. bal' = Hold(bal, payer, new.sponsor_layer.amount)
  BY <1>1 DEF DoDeposit
<1>5. payer \in Accounts /\ bal \in Ledger
      /\ info \in [Ids -> Deposit_ \cup {None}]
  BY PayersAreAccounts DEF PalletInv, TypeOK
<1> HIDE DEF new
<1>6. /\ info'[n] = new /\ new # None
      /\ \A id \in Ids : id # n => info'[id] = info[id]
  BY <1>1, <1>3, <1>5, NoneIsNotADeposit
<1>7. n \notin LiveIds /\ LiveIds' = LiveIds \cup {n} /\ OthersAlone(n)
  BY <1>1, <1>3, <1>6 DEF LiveIds, OthersAlone
<1>8. ASSUME NEW x \in Accounts
      PROVE  /\ bal'.held[x] = bal.held[x] + Stake(new, x)
             /\ Wealth(bal', x) = Wealth(bal, x)
  <2> DEFINE amount == new.sponsor_layer.amount
  <2>1. Stake(new, x) = IF payer = x THEN amount ELSE 0
    BY <1>1, <1>2 DEF Stake
  <2>2. /\ bal.free \in [Accounts -> Nat] /\ bal.held \in [Accounts -> Nat]
        /\ bal.free[x] \in Nat /\ bal.held[x] \in Nat /\ amount \in Nat
    BY <1>1, <1>5 DEF Ledger
  <2>3. bal' = Hold(bal, payer, amount)
    BY <1>4
  <2> HIDE DEF amount
  <2>4. /\ bal'.held[x] = bal.held[x] + (IF payer = x THEN amount ELSE 0)
        /\ bal'.free[x] = bal.free[x] - (IF payer = x THEN amount ELSE 0)
    BY <1>5, <2>2, <2>3 DEF Hold
  <2> QED
    BY <2>1, <2>2, <2>4 DEF Wealth
<1>9. ASSUME NEW x \in Accounts
      PROVE  bal'.held[x] = bal.held[x] - (IF n \in LiveIds THEN Stake(info[n], x) ELSE 0)
                            + Stake(info'[n], x)
  <2>1. bal.held[x] \in Nat /\ Stake(new, x) \in Nat
    BY <1>1, <1>5, <1>9, LedgerTypes, StakeType DEF SettlementKind
  <2> QED
    BY <1>6, <1>7, <1>8, <2>1
<1>10. LayersPriced(n)
  BY <1>3, <1>7, <1>8, <1>9 DEF LayersPriced
<1> QED
  BY <1>3, <1>10 DEF MoneyChange

\* Rewriting the payload of a record leaves its layers alone.
LEMMA WithHashStake ==
  ASSUME NEW d \in Deposit_, NEW p \in Payloads, NEW x
  PROVE  Stake([d EXCEPT !.payload_hash = p], x) = Stake(d, x)
BY WithHashFacts DEF Stake, HasOwnerLayer

LEMMA EditMoney ==
  ASSUME PalletInv, NEW id, Recorded(id), ~info[id].finalized, NEW p \in Payloads,
         NEW caller \in Users,
         caller \in {info[id].depositor, info[id].sponsor_layer.payer},
         ApplyEdit(id, p, info[id], caller)
  PROVE  MoneyChange
<1> DEFINE d2  == RouteSizeDelta(info[id], caller, ComputeBaseBond(p), mult)
           new == [d2 EXCEPT !.payload_hash = p]
<1>1. /\ SameRecord(info[id], d2)
      /\ info' = [info EXCEPT ![id] = new]
  BY ApplyEditFacts
<1>2. CanRebalance(bal, info[id], d2) /\ bal' = Rebalance(bal, info[id], d2)
  BY DEF ApplyEdit
<1> HIDE DEF d2
<1>3. /\ id \in Ids /\ info[id] \in Deposit_ /\ d2 \in Deposit_
      /\ d2.finalized = info[id].finalized
      /\ bal \in Ledger /\ info \in [Ids -> Deposit_ \cup {None}]
  BY <1>1, RecordedFacts DEF SameRecord, PalletInv, TypeOK
<1>4. /\ new \in Deposit_ /\ new.finalized = d2.finalized
      /\ \A x : Stake(new, x) = Stake(d2, x)
  BY <1>3, WithHashFacts, WithHashStake
<1> HIDE DEF new
<1>5. /\ info'[id] = new /\ new # None
      /\ \A i \in Ids : i # id => info'[i] = info[i]
  BY <1>1, <1>3, <1>4, NoneIsNotADeposit
<1>6. id \in LiveIds
  BY <1>3 DEF LiveIds, Recorded
<1>7. LiveIds' = LiveIds \cup {id} /\ OthersAlone(id)
  BY <1>3, <1>4, <1>5, <1>6 DEF LiveIds, OthersAlone
<1>8. ASSUME NEW x \in Accounts
      PROVE  /\ bal'.held[x] = bal.held[x] - Stake(info[id], x) + Stake(info'[id], x)
             /\ Wealth(bal', x) = Wealth(bal, x)
  BY <1>1, <1>2, <1>3, <1>4, <1>5, <1>8, RebalanceMoves
<1>9. LayersPriced(id)
  BY <1>3, <1>6, <1>7, <1>8 DEF LayersPriced
<1> QED
  BY <1>3, <1>9 DEF MoneyChange

LEMMA RemoveMoney ==
  ASSUME PalletInv, NEW id, Recorded(id), NEW kind \in SettlementKind,
         ~info[id].finalized => CanSettleBond(bal, info[id], kind),
         bal' = IF info[id].finalized THEN bal ELSE SettleBond(bal, info[id], kind),
         kind = "PremiumOnly" => InWindow(info[id]),
         CleanupStorage(id, info[id])
  PROVE  MoneyChange
<1>1. id \in Ids /\ info \in [Ids -> Deposit_ \cup {None}]
  BY RecordedFacts DEF PalletInv, TypeOK
<1>2. /\ info'[id] = None
      /\ \A i \in Ids : i # id => info'[i] = info[i]
  BY <1>1 DEF CleanupStorage
<1>3. LiveIds' = LiveIds \ {id} /\ OthersAlone(id) /\ ~Recorded(id)'
  BY <1>2 DEF LiveIds, OthersAlone, Recorded
<1>4. CASE info[id].finalized
  <2>1. id \notin LiveIds
    BY <1>4 DEF LiveIds
  <2>2. NothingMoves
    BY <1>3, <1>4, <2>1 DEF NothingMoves, OthersAlone
  <2> QED
    BY <2>2 DEF MoneyChange
<1>5. CASE ~info[id].finalized
  <2>1. id \in LiveIds
    BY <1>1, <1>5 DEF LiveIds, Recorded
  <2>2. RecordSettled(id, kind)
    BY <1>3, <1>5, <2>1 DEF RecordSettled
  <2> QED
    BY <1>1, <2>2 DEF MoneyChange
<1> QED
  BY <1>4, <1>5

LEMMA FinalizeMoney ==
  ASSUME PalletInv, NEW id, DoFinalize(id)
  PROVE  MoneyChange
<1>1. /\ Recorded(id) /\ ~info[id].finalized
      /\ CanSettleBond(bal, info[id], "Full")
      /\ bal' = SettleBond(bal, info[id], "Full")
      /\ info' = [info EXCEPT ![id] = [info[id] EXCEPT !.finalized = TRUE]]
  BY DEF DoFinalize, CanFinalize
<1>2. /\ id \in Ids /\ info[id] \in Deposit_
      /\ info \in [Ids -> Deposit_ \cup {None}]
  BY <1>1, RecordedFacts DEF PalletInv, TypeOK
<1>3. [info[id] EXCEPT !.finalized = TRUE].finalized = TRUE
  BY <1>2 DEF Deposit_
<1>4. /\ info'[id].finalized = TRUE
      /\ \A i \in Ids : i # id => info'[i] = info[i]
  BY <1>1, <1>2, <1>3
<1>5. id \in LiveIds /\ LiveIds' = LiveIds \ {id} /\ OthersAlone(id)
  BY <1>1, <1>2, <1>4 DEF LiveIds, OthersAlone, Recorded
<1>6. RecordSettled(id, "Full")
  BY <1>1, <1>5 DEF RecordSettled, SettlementKind
<1> QED
  BY <1>2, <1>6 DEF MoneyChange, SettlementKind

LEMMA StepMoney == PalletInv /\ [Next]_vars => MoneyChange
<1> SUFFICES ASSUME PalletInv, [Next]_vars PROVE MoneyChange
  OBVIOUS
<1>0. bal \in Ledger
  BY DEF PalletInv, TypeOK
<1>a. ASSUME UNCHANGED <<recordVars, bal>> PROVE MoneyChange
  BY <1>a DEF MoneyChange, NothingMoves, LiveIds, recordVars
<1>b. ASSUME NEW id, DoRemoveOwn(id) PROVE MoneyChange
  BY <1>b, RemoveMoney DEF DoRemoveOwn, SettlementKind
<1>c. ASSUME NEW id, NEW kind, DoForceRemove(id, kind) PROVE MoneyChange
  <2> DEFINE k == IF kind = "Refund" THEN "Refund" ELSE "Full"
  <2>1. /\ Recorded(id) /\ CleanupStorage(id, info[id])
        /\ ~info[id].finalized => CanSettleBond(bal, info[id], k)
        /\ bal' = IF info[id].finalized THEN bal ELSE SettleBond(bal, info[id], k)
    BY <1>c DEF DoForceRemove, CanForceRemove
  <2>2. k \in SettlementKind /\ k # "PremiumOnly"
    BY DEF SettlementKind
  <2> HIDE DEF k
  <2> QED
    BY <2>1, <2>2, RemoveMoney
<1>1. ASSUME NEW who \in Users, NEW p \in Payloads, Deposit(who, p) PROVE MoneyChange
  BY <1>1, DepositMoney DEF Deposit
<1>2. ASSUME NEW sig \in Signed, DepositOnBehalf(sig) PROVE MoneyChange
  BY <1>2, ConsumeType, DepositMoney DEF DepositOnBehalf
<1>3. ASSUME NEW who \in Users, NEW id \in Ids, NEW p \in Payloads, Update(who, id, p)
      PROVE  MoneyChange
  BY <1>3, EditMoney DEF Update
<1>4. ASSUME NEW sig \in Signed, UpdateOnBehalf(sig) PROVE MoneyChange
  BY <1>4, ConsumeType, EditMoney DEF UpdateOnBehalf
<1>5. ASSUME NEW who \in Users, NEW id \in Ids, RemoveOwn(who, id) PROVE MoneyChange
  BY <1>b, <1>5 DEF RemoveOwn
<1>6. ASSUME NEW sig \in Signed, RemoveOwnOnBehalf(sig) PROVE MoneyChange
  BY <1>b, <1>6 DEF RemoveOwnOnBehalf
<1>7. ASSUME NEW id \in Ids, Finalize(id) PROVE MoneyChange
  BY <1>7, FinalizeMoney DEF Finalize
<1>8. ASSUME NEW id \in Ids, NEW p \in Payloads, ForceEdit(id, p) PROVE MoneyChange
  <2>1. Recorded(id) /\ info[id] \in Deposit_
    BY <1>8, RecordedFacts DEF ForceEdit
  <2>2. CASE info[id].finalized /\ ApplyFinalizedEdit(id, p, info[id])
    <3>1. /\ bal' = bal /\ info \in [Ids -> Deposit_ \cup {None}]
          /\ info' = [info EXCEPT ![id] = [info[id] EXCEPT !.payload_hash = p]]
      BY <2>2 DEF ApplyFinalizedEdit, PalletInv, TypeOK
    <3>2. [info[id] EXCEPT !.payload_hash = p].finalized = info[id].finalized
      BY <2>1, WithHashFacts
    <3>3. LiveIds' = LiveIds /\ id \notin LiveIds
      BY <2>2, <3>1, <3>2 DEF LiveIds
    <3>4. \A i \in LiveIds : info'[i] = info[i]
      BY <3>1, <3>3 DEF LiveIds
    <3> QED
      BY <3>1, <3>3, <3>4 DEF MoneyChange, NothingMoves
  <2>3. CASE ~info[id].finalized /\ ApplyEdit(id, p, info[id], info[id].sponsor_layer.payer)
    <3>1. info[id].sponsor_layer.payer \in Users
      BY <2>1, LayerKinds DEF Layer
    <3> QED
      BY <2>1, <2>3, <3>1, EditMoney
  <2> QED
    BY <1>8, <2>2, <2>3 DEF ForceEdit
<1>9. ASSUME NEW id \in Ids, NEW kind, ForceRemove(id, kind) PROVE MoneyChange
  BY <1>c, <1>9 DEF ForceRemove
<1>10. CASE BatchStep
  BY <1>a, <1>c, <1>10 DEF BatchStep
<1>11. ASSUME NEW id \in Ids, FinalizeDue(id) PROVE MoneyChange
  BY <1>a, <1>11, FinalizeMoney DEF FinalizeDue
<1>12. ASSUME NEW reqs \in Requests, ForceRemoveMany(reqs) PROVE MoneyChange
  BY <1>a, <1>12 DEF ForceRemoveMany
<1>13. ASSUME NEW new, ForceSetDepositBase(new) \/ ForceSetDepositPerByte(new)
       PROVE  MoneyChange
  BY <1>a, <1>13 DEF ForceSetDepositBase, ForceSetDepositPerByte
<1>14. ASSUME NEW from \in Accounts, NEW to \in Accounts, NEW n \in TransferAmounts,
              ExternalTransfer(from, to, n)
       PROVE  MoneyChange
  <2>1. bal' \in Ledger
    BY <1>0, <1>14, TransferType, MiddsAssumption DEF ExternalTransfer
  <2>2. UNCHANGED recordVars /\ bal'.held = bal.held
    BY <1>14 DEF ExternalTransfer, Transfer
  <2> QED
    BY <2>1, <2>2 DEF MoneyChange, FreePayment
<1>15. CASE BeginBlock \/ ProbePrefix \/ EndHook
  BY <1>a, <1>15 DEF BeginBlock, ProbePrefix, EndHook
<1>16. CASE UNCHANGED vars
  BY <1>a, <1>16 DEF vars
<1> QED
  BY <1>1, <1>2, <1>3, <1>4, <1>5, <1>6, <1>7, <1>8, <1>9, <1>10, <1>11, <1>12,
     <1>13, <1>14, <1>15, <1>16
  DEF Next

-----------------------------------------------------------------------------
(* What is on hold *)

\* HoldsMatchLayers with its sums written out.
HoldsMatch ==
  \A a \in Accounts :
    bal.held[a] = SumFunction([id \in LiveIds |-> Stake(info[id], a)])

LEMMA HoldsMatchForm == HoldsMatch <=> HoldsMatchLayers
<1>1. \A a \in Accounts :
        [id \in LiveIds |-> Stake(info[id], a)] = [id \in LiveIds |-> Locked(a, id)]
  BY StakeIsLocked
<1> QED
  BY <1>1 DEF HoldsMatch, HoldsMatchLayers, SumOver

LEMMA FiniteLive == IsFiniteSet(LiveIds) /\ IsFiniteSet(LiveIds')
<1>1. IsFiniteSet(Ids)
  BY FS_Interval, MiddsAssumption DEF Ids
<1>2. LiveIds \in SUBSET Ids /\ LiveIds' \in SUBSET Ids
  BY DEF LiveIds
<1> QED
  BY <1>1, <1>2, FS_Subset

\* If one live record appears, changes or leaves, an account's stakes add up
\* to the old sum, less what it had there before, plus what it has now.
LEMMA StakesMove ==
  ASSUME PalletInv, PalletInv', NEW e, OthersAlone(e), NEW a \in Accounts
  PROVE  LET before == SumFunction([id \in LiveIds |-> Stake(info[id], a)])
             after == SumFunction([id \in LiveIds' |-> Stake(info'[id], a)])
         IN /\ before \in Int
            /\ after = before - (IF e \in LiveIds THEN Stake(info[e], a) ELSE 0)
                       + (IF e \in LiveIds' THEN Stake(info'[e], a) ELSE 0)
<1> DEFINE f == [id \in LiveIds |-> Stake(info[id], a)]
           h == [id \in LiveIds' |-> Stake(info'[id], a)]
<1>1. \A id \in LiveIds : Stake(info[id], a) \in Int
  BY LiveFacts, StakeType DEF SettlementKind
<1>2. \A id \in LiveIds' : Stake(info'[id], a) \in Int
  <2>1. \A id \in LiveIds' : info'[id] \in Deposit_
    BY DEF LiveIds, PalletInv, TypeOK
  <2> QED
    BY <2>1, StakeType DEF SettlementKind
<1>3. /\ f \in [LiveIds -> Int] /\ h \in [LiveIds' -> Int]
      /\ \A x \in LiveIds \ {e} : f[x] = h[x]
      /\ LiveIds \ {e} = LiveIds' \ {e}
      /\ e \in LiveIds => f[e] = Stake(info[e], a)
      /\ e \in LiveIds' => h[e] = Stake(info'[e], a)
  BY <1>1, <1>2 DEF OthersAlone
<1> HIDE DEF f, h
<1>4. /\ SumFunction(f) \in Int
      /\ SumFunction(h) = SumFunction(f) - (IF e \in LiveIds THEN f[e] ELSE 0)
                          + (IF e \in LiveIds' THEN h[e] ELSE 0)
  BY <1>3, FiniteLive, SumMoves
<1> QED
  BY <1>3, <1>4 DEF f, h

LEMMA HoldsMatchStep ==
  ASSUME PalletInv, PalletInv', MoneyChange, HoldsMatch
  PROVE  HoldsMatch'
<1> DEFINE before(a) == SumFunction([id \in LiveIds |-> Stake(info[id], a)])
           after(a) == SumFunction([id \in LiveIds' |-> Stake(info'[id], a)])
<1>1. SUFFICES ASSUME NEW a \in Accounts PROVE bal'.held[a] = after(a)
  BY DEF HoldsMatch
<1>2. bal.held[a] = before(a) /\ bal.held[a] \in Nat
  BY LedgerTypes DEF HoldsMatch, PalletInv, TypeOK
<1>3. CASE bal'.held = bal.held /\ LiveIds' = LiveIds /\ \A id \in LiveIds : info'[id] = info[id]
  <2>1. [id \in LiveIds' |-> Stake(info'[id], a)] = [id \in LiveIds |-> Stake(info[id], a)]
    BY <1>3
  <2> QED
    BY <1>2, <1>3, <2>1
<1>4. CASE NothingMoves \/ FreePayment
  BY <1>3, <1>4 DEF NothingMoves, FreePayment, LiveIds, recordVars
<1>5. ASSUME NEW id \in Ids, LayersPriced(id) PROVE bal'.held[a] = after(a)
  <2>1. /\ after(a) = before(a) - (IF id \in LiveIds THEN Stake(info[id], a) ELSE 0)
                      + (IF id \in LiveIds' THEN Stake(info'[id], a) ELSE 0)
    BY <1>5, StakesMove DEF LayersPriced
  <2>2. id \in LiveIds'
    BY <1>5 DEF LayersPriced
  <2> HIDE DEF before, after
  <2> QED
    BY <1>2, <1>5, <2>1, <2>2 DEF LayersPriced
<1>6. ASSUME NEW id \in Ids, NEW kind \in SettlementKind, RecordSettled(id, kind)
      PROVE  bal'.held[a] = after(a)
  <2>1. /\ after(a) = before(a) - (IF id \in LiveIds THEN Stake(info[id], a) ELSE 0)
                      + (IF id \in LiveIds' THEN Stake(info'[id], a) ELSE 0)
    BY <1>6, StakesMove DEF RecordSettled
  <2>2. id \in LiveIds /\ id \notin LiveIds'
    BY <1>6 DEF RecordSettled
  <2>3. info[id] \in Deposit_ /\ bal \in Ledger
    BY <2>2, LiveFacts DEF PalletInv, TypeOK
  <2>4. bal'.held[a] = bal.held[a] - Stake(info[id], a) /\ Stake(info[id], a) \in Nat
    BY <1>6, <2>3, SettleBondMoves, StakeType DEF RecordSettled
  <2> HIDE DEF before, after
  <2> QED
    BY <1>2, <2>1, <2>2, <2>4
<1> QED
  BY <1>4, <1>5, <1>6 DEF MoneyChange

\* Bond accounting: what the pallet has on hold for an account is, in every
\* state, the sum of the layers the account pays for in the records not yet
\* finalized.  No sequence of edits, failed settlements, removals and hooks
\* leaves money on hold for no record, or a record without its money.
THEOREM HoldsAlwaysMatch == Spec => []HoldsMatchLayers
<1>1. Init => HoldsMatch
  <2> SUFFICES ASSUME Init, NEW a \in Accounts
               PROVE  bal.held[a] = SumFunction([id \in LiveIds |-> Stake(info[id], a)])
    BY DEF HoldsMatch
  <2>1. LiveIds = {} /\ bal.held[a] = 0
    BY DEF Init, LiveIds
  <2>2. DOMAIN [id \in LiveIds |-> Stake(info[id], a)] = {}
    BY <2>1
  <2> QED
    BY <2>1, <2>2, SumOfNone
<1>2. HoldsMatch /\ PalletInv /\ PalletInv' /\ [Next]_vars => HoldsMatch'
  BY StepMoney, HoldsMatchStep
<1>3. HoldsMatch => HoldsMatchLayers
  BY HoldsMatchForm
<1> QED
  BY <1>1, <1>2, <1>3, InvHolds, PTL DEF Spec

-----------------------------------------------------------------------------
(* What a settlement takes *)

LossOf(a) == Wealth(bal, a) - Wealth(bal', a)
Gone == LiveIds \ LiveIds'

\* LossSettled with its sums written out, for one kind of settlement.
LossSettledAs(kind) ==
  /\ \A id \in Gone : Recorded(id)' => kind = "Full"
  /\ \A id \in Gone : ~InWindow(info[id]) => kind # "PremiumOnly"
  /\ \A a \in Users : LossOf(a) = SumFunction([id \in Gone |-> Forfeit(info[id], a, kind)])
  /\ -LossOf(Treasury) = SumFunction([a \in Users |-> LossOf(a)])

LEMMA LossForm ==
  ASSUME NEW kind \in SettlementKind, LossSettledAs(kind)
  PROVE  LossSettled
<1> DEFINE gone == {id \in LiveIds : ~(Recorded(id)' /\ ~info'[id].finalized)}
           Loss(a) == Wealth(bal, a) - Wealth(bal', a)
<1>1. gone = Gone
  BY DEF Gone, LiveIds, Recorded
<1>2. \A a : Loss(a) = LossOf(a)
  BY DEF LossOf
<1>3. /\ \A id \in gone : Recorded(id)' => kind = "Full"
      /\ \A id \in gone : ~InWindow(info[id]) => kind # "PremiumOnly"
  BY <1>1 DEF LossSettledAs
<1>4. ASSUME NEW a \in Users
      PROVE  LET Due(id) == Forfeited(a, id, kind) IN Loss(a) = SumOver(gone, Due)
  <2>1. [id \in gone |-> Forfeited(a, id, kind)] = [id \in Gone |-> Forfeit(info[id], a, kind)]
    BY <1>1, ForfeitIsForfeited
  <2> HIDE DEF gone
  <2>2. Loss(a) = SumFunction([id \in gone |-> Forfeited(a, id, kind)])
    BY <1>2, <2>1 DEF LossSettledAs
  <2> QED
    BY <2>2 DEF SumOver
<1>5. -Loss(Treasury) = SumOver(Users, Loss)
  <2>1. SumOver(Users, Loss) = SumFunction([a \in Users |-> LossOf(a)])
    BY DEF SumOver, LossOf
  <2> QED
    BY <2>1 DEF LossSettledAs, LossOf
<1> QED
  BY <1>3, <1>4, <1>5, Zenon DEF LossSettled

\* A step that leaves everybody as rich as before and no live record out.
LEMMA NothingLost ==
  ASSUME PalletInv, \A x \in Accounts : Wealth(bal', x) = Wealth(bal, x),
         LiveIds \subseteq LiveIds'
  PROVE  LossSettled
<1>1. \A x \in Accounts : LossOf(x) = 0
  BY LedgerTypes DEF LossOf, PalletInv, TypeOK
<1>2. Gone = {}
  BY DEF Gone
<1>3. \A a \in Users : SumFunction([id \in Gone |-> Forfeit(info[id], a, "Full")]) = 0
  BY <1>2, SumOfNone
<1>4. [a \in Users |-> LossOf(a)] = [a \in Users |-> 0] /\ LossOf(Treasury) = 0
  BY <1>1, PayersAreAccounts
<1>5. SumFunction([a \in Users |-> LossOf(a)]) = 0
  BY <1>4, FiniteUsers, SumOfZeros
<1>6. \A a \in Users : LossOf(a) = 0
  BY <1>1, PayersAreAccounts
<1>7. -LossOf(Treasury) = 0
  <2>1. LossOf(Treasury) = 0
    BY <1>1, PayersAreAccounts
  <2>2. LossOf(Treasury) \in Int
    BY <2>1
  <2>3. \A n \in Int : -n = 0 - n
    OBVIOUS
  <2>4. -LossOf(Treasury) = 0 - LossOf(Treasury)
    BY <2>2, <2>3, Zenon
  <2> QED
    BY <2>1, <2>4
<1>8. LossSettledAs("Full")
  BY <1>2, <1>3, <1>5, <1>6, <1>7 DEF LossSettledAs
<1> QED
  BY <1>8, LossForm DEF SettlementKind

\* What the users forfeit for a record adds up to what the Treasury takes.
LEMMA ForfeitsAddUp ==
  ASSUME NEW d \in Deposit_, NEW kind \in SettlementKind
  PROVE  SumFunction([a \in Users |-> Forfeit(d, a, kind)]) = Receipts(d, kind)
<1> DEFINE s     == d.sponsor_layer
           o     == d.owner_layer
           sFrom == TreasuryShare(s, kind)
           oFrom == IF HasOwnerLayer(d) THEN TreasuryShare(o, kind) ELSE 0
           zero  == [a \in Users |-> 0]
           one   == [a \in Users |-> IF s.payer = a THEN sFrom ELSE 0]
           both  == [a \in Users |-> Forfeit(d, a, kind)]
<1>1. /\ sFrom \in Nat /\ oFrom \in Nat /\ s.payer \in Users
      /\ HasOwnerLayer(d) => o.payer \in Users
  BY LayerKinds, TreasuryShareType DEF Layer
<1>2. SumFunction(zero) = 0
  BY FiniteUsers, SumOfZeros
<1>3. SumFunction(one) = sFrom
  <2>1. /\ zero \in [Users -> Int] /\ one \in [Users -> Int]
        /\ \A x \in Users \ {s.payer} : zero[x] = one[x]
        /\ zero[s.payer] = 0 /\ one[s.payer] = sFrom
    BY <1>1
  <2> HIDE DEF zero, one
  <2>2. SumFunction(one) = SumFunction(zero) - (IF s.payer \in Users THEN zero[s.payer] ELSE 0)
                           + (IF s.payer \in Users THEN one[s.payer] ELSE 0)
    BY <2>1, FiniteUsers, SumMoves
  <2> HIDE DEF s, sFrom
  <2> QED
    BY <1>1, <1>2, <2>1, <2>2
<1>4. \A a \in Users : both[a] = (IF s.payer = a THEN sFrom ELSE 0)
                                 + (IF HasOwnerLayer(d) /\ o.payer = a THEN oFrom ELSE 0)
  BY DEF Forfeit
<1>5. both \in [Users -> Int]
  BY StakeType
<1> HIDE DEF both
<1>6. CASE HasOwnerLayer(d)
  <2>1. /\ one \in [Users -> Int]
        /\ \A x \in Users \ {o.payer} : one[x] = both[x]
    BY <1>1, <1>4
  <2>2. /\ one[o.payer] \in Int
        /\ both[o.payer] = one[o.payer] + oFrom
    BY <1>1, <1>4, <1>6
  <2> HIDE DEF one
  <2>3. SumFunction(both) = SumFunction(one) - (IF o.payer \in Users THEN one[o.payer] ELSE 0)
                            + (IF o.payer \in Users THEN both[o.payer] ELSE 0)
    BY <1>5, <2>1, FiniteUsers, SumMoves
  <2>4. Receipts(d, kind) = sFrom + oFrom
    BY DEF Receipts
  <2> HIDE DEF s, o, sFrom, oFrom
  <2>5. SumFunction(both) = sFrom + oFrom
    BY <1>1, <1>3, <1>6, <2>2, <2>3
  <2> QED
    BY <2>4, <2>5 DEF both
<1>7. CASE ~HasOwnerLayer(d)
  <2>1. both = one
    BY <1>1, <1>4, <1>5, <1>7
  <2>2. Receipts(d, kind) = sFrom
    BY <1>1, <1>7 DEF Receipts
  <2> HIDE DEF one
  <2> QED
    BY <1>3, <2>1, <2>2 DEF both
<1> QED
  BY <1>6, <1>7

LEMMA SettledLosses ==
  ASSUME PalletInv, NEW id, NEW kind \in SettlementKind, RecordSettled(id, kind)
  PROVE  LossSettled
<1> DEFINE d == info[id]
<1>1. /\ id \in LiveIds /\ d \in Deposit_ /\ bal \in Ledger
      /\ CanSettleBond(bal, d, kind) /\ bal' = SettleBond(bal, d, kind)
      /\ Gone = {id}
      /\ Recorded(id)' => kind = "Full"
      /\ ~InWindow(d) => kind # "PremiumOnly"
  BY LiveFacts DEF RecordSettled, Gone, PalletInv, TypeOK
<1> HIDE DEF d
<1>2. ASSUME NEW x \in Accounts
      PROVE  LossOf(x) = Forfeit(d, x, kind) - (IF x = Treasury THEN Receipts(d, kind) ELSE 0)
  <2>1. Wealth(bal', x) = Wealth(bal, x) - Forfeit(d, x, kind)
                          + (IF x = Treasury THEN Receipts(d, kind) ELSE 0)
    BY <1>1, <1>2, SettleBondMoves
  <2>2. Wealth(bal, x) \in Nat /\ Forfeit(d, x, kind) \in Nat
    BY <1>1, <1>2, LedgerTypes, StakeType
  <2>3. Receipts(d, kind) \in Nat
    BY <1>1, LayerKinds, TreasuryShareType DEF Receipts
  <2> QED
    BY <2>1, <2>2, <2>3 DEF LossOf
<1>3. ASSUME NEW a \in Users
      PROVE  /\ LossOf(a) = Forfeit(d, a, kind)
             /\ LossOf(a) = SumFunction([i \in Gone |-> Forfeit(info[i], a, kind)])
  <2>1. LossOf(a) = Forfeit(d, a, kind) /\ Forfeit(d, a, kind) \in Nat
    BY <1>1, <1>2, <1>3, PayersAreAccounts, StakeType
  <2> DEFINE f == [i \in {id} |-> Forfeit(info[i], a, kind)]
  <2>2. f[id] = Forfeit(d, a, kind) /\ f \in [{id} -> Int]
    BY <2>1 DEF d
  <2>3. [i \in Gone |-> Forfeit(info[i], a, kind)] = f
    BY <1>1
  <2> HIDE DEF f
  <2>4. SumFunction(f) = f[id]
    BY <2>2, SumOfOne
  <2> QED
    BY <2>1, <2>2, <2>3, <2>4
<1>4. -LossOf(Treasury) = SumFunction([a \in Users |-> LossOf(a)])
  <2>1. [a \in Users |-> LossOf(a)] = [a \in Users |-> Forfeit(d, a, kind)]
    BY <1>3
  <2>2. SumFunction([a \in Users |-> LossOf(a)]) = Receipts(d, kind)
    BY <1>1, <2>1, ForfeitsAddUp
  <2>3. Forfeit(d, Treasury, kind) = 0
    BY <1>1, LayerKinds, PayersAreAccounts DEF Forfeit, Layer
  <2>4. Receipts(d, kind) \in Nat
    BY <1>1, LayerKinds, TreasuryShareType DEF Receipts
  <2>5. -LossOf(Treasury) = Receipts(d, kind)
    BY <1>2, <2>3, <2>4, PayersAreAccounts
  <2> QED
    BY <2>2, <2>5
<1>5. LossSettledAs(kind)
  BY <1>1, <1>3, <1>4 DEF LossSettledAs, d
<1> QED
  BY <1>5, LossForm

\* Only the payers of the one record that leaves the live set lose anything
\* by a deposit, an edit, a removal or a finalization, exactly what its kind
\* of settlement says, and the Treasury receives it to the last unit.
THEOREM SettlementsInsulated == Spec => SettlementInsulated
<1>1. ASSUME PalletInv, MoneyChange PROVE LossSettled
  <2>1. CASE NothingMoves
    BY <1>1, <2>1, NothingLost DEF NothingMoves
  <2>2. CASE FreePayment
    BY <2>2 DEF FreePayment, LossSettled
  <2>3. ASSUME NEW id \in Ids, LayersPriced(id) PROVE LossSettled
    BY <1>1, <2>3, NothingLost DEF LayersPriced
  <2> QED
    BY <1>1, <2>1, <2>2, <2>3, SettledLosses DEF MoneyChange
<1>2. PalletInv /\ [Next]_vars => LossSettled
  BY <1>1, StepMoney
<1> QED
  BY <1>2, InvHolds, PTL DEF Spec, SettlementInsulated

-----------------------------------------------------------------------------
(* What an owner can take from the sponsor *)

\* A sponsor's layer after an edit somebody else makes: untouched by growth,
\* at most rebased to a smaller base by a shrink.
LEMMA SponsorLayerOfOthers ==
  ASSUME NEW d \in Deposit_, NEW caller \in Users, NEW n \in Nat, NEW m \in Multipliers,
         caller # d.sponsor_layer.payer
  PROVE  LET s == RouteSizeDelta(d, caller, n, m).sponsor_layer
         IN \/ s = d.sponsor_layer
            \/ \E part \in Nat : /\ part <= d.sponsor_layer.base
                                 /\ s = Rebase(d.sponsor_layer, d.sponsor_layer.base - part)
<1>0. TotalBase(d) \in Nat
  BY LayerKinds
<1>1. CASE n = TotalBase(d)
  BY <1>1 DEF RouteSizeDelta
<1>2. CASE n > TotalBase(d)
  <2> DEFINE layer == IF HasOwnerLayer(d)
                        THEN Rebase(d.owner_layer, d.owner_layer.base + (n - TotalBase(d)))
                        ELSE NewLayer(caller, n - TotalBase(d), m)
  <2>1. RouteSizeDelta(d, caller, n, m) = WithOwnerLayer(d, layer)
    BY <1>0, <1>2 DEF RouteSizeDelta, Grow
  <2> HIDE DEF layer
  <2>2. WithOwnerLayer(d, layer).sponsor_layer = d.sponsor_layer
    BY DEF WithOwnerLayer, Deposit_
  <2> QED
    BY <2>1, <2>2
<1>3. CASE n < TotalBase(d)
  <2> DEFINE delta == TotalBase(d) - n
             part  == SponsorPart(d, caller, delta)
             opart == OwnerPart(d, caller, delta)
             s2 == IF part = 0 THEN d.sponsor_layer
                   ELSE Rebase(d.sponsor_layer, d.sponsor_layer.base - part)
             o2 == IF opart = 0 THEN d.owner_layer
                   ELSE Rebase(d.owner_layer, d.owner_layer.base - opart)
  <2>1. delta \in Nat /\ delta <= TotalBase(d)
    BY <1>0, <1>3
  <2>2. part \in Nat /\ part <= d.sponsor_layer.base
    BY <2>1, PartsFacts
  <2>3. RouteSizeDelta(d, caller, n, m) = WithOwnerLayer(WithSponsorLayer(d, s2), o2)
    BY <1>0, <1>3 DEF RouteSizeDelta, Shrink
  <2> HIDE DEF s2, o2
  <2>4. WithOwnerLayer(WithSponsorLayer(d, s2), o2).sponsor_layer = s2
    BY DEF WithOwnerLayer, WithSponsorLayer, Deposit_
  <2> HIDE DEF part
  <2> QED
    BY <2>2, <2>3, <2>4 DEF s2
<1> QED
  BY <1>0, <1>1, <1>2, <1>3

\* An owner's update of a sponsored record never raises the sponsor's hold
\* above the larger of what it was and the price of the sponsor's own part.
THEOREM SponsorExposureIsBounded == Spec => SponsorExposureBounded
<1>1. ASSUME PalletInv, NEW who \in Users, NEW id \in Ids, NEW p \in Payloads,
             Update(who, id, p), who # info[id].sponsor_layer.payer
      PROVE  info'[id].sponsor_layer.amount <=
               IF info[id].sponsor_layer.amount < info[id].sponsor_layer.base
                 THEN info[id].sponsor_layer.base ELSE info[id].sponsor_layer.amount
  <2> DEFINE s  == info[id].sponsor_layer
             d2 == RouteSizeDelta(info[id], who, ComputeBaseBond(p), mult)
  <2>1. /\ Recorded(id) /\ who = info[id].depositor
        /\ ApplyEdit(id, p, info[id], who) /\ info[id] \in Deposit_
    BY <1>1, RecordedFacts DEF Update
  <2>2. /\ info' = [info EXCEPT ![id] = [d2 EXCEPT !.payload_hash = p]]
        /\ d2 \in Deposit_
    BY <1>1, <2>1, ApplyEditFacts DEF SameRecord
  <2>3. ComputeBaseBond(p) \in Nat /\ mult \in Multipliers
    BY <1>1, BaseBondType, MiddsAssumption DEF PalletInv, TypeOK
  <2>4. \/ d2.sponsor_layer = s
        \/ \E part \in Nat : part <= s.base /\ d2.sponsor_layer = Rebase(s, s.base - part)
    BY <1>1, <2>1, <2>3, SponsorLayerOfOthers
  <2> HIDE DEF d2
  <2>5. info'[id].sponsor_layer = d2.sponsor_layer
    <3>1. [d2 EXCEPT !.payload_hash = p].sponsor_layer = d2.sponsor_layer
      BY <2>2, WithHashFacts
    <3>2. info \in [Ids -> Deposit_ \cup {None}]
      BY <1>1 DEF PalletInv, TypeOK
    <3> QED
      BY <2>2, <3>1, <3>2
  <2>6. s \in Layer /\ s.amount \in Nat /\ s.base \in Nat
    BY <2>1, LayerKinds DEF Layer
  <2>7. CASE d2.sponsor_layer = s
    BY <2>5, <2>6, <2>7
  <2>8. ASSUME NEW part \in Nat, part <= s.base,
               d2.sponsor_layer = Rebase(s, s.base - part)
        PROVE  d2.sponsor_layer.amount <= IF s.amount < s.base THEN s.base ELSE s.amount
    <3>1. d2.sponsor_layer.amount = (s.base - part) + Premium(s)
      BY <2>8 DEF Rebase
    <3>2. Premium(s) = IF s.amount > s.base THEN s.amount - s.base ELSE 0
      BY DEF Premium, SatSub
    <3> HIDE DEF s
    <3> QED
      BY <2>6, <2>8, <3>1, <3>2
  <2> QED
    BY <2>4, <2>5, <2>7, <2>8
<1>2. PalletInv /\ [Next]_vars => ExposureBounded
  BY <1>1 DEF ExposureBounded
<1> QED
  BY <1>2, InvHolds, PTL DEF Spec, SponsorExposureBounded
=============================================================================
