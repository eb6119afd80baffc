----------------------------- MODULE BondLayers -----------------------------
(***************************************************************************)
(* The two-layer bond of a record: what a layer is, how an edit routes a   *)
(* change of size over the sponsor's and the owner's layer, and how the    *)
(* layers are settled when the record is cancelled, slashed or finalized.  *)
(* Pure operators: a deposit record or a ledger in, a new one out, and a   *)
(* guard where the code can return an error.                               *)
(***************************************************************************)
EXTENDS Balances

CONSTANT NoLayer  \* owner_layer = None

Layer == [payer : Users, amount : Nat, base : Nat]

ASSUME NoLayerAssumption == NoLayer \notin Layer

\* saturating_sub on unsigned balances
SatSub(x, y) == IF x > y THEN x - y ELSE 0
Smaller(x, y) == IF x < y THEN x ELSE y

\* What the deposit-time multipliers took on top of the base; kept through
\* every edit.
Premium(layer) == SatSub(layer.amount, layer.base)

HasOwnerLayer(d) == d.owner_layer # NoLayer
OwnerAmount(d) == IF HasOwnerLayer(d) THEN d.owner_layer.amount ELSE 0
OwnerBase(d) == IF HasOwnerLayer(d) THEN d.owner_layer.base ELSE 0
TotalBase(d) == d.sponsor_layer.base + OwnerBase(d)
TotalAmount(d) == d.sponsor_layer.amount + OwnerAmount(d)

-----------------------------------------------------------------------------
(* Editing *)

\* apply_multipliers: M_fast x M_slow as a fraction, rounded down.
ApplyMultipliers(m, base) == (base * m.num) \div m.den

\* Mutant of Rebase: the premium is dropped by an edit.
RebaseToPrice(layer, newBase) ==
  [payer |-> layer.payer, amount |-> newBase, base |-> newBase]

\* A layer opened now, by a deposit or by an owner's first growth.
NewLayer(payer, base, m) ==
  [payer |-> payer, amount |-> ApplyMultipliers(m, base), base |-> base]

\* extend_layer_in_place and shrink_layer_in_place: the layer with another
\* base and the same premium.  A layer banked under its base is brought up
\* to the new base.
Rebase(layer, newBase) ==
  [payer |-> layer.payer, amount |-> newBase + Premium(layer), base |-> newBase]

WithSponsorLayer(d, layer) == [d EXCEPT !.sponsor_layer = layer]
WithOwnerLayer(d, layer) == [d EXCEPT !.owner_layer = layer]

\* Mutant of Grow: whoever grows a sponsored record, the owner layer takes it.
GrowOwnerLayer(d, caller, delta, m) ==
  WithOwnerLayer(d, IF HasOwnerLayer(d)
                      THEN Rebase(d.owner_layer, d.owner_layer.base + delta)
                      ELSE NewLayer(caller, delta, m))

\* Mutant of Grow: whoever grows a sponsored record, the sponsor pays.
GrowSponsorLayer(d, caller, delta, m) ==
  WithSponsorLayer(d, Rebase(d.sponsor_layer, d.sponsor_layer.base + delta))

\* The payload grew by `delta`: the caller's layer takes it.  The owner's
\* first growth of a sponsored record opens the owner layer, priced at the
\* current multipliers.
Grow(d, caller, delta, m) ==
  IF caller = d.sponsor_layer.payer
    THEN WithSponsorLayer(d, Rebase(d.sponsor_layer, d.sponsor_layer.base + delta))
  ELSE WithOwnerLayer(d,
         IF HasOwnerLayer(d)
           THEN Rebase(d.owner_layer, d.owner_layer.base + delta)
           ELSE NewLayer(caller, delta, m))

\* Mutant of SponsorPart: what the owner layer cannot cover is lost.
SponsorPartWithoutOverflow(d, caller, delta) ==
  IF caller = d.sponsor_layer.payer THEN Smaller(d.sponsor_layer.base, delta) ELSE 0

\* The payload shrank by `delta`: the caller's layer gives it back first, and
\* what it cannot cover comes out of the other one.
SponsorPart(d, caller, delta) ==
  IF caller = d.sponsor_layer.payer
    THEN Smaller(d.sponsor_layer.base, delta)
    ELSE Smaller(d.sponsor_layer.base, delta - Smaller(OwnerBase(d), delta))
OwnerPart(d, caller, delta) ==
  IF caller = d.sponsor_layer.payer
    THEN Smaller(OwnerBase(d), delta - Smaller(d.sponsor_layer.base, delta))
    ELSE Smaller(OwnerBase(d), delta)

Shrink(d, caller, delta) ==
  LET s == SponsorPart(d, caller, delta)
      o == OwnerPart(d, caller, delta)
  IN WithOwnerLayer(
       WithSponsorLayer(d, IF s = 0 THEN d.sponsor_layer
                           ELSE Rebase(d.sponsor_layer, d.sponsor_layer.base - s)),
       IF o = 0 THEN d.owner_layer
       ELSE Rebase(d.owner_layer, d.owner_layer.base - o))

\* route_size_delta: the record's layers once its bases sum to newTotal.
RouteSizeDelta(d, caller, newTotal, m) ==
  LET old == TotalBase(d)
  IN IF newTotal = old THEN d
     ELSE IF newTotal > old THEN Grow(d, caller, newTotal - old, m)
     ELSE Shrink(d, caller, old - newTotal)

\* Hold or release the difference on one payer.
CanAdjust(b, payer, old, new) ==
  IF new > old THEN CanHold(b, payer, new - old)
               ELSE CanRelease(b, payer, old - new)

\* Mutant of Adjust: a shrink leaves the hold as it was.
AdjustUpwards(b, payer, old, new) ==
  IF new > old THEN Hold(b, payer, new - old) ELSE b

Adjust(b, payer, old, new) ==
  IF new > old THEN Hold(b, payer, new - old)
               ELSE Release(b, payer, old - new)

\* Bring the holds of both layers from what record d holds to what d2 does.
AdjustSponsor(b, d, d2) ==
  Adjust(b, d.sponsor_layer.payer, d.sponsor_layer.amount, d2.sponsor_layer.amount)

CanRebalance(b, d, d2) ==
  /\ CanAdjust(b, d.sponsor_layer.payer, d.sponsor_layer.amount,
               d2.sponsor_layer.amount)
  /\ HasOwnerLayer(d2) =>
       CanAdjust(AdjustSponsor(b, d, d2), d2.owner_layer.payer,
                 OwnerAmount(d), OwnerAmount(d2))

Rebalance(b, d, d2) ==
  IF HasOwnerLayer(d2)
    THEN Adjust(AdjustSponsor(b, d, d2), d2.owner_layer.payer,
                OwnerAmount(d), OwnerAmount(d2))
    ELSE AdjustSponsor(b, d, d2)

-----------------------------------------------------------------------------
(* Settling *)

SettlementKind == {"Refund", "PremiumOnly", "Full"}

\* The part of a layer's hold that goes to the Treasury.
TreasuryShare(layer, kind) ==
  CASE kind = "Refund"      -> 0
    [] kind = "PremiumOnly" -> Premium(layer)
    [] kind = "Full"        -> layer.amount

\* settle_layer: the Treasury's share straight from the hold, the rest back
\* to the payer.
CanSettleLayer(b, layer, kind) ==
  /\ CanRelease(b, layer.payer, layer.amount)
  /\ TreasuryShare(layer, kind) > 0 =>
       CanTransferOnHold(b, layer.payer, Treasury, TreasuryShare(layer, kind))

\* Mutant of SettleLayer: the Treasury's share is released once more.
SettleLayerTwice(b, layer, kind) ==
  Release(TransferOnHold(b, layer.payer, Treasury, TreasuryShare(layer, kind)),
          layer.payer, layer.amount)

SettleLayer(b, layer, kind) ==
  LET share == TreasuryShare(layer, kind)
  IN Release(TransferOnHold(b, layer.payer, Treasury, share),
             layer.payer, layer.amount - share)

\* settle_bond: the sponsor's layer, then the owner's.
CanSettleBond(b, d, kind) ==
  /\ CanSettleLayer(b, d.sponsor_layer, kind)
  /\ HasOwnerLayer(d) =>
       CanSettleLayer(SettleLayer(b, d.sponsor_layer, kind), d.owner_layer, kind)

\* Mutants of SettleBond: the owner's layer is forgotten, or always refunded.
SettleSponsorOnly(b, d, kind) == SettleLayer(b, d.sponsor_layer, kind)
SettleRefundingOwner(b, d, kind) ==
  IF HasOwnerLayer(d)
    THEN SettleLayer(SettleLayer(b, d.sponsor_layer, kind), d.owner_layer, "Refund")
    ELSE SettleLayer(b, d.sponsor_layer, kind)

SettleBond(b, d, kind) ==
  IF HasOwnerLayer(d)
    THEN SettleLayer(SettleLayer(b, d.sponsor_layer, kind), d.owner_layer, kind)
    ELSE SettleLayer(b, d.sponsor_layer, kind)
=============================================================================
