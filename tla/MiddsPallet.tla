---------------------------- MODULE MiddsPallet ----------------------------
(***************************************************************************)
(* One instance of pallet-midds: the records, their indexes, their bonds   *)
(* and the finalization queue, with one action per extrinsic and the block *)
(* hook in the steps of FinalizationQueue.                                 *)
(*                                                                         *)
(* A user call is transactional: a call that returns an error leaves no    *)
(* trace, so an action is the successful call and its guard every check    *)
(* the call makes.  The dynamic multipliers are reduced to their product,  *)
(* drawn anew at every block.                                              *)
(***************************************************************************)
EXTENDS BondLayers, FiniteSets, Sequences, Functions

CONSTANTS
  MaxRecords,        \* bound: ids are 0 .. MaxRecords - 1
  Payloads,          \* records with at least the fields ident and size
  ValidPayloads,     \* those validate_format accepts
  None,              \* an absent map entry
  Signed,            \* authorizations owners have signed, see Authorization
  Multipliers,       \* M_fast x M_slow, as [num, den]
  BaseChoices,       \* values ForceOrigin may give DepositBase
  PerByteChoices,    \* values ForceOrigin may give DepositPerByte
  InitialFree,       \* free balances at genesis
  TransferAmounts,   \* bound: what plain transfers move
  MaxRemovalsPerCall,
  Window,            \* T::CommitmentWindow
  Cap,               \* T::MaxFinalizationsPerBlock
  LastBlock          \* bound on the block number

Ids == 0 .. MaxRecords - 1
Identifiers == {p.ident : p \in Payloads}

Deposit_ ==
  [depositor : Users, deposited_at : Nat, sponsor_layer : Layer,
   owner_layer : Layer \cup {NoLayer}, payload_hash : Payloads,
   finalized : BOOLEAN]

RemovalRequest == [id : Ids, kind : {"Refund", "Slash"}]

\* What an owner signs for a sponsor or a relayer.  `item` is meaningless in
\* a removal and `id` in a deposit.
Authorization ==
  [action : {"Deposit", "Update", "Remove"}, owner : Users, operator : Users,
   item : Payloads, id : Ids, nonce : Nat, valid_until : Nat]

ASSUME MiddsAssumption ==
  /\ MaxRecords \in Nat
  /\ \A p \in Payloads : p.size \in Nat
  /\ ValidPayloads \subseteq Payloads
  /\ None \notin Payloads /\ None \notin Nat /\ None \notin Deposit_
  /\ Signed \subseteq Authorization
  /\ \A m \in Multipliers : m.num \in Nat /\ m.den \in Nat \ {0}
  /\ Multipliers # {}
  /\ BaseChoices \subseteq Nat /\ BaseChoices \ {0} # {}
  /\ PerByteChoices \subseteq Nat /\ PerByteChoices # {}
  /\ InitialFree \in [Accounts -> Nat]
  /\ TransferAmounts \subseteq Nat
  /\ MaxRemovalsPerCall \in Nat
  /\ Window \in Nat \ {0}
  /\ Cap \in Nat \ {0}
  /\ LastBlock \in Nat \ {0}

\* There are finitely many account ids.
ASSUME FiniteUsers == IsFiniteSet(Users)

VARIABLES
  block, phase, cursor, remaining, probes, due, pending, skipped,
  nextId,      \* NextMiddsId
  items,       \* Items
  claims,      \* IdentifierClaims, as a set of <<identifier, id>>
  hashes,      \* PayloadHashes; a payload stands for its own hash
  info,        \* DepositInfo
  nonce,       \* OnBehalfNonce
  bal,         \* the currency's ledger
  mult,        \* FastMultiplier x SlowMultiplier
  depositBase, \* DepositBase
  perByte,     \* DepositPerByte
  batch        \* force_remove_many's requests still to process

queueVars == <<block, phase, cursor, remaining, probes, due, pending, skipped>>
recordVars == <<nextId, items, claims, hashes, info>>
paramVars == <<mult, depositBase, perByte>>
vars == <<queueVars, recordVars, nonce, bal, paramVars, batch>>

Queue == INSTANCE FinalizationQueue
           WITH MaxPerPrefix <- MaxRecords, FirstBlock <- 1,
                CanFail <- Ids, LastDepositBlock <- LastBlock

-----------------------------------------------------------------------------
(* Checks and computations shared by the calls. *)

\* Extrinsics run one at a time, between two hooks.
Dispatching == phase = "dispatch" /\ batch = <<>>

Recorded(id) == id \in Ids /\ info[id] # None
LiveIds == {id \in Ids : info[id] # None /\ ~info[id].finalized}

\* Saturating block arithmetic never saturates: a record is never younger
\* than its deposit.
Elapsed(d) == block - d.deposited_at
InWindow(d) == Elapsed(d) < Window

\* Mutant of Expiry: the window counts the deposit's own block.
ExpiryInclusive(d) == d.deposited_at + Window - 1
Expiry(d) == d.deposited_at + Window

ComputeBaseBond(p) == depositBase + perByte * p.size

\* Mutant of IdentifierUnchanged: an edit may change the identifier.
IdentifierUnchecked(id, p) == TRUE

IdentifierUnchanged(id, p) == <<p.ident, id>> \in claims

\* ensure_signature_fresh and consume_on_behalf_authorization.
Consume(sig) ==
  /\ block <= sig.valid_until
  /\ nonce[sig.owner] = sig.nonce
  /\ nonce' = [nonce EXCEPT ![sig.owner] = @ + 1]

-----------------------------------------------------------------------------
(* Deposits *)

\* do_deposit
DoDeposit(depositor, payer, p) ==
  LET layer == NewLayer(payer, ComputeBaseBond(p), mult)
  IN /\ p \in ValidPayloads
     /\ hashes[p] = None
     /\ nextId \in Ids
     /\ CanHold(bal, payer, layer.amount)
     /\ bal' = Hold(bal, payer, layer.amount)
     /\ items' = [items EXCEPT ![nextId] = p]
     /\ claims' = claims \cup {<<p.ident, nextId>>}
     /\ hashes' = [hashes EXCEPT ![p] = nextId]
     /\ info' = [info EXCEPT ![nextId] =
                   [depositor     |-> depositor,
                    deposited_at  |-> block,
                    sponsor_layer |-> layer,
                    owner_layer   |-> NoLayer,
                    payload_hash  |-> p,
                    finalized     |-> FALSE]]
     /\ nextId' = nextId + 1
     /\ Queue!Enqueue(nextId)
     /\ UNCHANGED <<paramVars, batch>>

Deposit(who, p) ==
  /\ Dispatching
  /\ DoDeposit(who, who, p)
  /\ UNCHANGED nonce

DepositOnBehalf(sig) ==
  /\ Dispatching
  /\ sig.action = "Deposit"
  /\ Consume(sig)
  /\ DoDeposit(sig.owner, sig.operator, sig.item)

-----------------------------------------------------------------------------
(* Edits *)

\* Mutant of Rehash: the old payload keeps its hash entry.
RehashKeepingOld(id, d, p) ==
  /\ p # d.payload_hash => hashes[p] \in {None, id}
  /\ hashes' = [hashes EXCEPT ![p] = id]
  /\ items' = [items EXCEPT ![id] = p]

\* The reverse hash index follows the payload; an exact duplicate of another
\* record is refused.
Rehash(id, d, p) ==
  /\ p # d.payload_hash => hashes[p] \in {None, id}
  /\ hashes' = IF p = d.payload_hash THEN hashes
               ELSE [hashes EXCEPT ![d.payload_hash] = None, ![p] = id]
  /\ items' = [items EXCEPT ![id] = p]

\* apply_edit
ApplyEdit(id, p, d, caller) ==
  LET d2 == RouteSizeDelta(d, caller, ComputeBaseBond(p), mult)
  IN /\ Rehash(id, d, p)
     /\ CanRebalance(bal, d, d2)
     /\ bal' = Rebalance(bal, d, d2)
     /\ info' = [info EXCEPT ![id] = [d2 EXCEPT !.payload_hash = p]]

\* apply_finalized_edit
ApplyFinalizedEdit(id, p, d) ==
  /\ Rehash(id, d, p)
  /\ info' = [info EXCEPT ![id] = [d EXCEPT !.payload_hash = p]]
  /\ UNCHANGED bal

\* What an edit never touches.
EditFrame == UNCHANGED <<nextId, claims, paramVars, batch>> /\ Queue!QueueIdle

Update(caller, id, p) ==
  /\ Dispatching
  /\ p \in ValidPayloads
  /\ Recorded(id)
  /\ info[id].depositor = caller
  /\ ~info[id].finalized
  /\ IdentifierUnchanged(id, p)
  /\ InWindow(info[id])
  /\ ApplyEdit(id, p, info[id], caller)
  /\ EditFrame
  /\ UNCHANGED nonce

\* Mutant of UpdateOnBehalf: the signature and the parties are checked, the
\* record is not.
UpdateOnBehalfUnchecked(sig) ==
  /\ Dispatching
  /\ sig.action = "Update"
  /\ sig.item \in ValidPayloads
  /\ Recorded(sig.id)
  /\ info[sig.id].sponsor_layer.payer = sig.operator
  /\ IdentifierUnchanged(sig.id, sig.item)
  /\ info[sig.id].depositor = sig.owner
  /\ Consume(sig)
  /\ ApplyEdit(sig.id, sig.item, info[sig.id], sig.operator)
  /\ EditFrame

UpdateOnBehalf(sig) ==
  /\ Dispatching
  /\ sig.action = "Update"
  /\ sig.item \in ValidPayloads
  /\ Recorded(sig.id)
  /\ ~info[sig.id].finalized
  /\ info[sig.id].sponsor_layer.payer = sig.operator
  /\ IdentifierUnchanged(sig.id, sig.item)
  /\ InWindow(info[sig.id])
  /\ info[sig.id].depositor = sig.owner
  /\ Consume(sig)
  /\ ApplyEdit(sig.id, sig.item, info[sig.id], sig.operator)
  /\ EditFrame

ForceEdit(id, p) ==
  /\ Dispatching
  /\ p \in ValidPayloads
  /\ Recorded(id)
  /\ IdentifierUnchanged(id, p)
  /\ \/ /\ info[id].finalized
        /\ ApplyFinalizedEdit(id, p, info[id])
     \/ /\ ~info[id].finalized
        /\ ApplyEdit(id, p, info[id], info[id].sponsor_layer.payer)
  /\ EditFrame
  /\ UNCHANGED nonce

-----------------------------------------------------------------------------
(* Removals *)

\* Mutant of CleanupStorage: the finalization queue keeps the id.
CleanupLeavingQueue(id, d) ==
  /\ items[id] # None
  /\ items' = [items EXCEPT ![id] = None]
  /\ claims' = claims \ {<<items[id].ident, id>>}
  /\ hashes' = [hashes EXCEPT ![d.payload_hash] = None]
  /\ info' = [info EXCEPT ![id] = None]
  /\ Queue!QueueIdle
  /\ UNCHANGED nextId

\* cleanup_storage
CleanupStorage(id, d) ==
  /\ items[id] # None
  /\ items' = [items EXCEPT ![id] = None]
  /\ claims' = claims \ {<<items[id].ident, id>>}
  /\ hashes' = [hashes EXCEPT ![d.payload_hash] = None]
  /\ info' = [info EXCEPT ![id] = None]
  /\ Queue!Dequeue(Expiry(d), id)
  /\ UNCHANGED nextId

\* do_remove_own
DoRemoveOwn(id) ==
  /\ Recorded(id)
  /\ ~info[id].finalized
  /\ InWindow(info[id])
  /\ CanSettleBond(bal, info[id], "PremiumOnly")
  /\ bal' = SettleBond(bal, info[id], "PremiumOnly")
  /\ CleanupStorage(id, info[id])
  /\ UNCHANGED <<paramVars, batch>>

RemoveOwn(caller, id) ==
  /\ Dispatching
  /\ Recorded(id)
  /\ info[id].depositor = caller
  /\ DoRemoveOwn(id)
  /\ UNCHANGED nonce

RemoveOwnOnBehalf(sig) ==
  /\ Dispatching
  /\ sig.action = "Remove"
  /\ Recorded(sig.id)
  /\ info[sig.id].depositor = sig.owner
  /\ Consume(sig)
  /\ DoRemoveOwn(sig.id)

\* do_force_remove_refund and do_force_remove_slash
CanForceRemove(id, kind) ==
  /\ Recorded(id)
  /\ items[id] # None
  /\ kind = "Refund" => ~info[id].finalized
  /\ ~info[id].finalized =>
       CanSettleBond(bal, info[id], IF kind = "Refund" THEN "Refund" ELSE "Full")

DoForceRemove(id, kind) ==
  /\ CanForceRemove(id, kind)
  /\ bal' = IF info[id].finalized THEN bal
            ELSE SettleBond(bal, info[id], IF kind = "Refund" THEN "Refund" ELSE "Full")
  /\ CleanupStorage(id, info[id])

ForceRemove(id, kind) ==
  /\ Dispatching
  /\ DoForceRemove(id, kind)
  /\ UNCHANGED <<nonce, paramVars, batch>>

\* force_remove_many is accepted as a whole, then handles its requests one by
\* one, each in a storage layer of its own; nothing runs in between.
ForceRemoveMany(requests) ==
  /\ Dispatching
  /\ batch' = requests
  /\ UNCHANGED <<queueVars, recordVars, nonce, bal, paramVars>>

BatchStep ==
  /\ phase = "dispatch"
  /\ batch # <<>>
  /\ batch' = Tail(batch)
  /\ \/ DoForceRemove(Head(batch).id, Head(batch).kind)
     \/ /\ ~CanForceRemove(Head(batch).id, Head(batch).kind)
        /\ UNCHANGED <<queueVars, recordVars, bal>>
  /\ UNCHANGED <<nonce, paramVars>>

-----------------------------------------------------------------------------
(* Finalization *)

\* do_finalize
CanFinalize(id) ==
  /\ Recorded(id)
  /\ ~info[id].finalized
  /\ CanSettleBond(bal, info[id], "Full")

DoFinalize(id) ==
  /\ CanFinalize(id)
  /\ bal' = SettleBond(bal, info[id], "Full")
  /\ info' = [info EXCEPT ![id] = [info[id] EXCEPT !.finalized = TRUE]]
  /\ UNCHANGED <<nextId, items, claims, hashes, nonce, paramVars, batch>>

\* Mutant of Finalize: the extrinsic does not check the window.
FinalizeAnytime(id) ==
  /\ Dispatching
  /\ DoFinalize(id)
  /\ Queue!Dequeue(Expiry(info[id]), id)

Finalize(id) ==
  /\ Dispatching
  /\ Recorded(id)
  /\ Elapsed(info[id]) >= Window
  /\ DoFinalize(id)
  /\ Queue!Dequeue(Expiry(info[id]), id)

\* on_initialize adjusts the multipliers, then sweeps the queue.
BeginBlock ==
  /\ batch = <<>>
  /\ Queue!BeginBlock
  /\ mult' \in Multipliers
  /\ UNCHANGED <<recordVars, nonce, bal, depositBase, perByte, batch>>

ProbePrefix ==
  /\ Queue!ProbePrefix
  /\ UNCHANGED <<recordVars, nonce, bal, paramVars, batch>>

FinalizeDue(id) ==
  \/ /\ DoFinalize(id)
     /\ Queue!FinalizeOk(Expiry(info[id]), id)
  \/ /\ ~CanFinalize(id)
     /\ Queue!FinalizeErr(id)
     /\ UNCHANGED <<recordVars, nonce, bal, paramVars, batch>>

EndHook ==
  /\ Queue!EndHook
  /\ UNCHANGED <<recordVars, nonce, bal, paramVars, batch>>

-----------------------------------------------------------------------------
(* Governance parameters, and what accounts do with their free balance. *)

ForceSetDepositBase(new) ==
  /\ Dispatching
  /\ depositBase' = new
  /\ UNCHANGED <<queueVars, recordVars, nonce, bal, mult, perByte, batch>>

ForceSetDepositPerByte(new) ==
  /\ Dispatching
  /\ perByte' = new
  /\ UNCHANGED <<queueVars, recordVars, nonce, bal, mult, depositBase, batch>>

ExternalTransfer(from, to, n) ==
  /\ Dispatching
  /\ CanTransfer(bal, from, to, n)
  /\ bal' = Transfer(bal, from, to, n)
  /\ UNCHANGED <<queueVars, recordVars, nonce, paramVars, batch>>

-----------------------------------------------------------------------------
Init ==
  /\ Queue!Init
  /\ nextId = 0
  /\ items = [id \in Ids |-> None]
  /\ claims = {}
  /\ hashes = [p \in Payloads |-> None]
  /\ info = [id \in Ids |-> None]
  /\ nonce = [a \in Users |-> 0]
  /\ bal = [free |-> InitialFree, held |-> [a \in Accounts |-> 0]]
  /\ mult \in Multipliers
  /\ depositBase \in BaseChoices \ {0}
  /\ perByte \in PerByteChoices
  /\ batch = <<>>

Requests == UNION {[1 .. n -> RemovalRequest] : n \in 1 .. MaxRemovalsPerCall}

Next ==
  \/ \E who \in Users, p \in Payloads : Deposit(who, p)
  \/ \E sig \in Signed : DepositOnBehalf(sig)
  \/ \E who \in Users, id \in Ids, p \in Payloads : Update(who, id, p)
  \/ \E sig \in Signed : UpdateOnBehalf(sig)
  \/ \E who \in Users, id \in Ids : RemoveOwn(who, id)
  \/ \E sig \in Signed : RemoveOwnOnBehalf(sig)
  \/ \E id \in Ids : Finalize(id)
  \/ \E id \in Ids, p \in Payloads : ForceEdit(id, p)
  \/ \E id \in Ids : ForceRemove(id, "Refund")
  \/ \E id \in Ids : ForceRemove(id, "Slash")
  \/ \E reqs \in Requests : ForceRemoveMany(reqs)
  \/ BatchStep
  \/ \E new \in BaseChoices : ForceSetDepositBase(new)
  \/ \E new \in PerByteChoices : ForceSetDepositPerByte(new)
  \/ \E from, to \in Accounts, n \in TransferAmounts : ExternalTransfer(from, to, n)
  \/ BeginBlock
  \/ ProbePrefix
  \/ \E id \in Ids : FinalizeDue(id)
  \/ EndHook

Spec == Init /\ [][Next]_vars
-----------------------------------------------------------------------------
(* Properties *)

TypeOK ==
  /\ Queue!TypeOK
  /\ nextId \in 0 .. MaxRecords
  /\ items \in [Ids -> Payloads \cup {None}]
  /\ claims \in SUBSET (Identifiers \X Ids)
  /\ hashes \in [Payloads -> Ids \cup {None}]
  /\ info \in [Ids -> Deposit_ \cup {None}]
  /\ nonce \in [Users -> Nat]
  /\ bal \in Ledger
  /\ mult \in Multipliers
  /\ depositBase \in BaseChoices
  /\ perByte \in PerByteChoices
  /\ batch \in Seq(RemovalRequest)

\* What account a has locked in record id, and what of it the Treasury takes
\* when the record is settled.
LayerSum(a, id, Part(_)) ==
  (IF info[id].sponsor_layer.payer = a THEN Part(info[id].sponsor_layer) ELSE 0)
  + (IF HasOwnerLayer(info[id]) /\ info[id].owner_layer.payer = a
       THEN Part(info[id].owner_layer) ELSE 0)
Locked(a, id) == LET Amount(layer) == layer.amount IN LayerSum(a, id, Amount)
Forfeited(a, id, kind) ==
  LET Share(layer) == TreasuryShare(layer, kind) IN LayerSum(a, id, Share)

SumOver(S, f(_)) == SumFunction([x \in S |-> f(x)])

\* Bond accounting (property_tests.rs:410): an account's hold is the sum of
\* the layers it pays for in the records not yet finalized, whatever
\* sequence of edits, failed settlements and removals led here.
HoldsMatchLayers ==
  \A a \in Accounts :
    LET LockedIn(id) == Locked(a, id)
    IN bal.held[a] = SumOver(LiveIds, LockedIn)

\* The four maps describe the same records: each record has its one
\* identifier claim and its one payload hash, and nothing is left of a
\* removed record (property_tests.rs:412).
IndexesAgree ==
  /\ \A id \in Ids : info[id] = None <=> items[id] = None
  /\ \A id \in Ids : Recorded(id) =>
       /\ info[id].payload_hash = items[id]
       /\ hashes[items[id]] = id
  /\ \A p \in Payloads : hashes[p] # None => items[hashes[p]] = p
  /\ claims = {<<items[id].ident, id>> : id \in {i \in Ids : Recorded(i)}}

\* The finalization queue holds exactly the records not finalized, under
\* their expiry block: none is forgotten, and none that was removed or
\* finalized is left for the hook to meet.
QueueMatchesRecords ==
  pending = {<<Expiry(info[id]), id>> : id \in LiveIds}

\* No path to finalization, eager or by extrinsic, takes a bond before the
\* commitment window has elapsed.
NeverFinalizedEarly ==
  \A id \in Ids : Recorded(id) /\ info[id].finalized => ~InWindow(info[id])

\* The owner layer belongs to the record's owner, and only a sponsored
\* record has one (types.rs:61).
OwnerLayerIsOwners ==
  \A id \in Ids : Recorded(id) /\ HasOwnerLayer(info[id]) =>
    /\ info[id].owner_layer.payer = info[id].depositor
    /\ info[id].sponsor_layer.payer # info[id].depositor

\* A layer's multiplier premium is banked once, when the layer is opened:
\* no edit, whoever makes it, changes it or passes it to someone else.
PremiumKept ==
  \A id \in Ids : Recorded(id) /\ Recorded(id)' =>
    /\ Premium(info'[id].sponsor_layer) = Premium(info[id].sponsor_layer)
    /\ HasOwnerLayer(info[id]) =>
         /\ HasOwnerLayer(info'[id])
         /\ Premium(info'[id].owner_layer) = Premium(info[id].owner_layer)
PremiumSticky == [][PremiumKept]_vars

\* An id names one deposit for ever: it is never reused, and its owner,
\* sponsor, deposit block and identifier never change.
AttributionKept ==
  \A id \in Ids :
    /\ id < nextId /\ ~Recorded(id) => ~Recorded(id)'
    /\ Recorded(id) /\ Recorded(id)' =>
         /\ info'[id].depositor = info[id].depositor
         /\ info'[id].deposited_at = info[id].deposited_at
         /\ info'[id].sponsor_layer.payer = info[id].sponsor_layer.payer
         /\ items'[id].ident = items[id].ident
AttributionImmutable == [][AttributionKept]_vars

\* What the force origin can do to a finalized record: rewrite it, or slash
\* it, alone or in a batch.
ForcedOn(id) ==
  \/ \E p \in Payloads : ForceEdit(id, p)
  \/ ForceRemove(id, "Slash")
  \/ batch # <<>> /\ Head(batch) = [id |-> id, kind |-> "Slash"] /\ BatchStep

\* A call about the record from anyone else: its owner, a sponsor with the
\* owner's signature, or whoever finalizes it.
CalledOn(id) ==
  \/ \E who \in Users : RemoveOwn(who, id) \/ \E p \in Payloads : Update(who, id, p)
  \/ \E sig \in Signed : sig.id = id /\ (UpdateOnBehalf(sig) \/ RemoveOwnOnBehalf(sig))
  \/ Finalize(id)

\* Finalization is final: from then on only governance changes the record, by
\* a rewrite or a slash, never its owner, a sponsor, an old signature or the
\* hook, and neither moves any money.  A step does not carry its caller, so
\* it is asked that the force origin could take it and that nobody else could.
FinalizedKept ==
  \A id \in Ids : Recorded(id) /\ info[id].finalized =>
    /\ Recorded(id)' => info'[id] = [info[id] EXCEPT !.payload_hash = items'[id]]
    /\ info'[id] # info[id] => ForcedOn(id) /\ ~CalledOn(id) /\ bal' = bal
FinalizedPermanent == [][FinalizedKept]_vars

\* After an edit the two bases add up to what the bond formula asks for the
\* new payload, however the change was split over the layers.
EditRebased ==
  \A id \in LiveIds : Recorded(id)' /\ items'[id] # items[id] =>
    TotalBase(info'[id]) = ComputeBaseBond(items'[id])
EditRebases == [][EditRebased]_vars

\* The only loss a deposit, an edit, a removal or a finalization ever causes
\* is the settlement of the one record that leaves the live set, layer by
\* layer and under one kind of settlement; nobody else pays, and the
\* Treasury receives exactly what the payers lose.
LossSettled ==
  recordVars' # recordVars =>
    LET gone == {id \in LiveIds : ~(Recorded(id)' /\ ~info'[id].finalized)}
        Loss(a) == Wealth(bal, a) - Wealth(bal', a)
    IN \E kind \in SettlementKind :
         /\ \A id \in gone : Recorded(id)' => kind = "Full"
         /\ \A id \in gone : ~InWindow(info[id]) => kind # "PremiumOnly"
         /\ \A a \in Users :
              LET Due(id) == Forfeited(a, id, kind) IN Loss(a) = SumOver(gone, Due)
         /\ -Loss(Treasury) = SumOver(Users, Loss)
SettlementInsulated == [][LossSettled]_vars

\* The owner's own update never takes anything from the sponsor: "only the
\* deposit-time sponsor may grow their own hold" (lib.rs:723).
SponsorInsulated ==
  [][\A who \in Users, id \in Ids, p \in Payloads :
       Update(who, id, p) /\ who # info[id].sponsor_layer.payer =>
         info'[id].sponsor_layer.amount <= info[id].sponsor_layer.amount]_vars

\* What the owner's update can take is bounded: it never raises the sponsor's
\* hold over the unmultiplied price of the sponsor's own part, and leaves a
\* hold at or above that price alone or lowers it.
ExposureBounded ==
  \A who \in Users, id \in Ids, p \in Payloads :
    Update(who, id, p) /\ who # info[id].sponsor_layer.payer =>
      LET s == info[id].sponsor_layer
      IN info'[id].sponsor_layer.amount <= IF s.amount < s.base THEN s.base
                                           ELSE s.amount
SponsorExposureBounded == [][ExposureBounded]_vars

\* Every block hook and every call, seen from the queue, is a step of
\* FinalizationQueue.
QueueRefinement == Queue!Spec
=============================================================================
