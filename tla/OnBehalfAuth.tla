---------------------------- MODULE OnBehalfAuth ----------------------------
(***************************************************************************)
(* Owners' authorizations across several instances of pallet-midds.        *)
(*                                                                         *)
(* An owner signs messages off-chain; whoever holds one may submit it to   *)
(* any instance of the pallet, on any chain, for any record, late, again,  *)
(* or after a later one.  The pallet rebuilds the payload from its own     *)
(* genesis hash and kind and from the call's arguments, and takes the      *)
(* message only if that is what was signed.  The extrinsics are            *)
(* transactional: a call that fails leaves no trace, so only the           *)
(* successful ones are steps.  Bonds, finalization and the rest of the     *)
(* record's life are in MiddsPallet.                                       *)
(***************************************************************************)
EXTENDS Integers, Sequences, FiniteSets

CONSTANTS
  Instances,    \* the pallet instances: records [genesis, kind]
  Users,
  Items,
  Identifier,   \* Midds::identifier of each item
  Signed,       \* the messages owners have signed
  OwnCalls,     \* what owners do without a message: records [instance, owner, action, item]
  NoItem, NoId, \* what a payload without an item or an id holds there
  CommitmentWindow,
  MaxRecords,   \* deposits per instance, for the model
  LastBlock     \* of each chain, for the model

Ids == 0..(MaxRecords - 1)
Chains == {i.genesis : i \in Instances}

Payload(i, action, item, id, operator, nonce, valid_until) ==
  [genesis |-> i.genesis, kind |-> i.kind, action |-> action, item |-> item, id |-> id,
   operator |-> operator, nonce |-> nonce, valid_until |-> valid_until]

\* Instances of one runtime differ in kind, runtimes in genesis hash.
ASSUME AuthAssumption ==
  /\ Instances \subseteq [genesis : Chains, kind : STRING]
  /\ CommitmentWindow \in Nat /\ MaxRecords \in Nat /\ LastBlock \in [Chains -> Nat]
  /\ \A m \in Signed : m.signer \in Users /\ m.payload.nonce \in Nat

VARIABLES
  block,    \* per chain: the block being built
  nonces,   \* per instance: OnBehalfNonce
  records,  \* per instance: DepositInfo and Items of the records there are
  nextId,   \* per instance: NextMiddsId
  done      \* history: per instance, the messages carried out and on which record

authVars == <<block, nonces, records, nextId, done>>

Init ==
  /\ block = [g \in Chains |-> 0]
  /\ nonces = [i \in Instances |-> [u \in Users |-> 0]]
  /\ records = [i \in Instances |-> <<>>]
  /\ nextId = [i \in Instances |-> 0]
  /\ done = [i \in Instances |-> <<>>]

Now(i) == block[i.genesis]

InWindow(i, r) == Now(i) - r.deposited_at < CommitmentWindow

PayloadUnused(i, item) == \A id \in DOMAIN records[i] : records[i][id].item # item

Put(i, id, r) ==
  records' = [records EXCEPT ![i] = [k \in DOMAIN @ \cup {id} |-> IF k = id THEN r ELSE @[k]]]

CleanupStorage(i, id) ==
  records' = [records EXCEPT ![i] = [k \in DOMAIN @ \ {id} |-> @[k]]]

-----------------------------------------------------------------------------
(* Authorizations.                                                         *)

\* The boundary is inclusive.
Fresh(i, m) == Now(i) <= m.payload.valid_until

\* Mutant of Verifies: the payload carries no kind.
VerifiesAnyKind(m, owner, payload) ==
  m.signer = owner /\ [m.payload EXCEPT !.kind = payload.kind] = payload

\* Mutant of Verifies: the payload does not name the record.
VerifiesAnyRecord(m, owner, payload) ==
  m.signer = owner /\ [m.payload EXCEPT !.id = payload.id] = payload

Verifies(m, owner, payload) == m.signer = owner /\ m.payload = payload

\* The nonce, the item and the expiry of the call are pinned by the message.
Consume(i, caller, owner, m, action, target) ==
  LET p == m.payload
  IN  /\ p.nonce = nonces[i][owner]
      /\ Verifies(m, owner, Payload(i, action, p.item, target, caller, p.nonce, p.valid_until))
      /\ nonces' = [nonces EXCEPT ![i][owner] = p.nonce + 1]

CarriedOut(i, m, id) == done' = [done EXCEPT ![i] = Append(@, [msg |-> m, id |-> id])]

-----------------------------------------------------------------------------
(* The calls of one instance.                                              *)

\* `by_hand` is history: the owner has edited the record without a message.
DoDeposit(i, owner, payer, item) ==
  /\ nextId[i] < MaxRecords /\ PayloadUnused(i, item)
  /\ Put(i, nextId[i], [owner |-> owner, sponsor |-> payer, item |-> item,
                        deposited_at |-> Now(i), by_hand |-> FALSE])
  /\ nextId' = [nextId EXCEPT ![i] = @ + 1]

Deposit(c) ==
  /\ DoDeposit(c.instance, c.owner, c.owner, c.item)
  /\ UNCHANGED <<block, nonces, done>>

DepositOnBehalf(i, caller, m) ==
  /\ Fresh(i, m) /\ m.payload.item \in Items
  /\ Consume(i, caller, m.signer, m, "Deposit", NoId)
  /\ DoDeposit(i, m.signer, caller, m.payload.item)
  /\ CarriedOut(i, m, nextId[i])
  /\ UNCHANGED block

CanEdit(i, id, item) ==
  LET r == records[i][id]
  IN  /\ item \in Items /\ Identifier[item] = Identifier[r.item]
      /\ InWindow(i, r)
      /\ item = r.item \/ PayloadUnused(i, item)

Edited(r, item) == [r EXCEPT !.item = item]

Update(i, caller, id, item) ==
  /\ records[i][id].owner = caller /\ CanEdit(i, id, item)
  /\ Put(i, id, [Edited(records[i][id], item) EXCEPT !.by_hand = TRUE])
  /\ UNCHANGED <<block, nonces, nextId, done>>

UpdateOnBehalf(i, caller, id, m) ==
  /\ Fresh(i, m)
  /\ records[i][id].sponsor = caller /\ CanEdit(i, id, m.payload.item)
  /\ Consume(i, caller, records[i][id].owner, m, "Update", id)
  /\ Put(i, id, Edited(records[i][id], m.payload.item))
  /\ CarriedOut(i, m, id)
  /\ UNCHANGED <<block, nextId>>

RemoveOwn(i, caller, id) ==
  /\ records[i][id].owner = caller /\ InWindow(i, records[i][id])
  /\ CleanupStorage(i, id)
  /\ UNCHANGED <<block, nonces, nextId, done>>

\* Any caller the message names will do.
RemoveOwnOnBehalf(i, caller, id, m) ==
  /\ Fresh(i, m) /\ InWindow(i, records[i][id])
  /\ Consume(i, caller, records[i][id].owner, m, "Remove", id)
  /\ CleanupStorage(i, id)
  /\ CarriedOut(i, m, id)
  /\ UNCHANGED <<block, nextId>>

OwnCall(i) ==
  \E c \in {d \in OwnCalls : d.instance = i} :
    \/ c.action = "Deposit" /\ Deposit(c)
    \/ \E id \in DOMAIN records[i] :
         \/ c.action = "Update" /\ Update(i, c.owner, id, c.item)
         \/ c.action = "Remove" /\ RemoveOwn(i, c.owner, id)

Call(i) ==
  \/ OwnCall(i)
  \/ \E caller \in Users, m \in Signed : DepositOnBehalf(i, caller, m)
  \/ \E caller \in Users, id \in DOMAIN records[i] :
       \E m \in Signed : UpdateOnBehalf(i, caller, id, m) \/ RemoveOwnOnBehalf(i, caller, id, m)

BeginBlock(g) ==
  /\ block[g] < LastBlock[g]
  /\ block' = [block EXCEPT ![g] = @ + 1]
  /\ UNCHANGED <<nonces, records, nextId, done>>

Next == (\E i \in Instances : Call(i)) \/ (\E g \in Chains : BeginBlock(g))

Spec == Init /\ [][Next]_authVars

-----------------------------------------------------------------------------
(* Properties.                                                             *)

\* However often, wherever and in whatever order its holders submit it, a
\* message is carried out at most once, on the instance it names, and a
\* signer's messages take effect there in the order of their nonces, without a
\* gap: a call that failed has used up nothing (consume_on_behalf_authorization).
SignedOnce ==
  /\ \A i, j \in Instances : \A p \in DOMAIN done[i], q \in DOMAIN done[j] :
       done[i][p].msg = done[j][q].msg => i = j /\ p = q
  /\ \A i \in Instances, u \in Users :
       {done[i][p].msg.payload.nonce : p \in {q \in DOMAIN done[i] : done[i][q].msg.signer = u}}
         = 0..(nonces[i][u] - 1)

\* A sponsored record is what its owner signed: each message carried out on it
\* was signed by its owner to its sponsor, began with the deposit, named this
\* record afterwards, and the last one gives the record's content unless the
\* owner has edited it by a call of their own since.  A record whose owner's
\* signed removal was carried out is gone for good.
RecordsAsSigned ==
  \A i \in Instances :
    /\ \A p \in DOMAIN done[i] :
         LET m == done[i][p].msg
             id == done[i][p].id
         IN  /\ m.payload.action # "Deposit" => m.payload.id = id
             /\ m.payload.action = "Remove" => id \notin DOMAIN records[i]
             /\ id \in DOMAIN records[i] =>
                  /\ m.signer = records[i][id].owner
                  /\ m.payload.operator = records[i][id].sponsor
                  /\ records[i][id].by_hand \/ m.payload.item = records[i][id].item
                       \/ \E q \in (p + 1)..Len(done[i]) : done[i][q].id = id
    /\ \A id \in DOMAIN records[i] : records[i][id].sponsor # records[i][id].owner =>
         \E p \in DOMAIN done[i] : done[i][p].id = id /\ done[i][p].msg.payload.action = "Deposit"
=============================================================================
