---------------------------- MODULE Catalog_proofs ----------------------------
(***************************************************************************)
(* Signed messages and the lookups, for every set of instances, messages,  *)
(* calls and claims, every storage order and every bound.                  *)
(*                                                                         *)
(* First SignedOnce and RecordsAsSigned: a signed message is carried out   *)
(* at most once, on the instance it names, a signer's messages in the      *)
(* order of their nonces, and a sponsored record is what the last message  *)
(* about it said.  The invariant needs, beyond the property, that a        *)
(* message carried out was addressed to the instance (Addressed) and that  *)
(* its nonce is used up there (BelowNonce): a second use of it would have  *)
(* to meet its nonce.  What a record owes to the history (Signings) needs  *)
(* that no id is given twice (IdsGiven).                                   *)
(*                                                                         *)
(* Then what a page of the lookup may leave out: nothing before its last   *)
(* id, and, up to MAX_LOOKUP_SCAN claims, nothing that the count has not   *)
(* counted.  From this, what a reader who pages through them has at the    *)
(* end, whatever the chain does in the meantime.                           *)
(***************************************************************************)
EXTENDS Catalog, SumLemmas

-----------------------------------------------------------------------------
(* Messages: they take effect once *)

AuthType ==
  /\ nonces \in [Instances -> [Users -> Nat]]
  /\ nextId \in [Instances -> Nat]
  /\ DOMAIN records = Instances
  /\ \A i \in Instances : DOMAIN records[i] \subseteq Nat
  /\ done \in [Instances -> Seq([msg : Signed, id : Nat])]

Addressed ==
  \A i \in Instances : \A p \in DOMAIN done[i] :
    done[i][p].msg.payload.genesis = i.genesis /\ done[i][p].msg.payload.kind = i.kind

BelowNonce ==
  \A i \in Instances : \A p \in DOMAIN done[i] :
    done[i][p].msg.payload.nonce < nonces[i][done[i][p].msg.signer]

UsedOnce ==
  \A i \in Instances : \A p, q \in DOMAIN done[i] :
    done[i][p].msg.signer = done[i][q].msg.signer
      /\ done[i][p].msg.payload.nonce = done[i][q].msg.payload.nonce => p = q

Gapless ==
  \A i \in Instances, u \in Users : \A n \in 0..(nonces[i][u] - 1) :
    \E p \in DOMAIN done[i] : done[i][p].msg.signer = u /\ done[i][p].msg.payload.nonce = n

AuthInv == AuthType /\ Addressed /\ BelowNonce /\ UsedOnce /\ Gapless

\* What appending does to a sequence.
LEMMA AppendFacts ==
  ASSUME NEW S, NEW s \in Seq(S), NEW e \in S
  PROVE  /\ Append(s, e) \in Seq(S)
         /\ DOMAIN s = 1..Len(s) /\ Len(s) \in Nat
         /\ DOMAIN Append(s, e) = 1..(Len(s) + 1)
         /\ \A p \in 1..Len(s) : Append(s, e)[p] = s[p]
         /\ Append(s, e)[Len(s) + 1] = e
OBVIOUS

LEMMA EntryType ==
  ASSUME AuthAssumption, AuthType, NEW i \in Instances, NEW p \in DOMAIN done[i]
  PROVE  /\ done[i][p].msg \in Signed /\ done[i][p].msg.signer \in Users
         /\ done[i][p].msg.payload.nonce \in Nat
<1> DEFINE E == [msg : Signed, id : Nat]
<1>1. done[i] \in Seq(E)
  BY DEF AuthType
<1> HIDE DEF E
<1>2. done[i][p] \in E
  BY <1>1
<1>3. done[i][p].msg \in Signed
  BY <1>2 DEF E
<1> QED BY <1>3 DEF AuthAssumption

LEMMA InitAuthInv == Init => AuthInv
<1> SUFFICES ASSUME Init PROVE AuthInv
  OBVIOUS
<1>1. \A i \in Instances : done[i] = <<>> /\ nonces[i] = [u \in Users |-> 0]
  BY DEF Init
<1>2. AuthType
  BY DEF Init, AuthType
<1>3. Addressed /\ BelowNonce /\ UsedOnce
  BY <1>1 DEF Addressed, BelowNonce, UsedOnce
<1>4. Gapless
  <2> SUFFICES ASSUME NEW i \in Instances, NEW u \in Users, NEW n \in 0..(nonces[i][u] - 1)
               PROVE FALSE
    BY DEF Gapless
  <2>1. nonces[i][u] = 0
    BY <1>1
  <2> QED BY <2>1
<1> QED BY <1>2, <1>3, <1>4 DEF AuthInv

\* A record is put under a natural number or taken away.
LEMMA PutType ==
  ASSUME AuthType, NEW i \in Instances, NEW id \in Nat, NEW r, Put(i, id, r)
  PROVE  DOMAIN records' = Instances /\ \A j \in Instances : DOMAIN records'[j] \subseteq Nat
BY DEF AuthType, Put

LEMMA CleanupType ==
  ASSUME AuthType, NEW i \in Instances, NEW id, CleanupStorage(i, id)
  PROVE  DOMAIN records' = Instances /\ \A j \in Instances : DOMAIN records'[j] \subseteq Nat
BY DEF AuthType, CleanupStorage

\* A message carried out: it met its nonce on the instance it is addressed to,
\* and is the last entry of the history there.
LEMMA ConsumeStep ==
  ASSUME AuthAssumption, AuthInv, NEW i \in Instances, NEW caller, NEW owner, NEW action,
         NEW target, NEW m \in Signed, NEW id \in Nat,
         Consume(i, caller, owner, m, action, target), CarriedOut(i, m, id),
         DOMAIN records' = Instances, \A j \in Instances : DOMAIN records'[j] \subseteq Nat,
         nextId' \in [Instances -> Nat]
  PROVE  AuthInv'
<1> DEFINE e == [msg |-> m, id |-> id]
           E == [msg : Signed, id : Nat]
<1>1. /\ m.signer = owner /\ owner \in Users
      /\ m.payload.genesis = i.genesis /\ m.payload.kind = i.kind
      /\ m.payload.nonce = nonces[i][owner] /\ m.payload.nonce \in Nat
  BY DEF Consume, Verifies, Payload, AuthAssumption
<1>2. nonces' = [nonces EXCEPT ![i][owner] = nonces[i][owner] + 1]
  BY <1>1 DEF Consume
<1>3. /\ \A j \in Instances, u \in Users :
           nonces'[j][u] = IF j = i /\ u = owner THEN nonces[i][owner] + 1 ELSE nonces[j][u]
      /\ nonces' \in [Instances -> [Users -> Nat]]
  BY <1>1, <1>2 DEF AuthInv, AuthType
<1>4. /\ done' = [done EXCEPT ![i] = Append(done[i], e)]
      /\ done[i] \in Seq(E) /\ e \in E
  BY DEF CarriedOut, AuthInv, AuthType
<1> HIDE DEF E, e
<1>5. /\ Append(done[i], e) \in Seq(E) /\ Len(done[i]) \in Nat
      /\ DOMAIN done[i] = 1..Len(done[i])
      /\ DOMAIN Append(done[i], e) = 1..(Len(done[i]) + 1)
      /\ \A p \in 1..Len(done[i]) : Append(done[i], e)[p] = done[i][p]
      /\ Append(done[i], e)[Len(done[i]) + 1] = e
  BY <1>4, AppendFacts
<1>6. /\ DOMAIN done'[i] = 1..(Len(done[i]) + 1)
      /\ \A p \in 1..Len(done[i]) : done'[i][p] = done[i][p]
      /\ done'[i][Len(done[i]) + 1] = e /\ e.msg = m
      /\ \A j \in Instances \ {i} : done'[j] = done[j]
      /\ done' \in [Instances -> Seq(E)]
  BY <1>4, <1>5 DEF AuthInv, AuthType, E, e
<1>7. AuthType'
  BY <1>3, <1>6 DEF AuthType, E
<1>8. \A j \in Instances : \A p \in DOMAIN done'[j] :
        \/ j = i /\ p = Len(done[i]) + 1 /\ done'[j][p].msg = m
        \/ p \in DOMAIN done[j] /\ done'[j][p] = done[j][p]
  <2> SUFFICES ASSUME NEW j \in Instances, NEW p \in DOMAIN done'[j]
               PROVE  \/ j = i /\ p = Len(done[i]) + 1 /\ done'[j][p].msg = m
                      \/ p \in DOMAIN done[j] /\ done'[j][p] = done[j][p]
    OBVIOUS
  <2>1. CASE j # i
    BY <2>1, <1>6
  <2>2. CASE j = i
    <3>1. p \in 1..(Len(done[i]) + 1)
      BY <2>2, <1>6
    <3>2. CASE p = Len(done[i]) + 1
      BY <2>2, <3>2, <1>6
    <3>3. CASE p \in 1..Len(done[i])
      BY <2>2, <3>3, <1>5, <1>6
    <3> QED BY <3>1, <3>2, <3>3, <1>5
  <2> QED BY <2>1, <2>2
<1>9. \A j \in Instances : \A p \in DOMAIN done[j] :
        /\ p \in DOMAIN done'[j] /\ done'[j][p] = done[j][p]
        /\ done[j][p].msg.signer \in Users /\ done[j][p].msg.payload.nonce \in Nat
  <2> SUFFICES ASSUME NEW j \in Instances, NEW p \in DOMAIN done[j]
               PROVE  p \in DOMAIN done'[j] /\ done'[j][p] = done[j][p]
    BY EntryType DEF AuthInv
  <2>1. CASE j # i
    BY <2>1, <1>6
  <2>2. CASE j = i
    BY <2>2, <1>5, <1>6
  <2> QED BY <2>1, <2>2
<1>10. Addressed'
  <2> SUFFICES ASSUME NEW j \in Instances, NEW p \in DOMAIN done'[j]
               PROVE  /\ done'[j][p].msg.payload.genesis = j.genesis
                      /\ done'[j][p].msg.payload.kind = j.kind
    BY DEF Addressed
  <2>1. CASE j = i /\ done'[j][p].msg = m
    BY <2>1, <1>1
  <2>2. CASE p \in DOMAIN done[j] /\ done'[j][p] = done[j][p]
    BY <2>2 DEF AuthInv, Addressed
  <2> QED BY <1>8, <2>1, <2>2
<1>11. BelowNonce'
  <2> SUFFICES ASSUME NEW j \in Instances, NEW p \in DOMAIN done'[j]
               PROVE  done'[j][p].msg.payload.nonce < nonces'[j][done'[j][p].msg.signer]
    BY DEF BelowNonce
  <2>1. CASE j = i /\ done'[j][p].msg = m
    BY <2>1, <1>1, <1>3
  <2>2. CASE p \in DOMAIN done[j] /\ done'[j][p] = done[j][p]
    <3>1. done[j][p].msg.payload.nonce < nonces[j][done[j][p].msg.signer]
      BY <2>2 DEF AuthInv, BelowNonce
    <3>2. nonces[j][done[j][p].msg.signer] \in Nat
      BY <2>2, <1>9, SMTT(30) DEF AuthInv, AuthType
    <3> QED BY <2>2, <3>1, <3>2, <1>3, <1>9, <1>1
  <2> QED BY <1>8, <2>1, <2>2
<1>12. UsedOnce'
  <2> SUFFICES ASSUME NEW j \in Instances, NEW p \in DOMAIN done'[j], NEW q \in DOMAIN done'[j],
                      done'[j][p].msg.signer = done'[j][q].msg.signer,
                      done'[j][p].msg.payload.nonce = done'[j][q].msg.payload.nonce
               PROVE  p = q
    BY DEF UsedOnce
  <2>1. \A x \in DOMAIN done[i] : done[i][x].msg.signer = owner =>
                                  done[i][x].msg.payload.nonce # m.payload.nonce
    BY <1>1, <1>9 DEF AuthInv, BelowNonce
  <2>2. CASE p \in DOMAIN done[j] /\ q \in DOMAIN done[j]
    BY <2>2, <1>9 DEF AuthInv, UsedOnce
  <2>3. ASSUME NEW x \in DOMAIN done'[j], NEW y \in DOMAIN done'[j], x \notin DOMAIN done[j],
               done'[j][x].msg.signer = done'[j][y].msg.signer,
               done'[j][x].msg.payload.nonce = done'[j][y].msg.payload.nonce
        PROVE  x = y
    <3>1. j = i /\ x = Len(done[i]) + 1 /\ done'[j][x].msg = m
      BY <2>3, <1>8
    <3>2. ~(y \in DOMAIN done[j] /\ done'[j][y] = done[j][y])
      BY <2>1, <2>3, <3>1, <1>1
    <3> QED BY <3>1, <3>2, <1>8
  <2> QED BY <2>2, <2>3
<1>13. Gapless'
  <2> SUFFICES ASSUME NEW j \in Instances, NEW u \in Users, NEW n \in 0..(nonces'[j][u] - 1)
               PROVE  \E p \in DOMAIN done'[j] :
                        done'[j][p].msg.signer = u /\ done'[j][p].msg.payload.nonce = n
    BY DEF Gapless
  <2>1. CASE n \in 0..(nonces[j][u] - 1)
    <3>1. PICK p \in DOMAIN done[j] :
            done[j][p].msg.signer = u /\ done[j][p].msg.payload.nonce = n
      BY <2>1, SMTT(30) DEF AuthInv, Gapless
    <3> QED BY <3>1, <1>9
  <2>2. CASE n \notin 0..(nonces[j][u] - 1)
    <3>1. nonces[j][u] \in Nat
      BY DEF AuthInv, AuthType
    <3>2. j = i /\ u = owner
      BY <2>2, <3>1, <1>3
    <3>3. nonces'[j][u] = m.payload.nonce + 1 /\ nonces[j][u] = m.payload.nonce
      BY <3>2, <1>1, <1>3
    <3>4. n = m.payload.nonce
      BY <3>1, <3>3, <2>2
    <3>5. Len(done[i]) + 1 \in DOMAIN done'[i]
      BY <1>5, <1>6
    <3> QED BY <3>2, <3>4, <3>5, <1>1, <1>6
  <2> QED BY <2>1, <2>2
<1> QED BY <1>7, <1>10, <1>11, <1>12, <1>13 DEF AuthInv

\* A call without a message touches neither the nonces nor the history.
LEMMA PlainStep ==
  ASSUME AuthInv, nonces' = nonces, done' = done, nextId' \in [Instances -> Nat],
         DOMAIN records' = Instances, \A j \in Instances : DOMAIN records'[j] \subseteq Nat
  PROVE  AuthInv'
<1>1. AuthType'
  BY DEF AuthInv, AuthType
<1>2. Addressed'
  BY DEF AuthInv, Addressed
<1>3. BelowNonce'
  BY DEF AuthInv, BelowNonce
<1>4. UsedOnce'
  BY DEF AuthInv, UsedOnce
<1>5. Gapless'
  BY DEF AuthInv, Gapless
<1> QED BY <1>1, <1>2, <1>3, <1>4, <1>5 DEF AuthInv

LEMMA DoDepositType ==
  ASSUME AuthType, NEW i \in Instances, NEW owner, NEW payer, NEW item,
         DoDeposit(i, owner, payer, item)
  PROVE  /\ DOMAIN records' = Instances /\ \A j \in Instances : DOMAIN records'[j] \subseteq Nat
         /\ nextId' \in [Instances -> Nat] /\ nextId[i] \in Nat
<1>1. nextId[i] \in Nat
  BY DEF AuthType
<1>2. nextId' \in [Instances -> Nat]
  BY DEF AuthType, DoDeposit
<1>3. PICK r : Put(i, nextId[i], r)
  BY DEF DoDeposit
<1> QED BY <1>1, <1>2, <1>3, PutType

LEMMA NextAuthInv ==
  ASSUME AuthAssumption, AuthInv, [Next]_authVars PROVE AuthInv'
<1> USE DEF AuthInv
<1>1. CASE UNCHANGED authVars
  BY <1>1, PlainStep DEF authVars, AuthType
<1>2. ASSUME NEW g \in Chains, BeginBlock(g) PROVE AuthInv'
  BY <1>2, PlainStep DEF BeginBlock, AuthType
<1>3. ASSUME NEW i \in Instances, NEW c, c.instance = i, Deposit(c) PROVE AuthInv'
  <2>1. DoDeposit(i, c.owner, c.owner, c.item) /\ nonces' = nonces /\ done' = done
    BY <1>3 DEF Deposit
  <2> QED BY <2>1, DoDepositType, PlainStep
<1>4. ASSUME NEW i \in Instances, NEW caller, NEW m \in Signed, DepositOnBehalf(i, caller, m)
      PROVE AuthInv'
  <2>1. /\ DoDeposit(i, m.signer, caller, m.payload.item) /\ CarriedOut(i, m, nextId[i])
        /\ Consume(i, caller, m.signer, m, "Deposit", NoId)
    BY <1>4 DEF DepositOnBehalf
  <2>2. /\ DOMAIN records' = Instances /\ \A j \in Instances : DOMAIN records'[j] \subseteq Nat
        /\ nextId' \in [Instances -> Nat] /\ nextId[i] \in Nat
    BY <2>1, DoDepositType
  <2> QED BY <2>1, <2>2, ConsumeStep
<1>5. ASSUME NEW i \in Instances, NEW caller, NEW id \in DOMAIN records[i], NEW item,
             Update(i, caller, id, item)
      PROVE AuthInv'
  <2>1. PICK r : Put(i, id, r)
    BY <1>5 DEF Update
  <2>2. id \in Nat
    BY <1>5 DEF AuthType
  <2>3. nonces' = nonces /\ done' = done /\ nextId' = nextId
    BY <1>5 DEF Update
  <2> QED BY <2>1, <2>2, <2>3, PutType, PlainStep DEF AuthType
<1>6. ASSUME NEW i \in Instances, NEW caller, NEW id \in DOMAIN records[i], RemoveOwn(i, caller, id)
      PROVE AuthInv'
  <2>1. CleanupStorage(i, id) /\ nonces' = nonces /\ done' = done /\ nextId' = nextId
    BY <1>6 DEF RemoveOwn
  <2> QED BY <2>1, CleanupType, PlainStep DEF AuthType
<1>7. ASSUME NEW i \in Instances, NEW caller, NEW id \in DOMAIN records[i], NEW m \in Signed,
             UpdateOnBehalf(i, caller, id, m)
      PROVE AuthInv'
  <2>1. PICK r : Put(i, id, r)
    BY <1>7 DEF UpdateOnBehalf
  <2>2. id \in Nat
    BY <1>7 DEF AuthType
  <2>3. /\ Consume(i, caller, records[i][id].owner, m, "Update", id)
        /\ CarriedOut(i, m, id) /\ nextId' = nextId
    BY <1>7 DEF UpdateOnBehalf
  <2>4. DOMAIN records' = Instances /\ \A j \in Instances : DOMAIN records'[j] \subseteq Nat
    BY <2>1, <2>2, PutType
  <2> QED BY <2>2, <2>3, <2>4, ConsumeStep DEF AuthType
<1>8. ASSUME NEW i \in Instances, NEW caller, NEW id \in DOMAIN records[i], NEW m \in Signed,
             RemoveOwnOnBehalf(i, caller, id, m)
      PROVE AuthInv'
  <2>1. /\ Consume(i, caller, records[i][id].owner, m, "Remove", id)
        /\ CarriedOut(i, m, id) /\ CleanupStorage(i, id) /\ nextId' = nextId
    BY <1>8 DEF RemoveOwnOnBehalf
  <2>2. id \in Nat
    BY <1>8 DEF AuthType
  <2>3. DOMAIN records' = Instances /\ \A j \in Instances : DOMAIN records'[j] \subseteq Nat
    BY <2>1, CleanupType
  <2> QED BY <2>1, <2>2, <2>3, ConsumeStep DEF AuthType
<1>9. ASSUME NEW i \in Instances, Call(i) PROVE AuthInv'
  BY <1>9, <1>3, <1>4, <1>5, <1>6, <1>7, <1>8 DEF Call, OwnCall
<1> QED BY <1>1, <1>2, <1>9 DEF Next

\* The invariant gives the property: equal messages are addressed to the same
\* instance and carry the same nonce, which one signer uses once there.
LEMMA AuthInvGivesSignedOnce ==
  ASSUME AuthAssumption, AuthInv PROVE SignedOnce
<1>1. ASSUME NEW i \in Instances, NEW j \in Instances,
             NEW p \in DOMAIN done[i], NEW q \in DOMAIN done[j], done[i][p].msg = done[j][q].msg
      PROVE  i = j /\ p = q
  <2>1. i.genesis = j.genesis /\ i.kind = j.kind
    BY <1>1 DEF AuthInv, Addressed
  <2>2. i = j
    BY <2>1 DEF AuthAssumption
  <2> QED BY <2>2, <1>1 DEF AuthInv, UsedOnce
<1>2. ASSUME NEW i \in Instances, NEW u \in Users
      PROVE {done[i][p].msg.payload.nonce : p \in {q \in DOMAIN done[i] : done[i][q].msg.signer = u}}
              = 0..(nonces[i][u] - 1)
  <2>1. nonces[i][u] \in Nat
    BY DEF AuthInv, AuthType
  <2>2. \A p \in DOMAIN done[i] : done[i][p].msg.signer = u =>
          done[i][p].msg.payload.nonce \in 0..(nonces[i][u] - 1)
    <3> SUFFICES ASSUME NEW p \in DOMAIN done[i], done[i][p].msg.signer = u
                 PROVE  done[i][p].msg.payload.nonce \in 0..(nonces[i][u] - 1)
      OBVIOUS
    <3>2. done[i][p].msg.payload.nonce \in Nat
      BY EntryType DEF AuthInv
    <3>3. done[i][p].msg.payload.nonce < nonces[i][u]
      BY DEF AuthInv, BelowNonce
    <3> QED BY <2>1, <3>2, <3>3
  <2>3. \A n \in 0..(nonces[i][u] - 1) : \E p \in DOMAIN done[i] :
          done[i][p].msg.signer = u /\ done[i][p].msg.payload.nonce = n
    BY DEF AuthInv, Gapless
  <2> QED BY <2>2, <2>3
<1> QED BY <1>1, <1>2 DEF SignedOnce

\* SignedOnce: a signed message takes effect at most once, on the instance it
\* is addressed to, and a signer's messages there in the order of their nonces
\* without a gap (consume_on_behalf_authorization, verify_owner_signature).
THEOREM MessagesTakeEffectOnce == Spec => []SignedOnce
<1>1. Init => AuthInv
  BY InitAuthInv
<1>2. AuthInv /\ [Next]_authVars => AuthInv'
  BY AuthAssumption, NextAuthInv
<1>3. AuthInv => SignedOnce
  BY AuthAssumption, AuthInvGivesSignedOnce
<1> QED BY <1>1, <1>2, <1>3, PTL DEF Spec

-----------------------------------------------------------------------------
(* What the messages carried out say of the records *)

Shape(r) == r = [owner |-> r.owner, sponsor |-> r.sponsor, item |-> r.item,
                 deposited_at |-> r.deposited_at, by_hand |-> r.by_hand]

\* Beyond RecordsAsSigned the invariant needs that an id is given once: every
\* record and every entry of the history is below the next id.
RecordShape == \A i \in Instances : \A id \in DOMAIN records[i] : Shape(records[i][id])

IdsGiven ==
  \A i \in Instances :
    /\ \A id \in DOMAIN records[i] : id < nextId[i]
    /\ \A p \in DOMAIN done[i] : done[i][p].id < nextId[i]

\* One entry of a history, against the records there are.
EntrySigned(recs, hist, p) ==
  LET m == hist[p].msg
      id == hist[p].id
  IN  /\ m.payload.action # "Deposit" => m.payload.id = id
      /\ m.payload.action = "Remove" => id \notin DOMAIN recs
      /\ id \in DOMAIN recs =>
           /\ m.signer = recs[id].owner
           /\ m.payload.operator = recs[id].sponsor
           /\ recs[id].by_hand \/ m.payload.item = recs[id].item
                \/ \E q \in (p + 1)..Len(hist) : hist[q].id = id

SponsorSigned(recs, hist, id) ==
  recs[id].sponsor # recs[id].owner =>
    \E p \in DOMAIN hist : hist[p].id = id /\ hist[p].msg.payload.action = "Deposit"

Signings ==
  \A i \in Instances :
    /\ \A p \in DOMAIN done[i] : EntrySigned(records[i], done[i], p)
    /\ \A id \in DOMAIN records[i] : SponsorSigned(records[i], done[i], id)

SignedInv == AuthInv /\ RecordShape /\ IdsGiven /\ Signings

LEMMA SigningsAreTheProperty == Signings => RecordsAsSigned
BY DEF Signings, EntrySigned, SponsorSigned, RecordsAsSigned

\* An edit replaces the item, and a plain one sets by_hand.
LEMMA EditedFields ==
  ASSUME NEW r, Shape(r), NEW item
  PROVE  /\ Shape(Edited(r, item)) /\ Shape([Edited(r, item) EXCEPT !.by_hand = TRUE])
         /\ Edited(r, item).owner = r.owner /\ Edited(r, item).sponsor = r.sponsor
         /\ Edited(r, item).item = item
         /\ LET h == [Edited(r, item) EXCEPT !.by_hand = TRUE]
            IN  h.owner = r.owner /\ h.sponsor = r.sponsor /\ h.by_hand
<1> DEFINE o == r.owner  s == r.sponsor  t == r.item  d == r.deposited_at  b == r.by_hand
<1>1. r = [owner |-> o, sponsor |-> s, item |-> t, deposited_at |-> d, by_hand |-> b]
  BY DEF Shape
<1> HIDE DEF o, s, t, d, b
<1>2. Edited(r, item) =
        [owner |-> o, sponsor |-> s, item |-> item, deposited_at |-> d, by_hand |-> b]
  BY <1>1 DEF Edited
<1>3. [Edited(r, item) EXCEPT !.by_hand = TRUE] =
        [owner |-> o, sponsor |-> s, item |-> item, deposited_at |-> d, by_hand |-> TRUE]
  <2>1. \A x, e : e = [owner |-> o, sponsor |-> s, item |-> item, deposited_at |-> d, by_hand |-> b]
          => [e EXCEPT !.by_hand = x] =
               [owner |-> o, sponsor |-> s, item |-> item, deposited_at |-> d, by_hand |-> x]
    OBVIOUS
  <2> QED BY <1>2, <2>1, Zenon
<1>4. r.owner = o /\ r.sponsor = s
  BY <1>1
<1> QED BY <1>2, <1>3, <1>4 DEF Shape

LEMMA PutFacts ==
  ASSUME AuthType, NEW i \in Instances, NEW id, NEW r, Put(i, id, r)
  PROVE  /\ DOMAIN records'[i] = DOMAIN records[i] \cup {id} /\ records'[i][id] = r
         /\ \A k \in DOMAIN records[i] : k # id => records'[i][k] = records[i][k]
         /\ \A j \in Instances : j # i => records'[j] = records[j]
BY DEF AuthType, Put

LEMMA CleanupFacts ==
  ASSUME AuthType, NEW i \in Instances, NEW id, CleanupStorage(i, id)
  PROVE  /\ DOMAIN records'[i] = DOMAIN records[i] \ {id}
         /\ \A k \in DOMAIN records'[i] : records'[i][k] = records[i][k]
         /\ \A j \in Instances : j # i => records'[j] = records[j]
BY DEF AuthType, CleanupStorage

LEMMA ShapeOfRecord ==
  ASSUME NEW o, NEW s, NEW t, NEW d, NEW b
  PROVE  Shape([owner |-> o, sponsor |-> s, item |-> t, deposited_at |-> d, by_hand |-> b])
BY DEF Shape

\* What a history of one entry more, or of none more, says.
Extends(hist, hist2) ==
  /\ Len(hist) \in Nat /\ Len(hist2) \in Nat /\ Len(hist) <= Len(hist2)
  /\ DOMAIN hist = 1..Len(hist) /\ DOMAIN hist2 = 1..Len(hist2)
  /\ \A p \in 1..Len(hist) : hist2[p] = hist[p]

\* An entry stays good when its record is gone, is as it was, is edited by
\* hand, or has a later entry.
LEMMA EntryKept ==
  ASSUME NEW recs, NEW recs2, NEW hist, NEW hist2, Extends(hist, hist2),
         NEW p \in DOMAIN hist, EntrySigned(recs, hist, p),
         hist[p].id \in DOMAIN recs2 =>
           /\ hist[p].id \in DOMAIN recs
           /\ recs2[hist[p].id].owner = recs[hist[p].id].owner
           /\ recs2[hist[p].id].sponsor = recs[hist[p].id].sponsor
           /\ \/ recs2[hist[p].id] = recs[hist[p].id]
              \/ recs2[hist[p].id].by_hand
              \/ \E q \in (p + 1)..Len(hist2) : hist2[q].id = hist[p].id
  PROVE  EntrySigned(recs2, hist2, p)
<1> DEFINE m == hist[p].msg
           id == hist[p].id
<1>1. hist2[p] = hist[p]
  BY DEF Extends
<1>2. /\ m.payload.action # "Deposit" => m.payload.id = id
      /\ m.payload.action = "Remove" => id \notin DOMAIN recs
  BY DEF EntrySigned
<1>3. ASSUME id \in DOMAIN recs2
      PROVE  /\ m.signer = recs2[id].owner
             /\ m.payload.operator = recs2[id].sponsor
  BY <1>3 DEF EntrySigned
<1>4. ASSUME id \in DOMAIN recs2
      PROVE  recs2[id].by_hand \/ m.payload.item = recs2[id].item
               \/ \E q \in (p + 1)..Len(hist2) : hist2[q].id = id
  <2>1. CASE recs2[id] = recs[id]
    <3>1. recs[id].by_hand \/ m.payload.item = recs[id].item
            \/ \E q \in (p + 1)..Len(hist) : hist[q].id = id
      BY <1>4 DEF EntrySigned
    <3>2. CASE \E q \in (p + 1)..Len(hist) : hist[q].id = id
      <4>1. PICK q \in (p + 1)..Len(hist) : hist[q].id = id
        BY <3>2
      <4>2. p \in 1..Len(hist)
        BY DEF Extends
      <4>3. q \in 1..Len(hist) /\ q \in (p + 1)..Len(hist2)
        BY <4>1, <4>2 DEF Extends
      <4> QED BY <4>1, <4>3 DEF Extends
    <3> QED BY <2>1, <3>1, <3>2, Zenon
  <2> QED BY <1>4, <2>1, Zenon
<1>5. id \in DOMAIN recs2 => id \in DOMAIN recs
  OBVIOUS
<1> QED BY <1>1, <1>2, <1>3, <1>4, <1>5, Zenon DEF EntrySigned

\* A record put in the place of another with the same owner and sponsor is
\* sponsored by the same deposit.
LEMMA SponsorKept ==
  ASSUME NEW recs, NEW recs2, NEW hist, NEW hist2, Extends(hist, hist2), NEW id,
         SponsorSigned(recs, hist, id),
         recs2[id].owner = recs[id].owner, recs2[id].sponsor = recs[id].sponsor
  PROVE  SponsorSigned(recs2, hist2, id)
<1> SUFFICES ASSUME recs2[id].sponsor # recs2[id].owner
             PROVE  \E p \in DOMAIN hist2 :
                      hist2[p].id = id /\ hist2[p].msg.payload.action = "Deposit"
  BY DEF SponsorSigned
<1>1. PICK p \in DOMAIN hist : hist[p].id = id /\ hist[p].msg.payload.action = "Deposit"
  BY DEF SponsorSigned
<1>2. p \in DOMAIN hist2 /\ hist2[p] = hist[p]
  BY DEF Extends
<1> QED BY <1>1, <1>2

\* Only instance i changes.
LEMMA SigningsAt ==
  ASSUME Signings, NEW i \in Instances,
         \A j \in Instances : j # i => records'[j] = records[j] /\ done'[j] = done[j],
         \A p \in DOMAIN done'[i] : EntrySigned(records'[i], done'[i], p),
         \A id \in DOMAIN records'[i] : SponsorSigned(records'[i], done'[i], id)
  PROVE  Signings'
<1> SUFFICES ASSUME NEW j \in Instances
             PROVE  /\ \A p \in DOMAIN done'[j] : EntrySigned(records'[j], done'[j], p)
                    /\ \A id \in DOMAIN records'[j] : SponsorSigned(records'[j], done'[j], id)
  BY DEF Signings
<1>1. CASE j = i
  BY <1>1
<1>2. CASE j # i
  <2>1. records'[j] = records[j] /\ done'[j] = done[j]
    BY <1>2
  <2>2. /\ \A p \in DOMAIN done[j] : EntrySigned(records[j], done[j], p)
        /\ \A id \in DOMAIN records[j] : SponsorSigned(records[j], done[j], id)
    BY DEF Signings
  <2> QED BY <2>1, <2>2, Zenon
<1> QED BY <1>1, <1>2

\* Records and history stay below the next id.
LEMMA IdsAt ==
  ASSUME AuthType, RecordShape, IdsGiven, NEW i \in Instances, nextId' \in [Instances -> Nat],
         nextId[i] <= nextId'[i],
         \A j \in Instances : j # i =>
           records'[j] = records[j] /\ done'[j] = done[j] /\ nextId'[j] = nextId[j],
         DOMAIN records'[i] \subseteq Nat,
         \A id \in DOMAIN records'[i] :
           \/ id \in DOMAIN records[i] /\ records'[i][id] = records[i][id]
           \/ id < nextId'[i] /\ Shape(records'[i][id]),
         \A p \in DOMAIN done'[i] :
           \/ p \in DOMAIN done[i] /\ done'[i][p] = done[i][p]
           \/ done'[i][p].id < nextId'[i]
  PROVE  RecordShape' /\ IdsGiven'
<1>1. \A id \in DOMAIN records'[i] : Shape(records'[i][id]) /\ id < nextId'[i]
  <2> SUFFICES ASSUME NEW id \in DOMAIN records'[i]
               PROVE  Shape(records'[i][id]) /\ id < nextId'[i]
    OBVIOUS
  <2>1. CASE id \in DOMAIN records[i] /\ records'[i][id] = records[i][id]
    <3>1. Shape(records[i][id])
      BY <2>1 DEF RecordShape
    <3>2. id < nextId[i] /\ id \in Nat
      BY <2>1 DEF IdsGiven
    <3>3. nextId[i] \in Nat /\ nextId'[i] \in Nat
      BY DEF AuthType
    <3> QED BY <2>1, <3>1, <3>2, <3>3
  <2> QED BY <2>1
<1>2. \A p \in DOMAIN done'[i] : done'[i][p].id < nextId'[i]
  <2> SUFFICES ASSUME NEW p \in DOMAIN done'[i], p \in DOMAIN done[i], done'[i][p] = done[i][p]
               PROVE  done'[i][p].id < nextId'[i]
    OBVIOUS
  <2>1. done[i][p].id < nextId[i]
    BY DEF IdsGiven
  <2>2. done[i][p].id \in Nat
    <3> DEFINE E == [msg : Signed, id : Nat]
    <3>1. done[i] \in Seq(E)
      BY DEF AuthType
    <3> HIDE DEF E
    <3>2. done[i][p] \in E
      BY <3>1
    <3> QED BY <3>2 DEF E
  <2>3. nextId[i] \in Nat /\ nextId'[i] \in Nat
    BY DEF AuthType
  <2> QED BY <2>1, <2>2, <2>3
<1>3. RecordShape'
  <2> SUFFICES ASSUME NEW j \in Instances, NEW id \in DOMAIN records'[j]
               PROVE  Shape(records'[j][id])
    BY DEF RecordShape
  <2>1. CASE j = i
    BY <2>1, <1>1, Zenon
  <2>2. CASE j # i
    BY <2>2 DEF RecordShape
  <2> QED BY <2>1, <2>2
<1>4. IdsGiven'
  BY <1>1, <1>2 DEF IdsGiven
<1> QED BY <1>3, <1>4

\* Only the last entry of the history can be new, and it is the one carried out.
LEMMA HistoryGrows ==
  ASSUME AuthType, NEW i \in Instances, NEW m \in Signed, NEW id \in Nat, CarriedOut(i, m, id)
  PROVE  /\ Extends(done[i], done'[i])
         /\ \A j \in Instances : j # i => done'[j] = done[j]
         /\ Len(done[i]) < Len(done'[i]) /\ Len(done'[i]) \in DOMAIN done'[i]
         /\ done'[i][Len(done'[i])].msg = m /\ done'[i][Len(done'[i])].id = id
         /\ \A p \in DOMAIN done'[i] : p \in DOMAIN done[i] \/ p = Len(done'[i])
<1> DEFINE e == [msg |-> m, id |-> id]
           E == [msg : Signed, id : Nat]
<1>1. /\ done' = [done EXCEPT ![i] = Append(done[i], e)]
      /\ done[i] \in Seq(E) /\ e \in E /\ e.msg = m /\ e.id = id
  BY DEF CarriedOut, AuthType
<1> HIDE DEF E, e
<1>2. /\ Append(done[i], e) \in Seq(E) /\ Len(done[i]) \in Nat
      /\ DOMAIN done[i] = 1..Len(done[i])
      /\ DOMAIN Append(done[i], e) = 1..(Len(done[i]) + 1)
      /\ \A p \in 1..Len(done[i]) : Append(done[i], e)[p] = done[i][p]
      /\ Append(done[i], e)[Len(done[i]) + 1] = e
  BY <1>1, AppendFacts
<1>3. Len(Append(done[i], e)) = Len(done[i]) + 1
  BY <1>1
<1>4. done'[i] = Append(done[i], e) /\ \A j \in Instances : j # i => done'[j] = done[j]
  BY <1>1 DEF AuthType
<1>5. /\ Len(done'[i]) = Len(done[i]) + 1 /\ DOMAIN done'[i] = 1..(Len(done[i]) + 1)
      /\ \A p \in 1..Len(done[i]) : done'[i][p] = done[i][p]
      /\ done'[i][Len(done[i]) + 1] = e
  BY <1>2, <1>3, <1>4
<1>6. Extends(done[i], done'[i])
  BY <1>2, <1>5 DEF Extends
<1> QED BY <1>1, <1>2, <1>4, <1>5, <1>6

LEMMA HistoryKept ==
  ASSUME AuthType, done' = done, NEW i \in Instances
  PROVE  /\ Extends(done[i], done'[i])
         /\ \A j \in Instances : j # i => done'[j] = done[j]
         /\ \A p \in DOMAIN done'[i] : p \in DOMAIN done[i]
<1> DEFINE E == [msg : Signed, id : Nat]
<1>1. done[i] \in Seq(E)
  BY DEF AuthType
<1> HIDE DEF E
<1> QED BY <1>1 DEF Extends

\* A deposit, with a message or without: no entry before it names its id.
LEMMA DepositSignings ==
  ASSUME SignedInv, NEW i \in Instances, NEW owner, NEW payer, NEW item,
         DoDeposit(i, owner, payer, item), nextId' \in [Instances -> Nat],
         Extends(done[i], done'[i]), \A j \in Instances : j # i => done'[j] = done[j],
         \A p \in DOMAIN done'[i] :
           \/ p \in DOMAIN done[i]
           \/ /\ done'[i][p].id = nextId[i] /\ done'[i][p].msg.signer = owner
              /\ done'[i][p].msg.payload.action = "Deposit"
              /\ done'[i][p].msg.payload.operator = payer
              /\ done'[i][p].msg.payload.item = item,
         payer # owner =>
           \E p \in DOMAIN done'[i] :
             done'[i][p].id = nextId[i] /\ done'[i][p].msg.payload.action = "Deposit"
  PROVE  RecordShape' /\ IdsGiven' /\ Signings'
<1> DEFINE n == nextId[i]
<1>1. /\ AuthType /\ RecordShape /\ IdsGiven /\ Signings
      /\ n \in Nat /\ DOMAIN records[i] \subseteq Nat
  BY DEF SignedInv, AuthInv, AuthType
<1>2. PICK r : /\ Put(i, n, r) /\ Shape(r)
               /\ r.owner = owner /\ r.sponsor = payer /\ r.item = item
  <2> DEFINE r == [owner |-> owner, sponsor |-> payer, item |-> item,
                   deposited_at |-> Now(i), by_hand |-> FALSE]
  <2>1. Put(i, n, r)
    BY DEF DoDeposit
  <2>2. Shape(r)
    BY ShapeOfRecord
  <2> QED BY <2>1, <2>2
<1>3. /\ DOMAIN records'[i] = DOMAIN records[i] \cup {n} /\ records'[i][n] = r
      /\ \A k \in DOMAIN records[i] : k # n => records'[i][k] = records[i][k]
      /\ \A j \in Instances : j # i => records'[j] = records[j]
  <2> HIDE DEF n
  <2> QED BY <1>1, <1>2, PutFacts
<1>4. nextId'[i] = n + 1 /\ \A j \in Instances : j # i => nextId'[j] = nextId[j]
  BY <1>1 DEF DoDeposit, AuthType
<1>5. \A k \in DOMAIN records[i] : k # n
  BY <1>1 DEF IdsGiven
<1>6. \A p \in DOMAIN done[i] : done[i][p].id # n
  BY <1>1 DEF IdsGiven
<1>7. RecordShape' /\ IdsGiven'
  <2>1. \A id \in DOMAIN records'[i] :
           \/ id \in DOMAIN records[i] /\ records'[i][id] = records[i][id]
           \/ id < nextId'[i] /\ Shape(records'[i][id])
    BY <1>1, <1>2, <1>3, <1>4, <1>5
  <2>2. \A p \in DOMAIN done'[i] :
           \/ p \in DOMAIN done[i] /\ done'[i][p] = done[i][p]
           \/ done'[i][p].id < nextId'[i]
    BY <1>1, <1>4 DEF Extends
  <2>3. DOMAIN records'[i] \subseteq Nat /\ nextId[i] <= nextId'[i]
    BY <1>1, <1>3, <1>4
  <2> HIDE DEF n
  <2> QED BY <1>1, <1>3, <1>4, <2>1, <2>2, <2>3, IdsAt
<1>8. ASSUME NEW p \in DOMAIN done'[i] PROVE EntrySigned(records'[i], done'[i], p)
  <2>1. CASE p \in DOMAIN done[i]
    <3>1. EntrySigned(records[i], done[i], p)
      BY <1>1, <2>1 DEF Signings
    <3>2. done[i][p].id \in DOMAIN records'[i] =>
            /\ done[i][p].id \in DOMAIN records[i]
            /\ records'[i][done[i][p].id] = records[i][done[i][p].id]
      BY <1>3, <1>6, <2>1
    <3> QED BY <2>1, <3>1, <3>2, EntryKept
  <2>2. CASE p \notin DOMAIN done[i]
    <3>1. /\ done'[i][p].id = n /\ done'[i][p].msg.signer = owner
          /\ done'[i][p].msg.payload.action = "Deposit"
          /\ done'[i][p].msg.payload.operator = payer /\ done'[i][p].msg.payload.item = item
      BY <2>2
    <3> QED BY <3>1, <1>2, <1>3 DEF EntrySigned
  <2> QED BY <2>1, <2>2
<1>9. ASSUME NEW id \in DOMAIN records'[i] PROVE SponsorSigned(records'[i], done'[i], id)
  <2>1. CASE id = n
    BY <2>1, <1>2, <1>3 DEF SponsorSigned
  <2>2. CASE id # n
    <3>1. id \in DOMAIN records[i] /\ records'[i][id] = records[i][id]
      BY <2>2, <1>3
    <3>2. SponsorSigned(records[i], done[i], id)
      BY <1>1, <3>1 DEF Signings
    <3> QED BY <3>1, <3>2, SponsorKept
  <2> QED BY <2>1, <2>2
<1>10. Signings'
  BY <1>1, <1>3, <1>8, <1>9, SigningsAt
<1> QED BY <1>7, <1>10

\* An edit keeps owner and sponsor, and either is marked as the owner's own or
\* is the new last entry.
LEMMA EditSignings ==
  ASSUME SignedInv, NEW i \in Instances, NEW id \in DOMAIN records[i], NEW r,
         Put(i, id, r), Shape(r),
         r.owner = records[i][id].owner, r.sponsor = records[i][id].sponsor,
         nextId' = nextId,
         Extends(done[i], done'[i]), \A j \in Instances : j # i => done'[j] = done[j],
         \A p \in DOMAIN done'[i] :
           \/ p \in DOMAIN done[i]
           \/ /\ done'[i][p].id = id /\ done'[i][p].msg.signer = r.owner
              /\ done'[i][p].msg.payload.action = "Update"
              /\ done'[i][p].msg.payload.id = id
              /\ done'[i][p].msg.payload.operator = r.sponsor
              /\ done'[i][p].msg.payload.item = r.item,
         \/ r.by_hand
         \/ Len(done[i]) < Len(done'[i]) /\ done'[i][Len(done'[i])].id = id
  PROVE  RecordShape' /\ IdsGiven' /\ Signings'
<1>1. /\ AuthType /\ RecordShape /\ IdsGiven /\ Signings
      /\ DOMAIN records[i] \subseteq Nat /\ nextId[i] \in Nat
      /\ id < nextId[i]
  BY DEF SignedInv, AuthInv, AuthType, IdsGiven
<1>2. /\ DOMAIN records'[i] = DOMAIN records[i] /\ records'[i][id] = r
      /\ \A k \in DOMAIN records[i] : k # id => records'[i][k] = records[i][k]
      /\ \A j \in Instances : j # i => records'[j] = records[j]
  <2>1. /\ DOMAIN records'[i] = DOMAIN records[i] \cup {id} /\ records'[i][id] = r
        /\ \A k \in DOMAIN records[i] : k # id => records'[i][k] = records[i][k]
        /\ \A j \in Instances : j # i => records'[j] = records[j]
    BY <1>1, PutFacts
  <2>2. DOMAIN records[i] \cup {id} = DOMAIN records[i]
    OBVIOUS
  <2> QED BY <2>1, <2>2, Zenon
<1>3. RecordShape' /\ IdsGiven'
  <2>1. \A k \in DOMAIN records'[i] :
           \/ k \in DOMAIN records[i] /\ records'[i][k] = records[i][k]
           \/ k < nextId'[i] /\ Shape(records'[i][k])
    BY <1>1, <1>2
  <2>2. \A p \in DOMAIN done'[i] :
           \/ p \in DOMAIN done[i] /\ done'[i][p] = done[i][p]
           \/ done'[i][p].id < nextId'[i]
    BY <1>1 DEF Extends
  <2>3. nextId' \in [Instances -> Nat] /\ nextId[i] <= nextId'[i]
    BY <1>1 DEF AuthType
  <2> QED BY <1>1, <1>2, <2>1, <2>2, <2>3, IdsAt
<1>4. ASSUME NEW p \in DOMAIN done'[i] PROVE EntrySigned(records'[i], done'[i], p)
  <2>1. CASE p \in DOMAIN done[i]
    <3>1. EntrySigned(records[i], done[i], p)
      BY <1>1, <2>1 DEF Signings
    <3>2. CASE done[i][p].id # id
      <4>1. done[i][p].id \in DOMAIN records'[i] =>
              /\ done[i][p].id \in DOMAIN records[i]
              /\ records'[i][done[i][p].id] = records[i][done[i][p].id]
        BY <1>2, <3>2
      <4> QED BY <2>1, <3>1, <4>1, EntryKept
    <3>3. CASE done[i][p].id = id
      <4>1. \/ records'[i][id].by_hand
            \/ \E q \in (p + 1)..Len(done'[i]) : done'[i][q].id = id
        <5>1. p \in Nat /\ p <= Len(done[i]) /\ Len(done[i]) \in Nat /\ Len(done'[i]) \in Nat
          BY <2>1 DEF Extends
        <5>2. Len(done[i]) < Len(done'[i]) => Len(done'[i]) \in (p + 1)..Len(done'[i])
          BY <5>1
        <5> QED BY <1>2, <5>2
      <4>2. /\ records'[i][id].owner = records[i][id].owner
            /\ records'[i][id].sponsor = records[i][id].sponsor
        BY <1>2
      <4> QED BY <2>1, <3>1, <3>3, <4>1, <4>2, EntryKept
    <3> QED BY <3>2, <3>3
  <2>2. CASE p \notin DOMAIN done[i]
    <3>1. /\ done'[i][p].id = id /\ done'[i][p].msg.signer = r.owner
          /\ done'[i][p].msg.payload.action = "Update" /\ done'[i][p].msg.payload.id = id
          /\ done'[i][p].msg.payload.operator = r.sponsor
          /\ done'[i][p].msg.payload.item = r.item
      BY <2>2
    <3> QED BY <3>1, <1>2 DEF EntrySigned
  <2> QED BY <2>1, <2>2
<1>5. ASSUME NEW k \in DOMAIN records'[i] PROVE SponsorSigned(records'[i], done'[i], k)
  <2>1. /\ k \in DOMAIN records[i] /\ records'[i][k].owner = records[i][k].owner
        /\ records'[i][k].sponsor = records[i][k].sponsor
    BY <1>2
  <2>2. SponsorSigned(records[i], done[i], k)
    BY <1>1, <2>1 DEF Signings
  <2> QED BY <2>1, <2>2, SponsorKept
<1>6. Signings'
  BY <1>1, <1>2, <1>4, <1>5, SigningsAt
<1> QED BY <1>3, <1>6

\* A removal leaves the other records as they were.
LEMMA RemoveSignings ==
  ASSUME SignedInv, NEW i \in Instances, NEW id \in DOMAIN records[i], CleanupStorage(i, id),
         nextId' = nextId,
         Extends(done[i], done'[i]), \A j \in Instances : j # i => done'[j] = done[j],
         \A p \in DOMAIN done'[i] :
           \/ p \in DOMAIN done[i]
           \/ done'[i][p].id = id /\ done'[i][p].msg.payload.id = id
  PROVE  RecordShape' /\ IdsGiven' /\ Signings'
<1>1. /\ AuthType /\ RecordShape /\ IdsGiven /\ Signings
      /\ DOMAIN records[i] \subseteq Nat /\ nextId[i] \in Nat
      /\ id < nextId[i]
  BY DEF SignedInv, AuthInv, AuthType, IdsGiven
<1>2. /\ DOMAIN records'[i] = DOMAIN records[i] \ {id}
      /\ \A k \in DOMAIN records'[i] : records'[i][k] = records[i][k]
      /\ \A j \in Instances : j # i => records'[j] = records[j]
  BY <1>1, CleanupFacts
<1>3. RecordShape' /\ IdsGiven'
  <2>1. \A p \in DOMAIN done'[i] :
           \/ p \in DOMAIN done[i] /\ done'[i][p] = done[i][p]
           \/ done'[i][p].id < nextId'[i]
    BY <1>1 DEF Extends
  <2>2. nextId' \in [Instances -> Nat] /\ nextId[i] <= nextId'[i]
    BY <1>1 DEF AuthType
  <2> QED BY <1>1, <1>2, <2>1, <2>2, IdsAt
<1>4. ASSUME NEW p \in DOMAIN done'[i] PROVE EntrySigned(records'[i], done'[i], p)
  <2>1. CASE p \in DOMAIN done[i]
    <3>1. EntrySigned(records[i], done[i], p)
      BY <1>1, <2>1 DEF Signings
    <3>2. done[i][p].id \in DOMAIN records'[i] =>
            /\ done[i][p].id \in DOMAIN records[i]
            /\ records'[i][done[i][p].id] = records[i][done[i][p].id]
      BY <1>2
    <3> QED BY <2>1, <3>1, <3>2, EntryKept
  <2>2. CASE p \notin DOMAIN done[i]
    <3>1. done'[i][p].id = id /\ done'[i][p].msg.payload.id = id
      BY <2>2
    <3> QED BY <3>1, <1>2 DEF EntrySigned
  <2> QED BY <2>1, <2>2
<1>5. ASSUME NEW k \in DOMAIN records'[i] PROVE SponsorSigned(records'[i], done'[i], k)
  <2>1. k \in DOMAIN records[i] /\ records'[i][k] = records[i][k]
    BY <1>2
  <2>2. SponsorSigned(records[i], done[i], k)
    BY <1>1, <2>1 DEF Signings
  <2> QED BY <2>1, <2>2, SponsorKept
<1>6. Signings'
  BY <1>1, <1>2, <1>4, <1>5, SigningsAt
<1> QED BY <1>3, <1>6

\* What a message carried out says of the call that carried it.
LEMMA ConsumedMessage ==
  ASSUME NEW i \in Instances, NEW caller, NEW owner, NEW action, NEW target, NEW m \in Signed,
         Consume(i, caller, owner, m, action, target)
  PROVE  /\ m.signer = owner /\ m.payload.action = action /\ m.payload.id = target
         /\ m.payload.operator = caller
BY DEF Consume, Verifies, Payload

LEMMA InitSignedInv == AuthAssumption /\ Init => SignedInv
<1> SUFFICES ASSUME Init PROVE SignedInv
  OBVIOUS
<1>1. \A i \in Instances : done[i] = <<>> /\ records[i] = <<>> /\ nextId[i] = 0
  BY DEF Init
<1>2. RecordShape
  BY <1>1 DEF RecordShape
<1>3. IdsGiven
  BY <1>1 DEF IdsGiven
<1>4. Signings
  BY <1>1 DEF Signings
<1> QED BY <1>2, <1>3, <1>4, InitAuthInv DEF SignedInv

LEMMA UnchangedSignings ==
  ASSUME SignedInv, records' = records, done' = done, nextId' = nextId
  PROVE  RecordShape' /\ IdsGiven' /\ Signings'
<1>1. RecordShape'
  BY DEF SignedInv, RecordShape
<1>2. IdsGiven'
  BY DEF SignedInv, IdsGiven
<1>3. Signings'
  <2>1. Signings
    BY DEF SignedInv
  <2> QED BY <2>1, Zenon DEF Signings
<1> QED BY <1>1, <1>2, <1>3

LEMMA NextSignedInv ==
  ASSUME AuthAssumption, SignedInv, [Next]_authVars PROVE SignedInv'
<1> DEFINE Goal == RecordShape' /\ IdsGiven' /\ Signings'
<1>0. AuthInv /\ AuthType /\ AuthInv' /\ RecordShape
  BY NextAuthInv DEF SignedInv, AuthInv
<1>1. ASSUME UNCHANGED authVars PROVE Goal
  BY <1>1, UnchangedSignings DEF authVars
<1>2. ASSUME NEW g \in Chains, BeginBlock(g) PROVE Goal
  BY <1>2, UnchangedSignings DEF BeginBlock
<1>3. ASSUME NEW i \in Instances, NEW c, c.instance = i, Deposit(c) PROVE Goal
  <2>1. DoDeposit(i, c.owner, c.owner, c.item) /\ done' = done
    BY <1>3 DEF Deposit
  <2>2. nextId' \in [Instances -> Nat]
    BY <1>0 DEF AuthInv, AuthType
  <2> QED BY <1>0, <2>1, <2>2, HistoryKept, DepositSignings
<1>4. ASSUME NEW i \in Instances, NEW caller, NEW m \in Signed, DepositOnBehalf(i, caller, m)
      PROVE Goal
  <2> DEFINE n == nextId[i]  item == m.payload.item  owner == m.signer
  <2>1. DoDeposit(i, owner, caller, item) /\ CarriedOut(i, m, n)
    BY <1>4 DEF DepositOnBehalf
  <2>2. m.payload.action = "Deposit" /\ m.payload.operator = caller
    BY <1>4, ConsumedMessage DEF DepositOnBehalf
  <2>3. nextId' \in [Instances -> Nat] /\ n \in Nat
    BY <1>0 DEF AuthInv, AuthType
  <2>4. /\ Extends(done[i], done'[i])
        /\ \A j \in Instances : j # i => done'[j] = done[j]
        /\ Len(done'[i]) \in DOMAIN done'[i]
        /\ done'[i][Len(done'[i])].msg = m /\ done'[i][Len(done'[i])].id = n
        /\ \A p \in DOMAIN done'[i] : p \in DOMAIN done[i] \/ p = Len(done'[i])
    <3> HIDE DEF n
    <3> QED BY <1>0, <2>1, <2>3, HistoryGrows
  <2>5. \A p \in DOMAIN done'[i] :
           \/ p \in DOMAIN done[i]
           \/ /\ done'[i][p].id = n /\ done'[i][p].msg.signer = owner
              /\ done'[i][p].msg.payload.action = "Deposit"
              /\ done'[i][p].msg.payload.operator = caller
              /\ done'[i][p].msg.payload.item = item
    BY <2>2, <2>4
  <2>6. \E p \in DOMAIN done'[i] :
             done'[i][p].id = n /\ done'[i][p].msg.payload.action = "Deposit"
    BY <2>2, <2>4
  <2> HIDE DEF item, owner
  <2> QED BY <2>1, <2>3, <2>4, <2>5, <2>6, DepositSignings
<1>5. ASSUME NEW i \in Instances, NEW caller, NEW id \in DOMAIN records[i], NEW item,
             Update(i, caller, id, item)
      PROVE Goal
  <2> DEFINE r == [Edited(records[i][id], item) EXCEPT !.by_hand = TRUE]
  <2>1. Put(i, id, r) /\ done' = done /\ nextId' = nextId
    BY <1>5 DEF Update
  <2>2. Shape(records[i][id])
    BY <1>0 DEF RecordShape
  <2>3. /\ Shape(r) /\ r.owner = records[i][id].owner
        /\ r.sponsor = records[i][id].sponsor /\ r.by_hand
    BY <2>2, EditedFields
  <2> HIDE DEF r
  <2> QED BY <1>0, <2>1, <2>3, HistoryKept, EditSignings
<1>6. ASSUME NEW i \in Instances, NEW caller, NEW id \in DOMAIN records[i], RemoveOwn(i, caller, id)
      PROVE Goal
  <2>1. CleanupStorage(i, id) /\ done' = done /\ nextId' = nextId
    BY <1>6 DEF RemoveOwn
  <2> QED BY <1>0, <2>1, HistoryKept, RemoveSignings
<1>7. ASSUME NEW i \in Instances, NEW caller, NEW id \in DOMAIN records[i], NEW m \in Signed,
             UpdateOnBehalf(i, caller, id, m)
      PROVE Goal
  <2> DEFINE r == Edited(records[i][id], m.payload.item)
  <2>1. /\ Put(i, id, r) /\ CarriedOut(i, m, id) /\ nextId' = nextId
        /\ records[i][id].sponsor = caller
    BY <1>7 DEF UpdateOnBehalf
  <2>2. /\ m.signer = records[i][id].owner /\ m.payload.action = "Update"
        /\ m.payload.id = id /\ m.payload.operator = caller
    BY <1>7, ConsumedMessage DEF UpdateOnBehalf
  <2>3. Shape(records[i][id])
    BY <1>0 DEF RecordShape
  <2>4. /\ Shape(r) /\ r.owner = records[i][id].owner /\ r.sponsor = records[i][id].sponsor
        /\ r.item = m.payload.item
    BY <2>3, EditedFields, ZenonT(30)
  <2>5. id \in Nat
    BY <1>0 DEF AuthType
  <2>6. /\ Extends(done[i], done'[i])
        /\ \A j \in Instances : j # i => done'[j] = done[j]
        /\ Len(done[i]) < Len(done'[i])
        /\ done'[i][Len(done'[i])].msg = m /\ done'[i][Len(done'[i])].id = id
        /\ \A p \in DOMAIN done'[i] : p \in DOMAIN done[i] \/ p = Len(done'[i])
    BY <1>0, <2>1, <2>5, HistoryGrows
  <2>7. \A p \in DOMAIN done'[i] :
           \/ p \in DOMAIN done[i]
           \/ /\ done'[i][p].id = id /\ done'[i][p].msg.signer = r.owner
              /\ done'[i][p].msg.payload.action = "Update"
              /\ done'[i][p].msg.payload.id = id
              /\ done'[i][p].msg.payload.operator = r.sponsor
              /\ done'[i][p].msg.payload.item = r.item
    BY <2>1, <2>2, <2>4, <2>6
  <2> HIDE DEF r
  <2> QED BY <2>1, <2>4, <2>6, <2>7, EditSignings
<1>8. ASSUME NEW i \in Instances, NEW caller, NEW id \in DOMAIN records[i], NEW m \in Signed,
             RemoveOwnOnBehalf(i, caller, id, m)
      PROVE Goal
  <2>1. CarriedOut(i, m, id) /\ CleanupStorage(i, id) /\ nextId' = nextId
    BY <1>8 DEF RemoveOwnOnBehalf
  <2>2. m.payload.id = id
    BY <1>8, ConsumedMessage DEF RemoveOwnOnBehalf
  <2>3. id \in Nat
    BY <1>0 DEF AuthType
  <2>4. /\ Extends(done[i], done'[i])
        /\ \A j \in Instances : j # i => done'[j] = done[j]
        /\ done'[i][Len(done'[i])].msg = m /\ done'[i][Len(done'[i])].id = id
        /\ \A p \in DOMAIN done'[i] : p \in DOMAIN done[i] \/ p = Len(done'[i])
    BY <1>0, <2>1, <2>3, HistoryGrows
  <2>5. \A p \in DOMAIN done'[i] :
           \/ p \in DOMAIN done[i]
           \/ done'[i][p].id = id /\ done'[i][p].msg.payload.id = id
    BY <2>2, <2>4
  <2> QED BY <2>1, <2>4, <2>5, RemoveSignings
<1>9. ASSUME NEW i \in Instances, Call(i) PROVE Goal
  <2> HIDE DEF Goal
  <2>1. CASE OwnCall(i)
    BY <2>1, <1>3, <1>5, <1>6 DEF OwnCall
  <2>2. CASE \E caller \in Users, m \in Signed : DepositOnBehalf(i, caller, m)
    BY <2>2, <1>4
  <2>3. CASE \E caller \in Users, id \in DOMAIN records[i] :
               \E m \in Signed : UpdateOnBehalf(i, caller, id, m) \/ RemoveOwnOnBehalf(i, caller, id, m)
    BY <2>3, <1>7, <1>8
  <2> QED BY <1>9, <2>1, <2>2, <2>3 DEF Call
<1>10. Goal
  BY <1>1, <1>2, <1>9 DEF Next
<1> QED BY <1>0, <1>10 DEF SignedInv

\* RecordsAsSigned: a sponsored record is what its owner signed, and one whose
\* signed removal was carried out is gone for good (deposit_on_behalf,
\* update_on_behalf, remove_own_on_behalf).
THEOREM SponsoredRecordsAreAsSigned == Spec => []RecordsAsSigned
<1>1. Init => SignedInv
  BY AuthAssumption, InitSignedInv
<1>2. SignedInv /\ [Next]_authVars => SignedInv'
  BY AuthAssumption, NextSignedInv
<1>3. SignedInv => RecordsAsSigned
  BY SigningsAreTheProperty DEF SignedInv
<1> QED BY <1>1, <1>2, <1>3, PTL DEF Spec


-----------------------------------------------------------------------------
(* The first members of a set, and the pages made of them *)

\* Whoever ranks below a member of the first n is one of them.
LEMMA FirstByIsDownClosed ==
  ASSUME NEW S, IsFiniteSet(S), NEW rank, \A x \in S : rank[x] \in Int, NEW n \in Int,
         NEW x \in FirstBy(S, rank, n), NEW y \in S, rank[y] < rank[x]
  PROVE  y \in FirstBy(S, rank, n)
<1> DEFINE below(z) == {w \in S : rank[w] < rank[z]}
<1>1. x \in S /\ Cardinality(below(x)) < n
  BY DEF FirstBy
<1>2. below(y) \subseteq below(x)
  BY <1>1
<1>3. IsFiniteSet(below(x))
  BY FS_Subset
<1>4. IsFiniteSet(below(y)) /\ Cardinality(below(y)) <= Cardinality(below(x))
  BY <1>2, <1>3, FS_Subset
<1>5. Cardinality(below(x)) \in Nat /\ Cardinality(below(y)) \in Nat
  BY <1>3, <1>4, FS_CardinalityType
<1>6. Cardinality(below(y)) < n
  BY <1>1, <1>4, <1>5
<1> QED BY <1>6 DEF FirstBy

\* The first n of at most n are all of them.
LEMMA FirstByIsWhole ==
  ASSUME NEW S, IsFiniteSet(S), NEW rank, \A x \in S : rank[x] \in Int, NEW n \in Int,
         Cardinality(S) <= n
  PROVE  FirstBy(S, rank, n) = S
<1> SUFFICES ASSUME NEW x \in S PROVE Cardinality({w \in S : rank[w] < rank[x]}) < n
  BY DEF FirstBy
<1> DEFINE below == {w \in S : rank[w] < rank[x]}
<1>1. below \subseteq S \ {x}
  OBVIOUS
<1>2. /\ IsFiniteSet(S \ {x}) /\ Cardinality(S \ {x}) = Cardinality(S) - 1
  BY FS_RemoveElement
<1>3. IsFiniteSet(below) /\ Cardinality(below) <= Cardinality(S \ {x})
  BY <1>1, <1>2, FS_Subset
<1>4. Cardinality(below) \in Nat /\ Cardinality(S) \in Nat
  BY <1>3, FS_CardinalityType
<1> QED BY <1>2, <1>3, <1>4

LEMMA MinOfTwo ==
  ASSUME NEW a \in Nat, NEW b \in Nat
  PROVE  Min({a, b}) \in Nat /\ Min({a, b}) \in {a, b}
<1>1. \E m \in {a, b} : \A x \in {a, b} : m <= x
  <2>1. CASE a <= b
    BY <2>1
  <2>2. CASE b <= a
    BY <2>2
  <2> QED BY <2>1, <2>2
<1> QED BY <1>1 DEF Min

LEMMA ScannedFacts ==
  ASSUME NEW claims \in SUBSET Nat, IsFiniteSet(claims)
  PROVE  Scanned(claims) \subseteq claims /\ IsFiniteSet(Scanned(claims))
<1>1. Scanned(claims) \subseteq claims
  BY DEF Scanned, FirstBy
<1> QED BY <1>1, FS_Subset

\* A page never skips: an id the scan reached, past the cursor and below some
\* id of the page, is on the page.  So the last id of a page is an exact cursor
\* (impls.rs, lookup_by_identifier_paged).
THEOREM PageSkipsNothing ==
  ASSUME NEW claims \in SUBSET Nat, IsFiniteSet(claims), NEW after \in Int, NEW most \in Nat,
         MaxLookupLimit \in Nat,
         NEW x \in LookupPaged(claims, after, most),
         NEW y \in Scanned(claims), y > after, y < x
  PROVE  y \in LookupPaged(claims, after, most)
<1> DEFINE ids == {id \in Scanned(claims) : id > after}
           rank == [id \in ids |-> id]
           n == Min({most, MaxLookupLimit})
<1>1. IsFiniteSet(ids) /\ ids \subseteq Nat
  BY ScannedFacts, FS_Subset
<1>2. n \in Int
  BY MinOfTwo
<1>3. LookupPaged(claims, after, most) = FirstBy(ids, rank, n)
  BY DEF LookupPaged
<1>4. x \in ids /\ y \in ids
  BY <1>3 DEF FirstBy
<1>5. (\A z \in ids : rank[z] \in Int) /\ rank[y] < rank[x]
  BY <1>1, <1>4
<1> HIDE DEF ids, rank, n
<1>6. x \in FirstBy(ids, rank, n)
  BY <1>3
<1>7. y \in FirstBy(ids, rank, n)
  BY <1>1, <1>2, <1>4, <1>5, <1>6, FirstByIsDownClosed
<1> QED BY <1>3, <1>7

\* As long as there are no more claims than MAX_LOOKUP_SCAN, the scan reaches
\* every one of them, in whatever order storage walks them, and the count is
\* their number.
THEOREM ScanReachesAll ==
  ASSUME NEW claims \in SUBSET Nat, IsFiniteSet(claims), MaxLookupScan \in Nat,
         \A id \in claims : HashRank[id] \in Int, Cardinality(claims) <= MaxLookupScan
  PROVE  Scanned(claims) = claims /\ CountByIdentifier(claims) = Cardinality(claims)
<1>1. FirstBy(claims, HashRank, MaxLookupScan) = claims
  <2>1. MaxLookupScan \in Int
    OBVIOUS
  <2> QED BY <2>1, FirstByIsWhole, Zenon
<1>2. Scanned(claims) = claims
  BY <1>1 DEF Scanned
<1> QED BY <1>2 DEF CountByIdentifier

\* A non-empty finite set has a member of least rank.
LEMMA LeastRank ==
  ASSUME NEW S, IsFiniteSet(S), S # {}, NEW rank, \A x \in S : rank[x] \in Int
  PROVE  \E x \in S : \A y \in S : rank[x] <= rank[y]
<1> DEFINE below(z) == {w \in S : rank[w] < rank[z]}
           sizes == {Cardinality(below(z)) : z \in S}
<1>1. \A z \in S : IsFiniteSet(below(z)) /\ Cardinality(below(z)) \in Nat
  BY FS_Subset, FS_CardinalityType
<1>2. PICK m \in sizes : \A k \in sizes : m <= k
  <2>1. sizes \subseteq Nat /\ sizes # {}
    BY <1>1
  <2> HIDE DEF sizes
  <2> QED BY <2>1, LeastNatural
<1>3. PICK x \in S : Cardinality(below(x)) = m
  OBVIOUS
<1>4. ASSUME NEW y \in S, rank[y] < rank[x] PROVE FALSE
  <2>1. below(y) \subseteq below(x) /\ y \in below(x) /\ y \notin below(y)
    BY <1>4
  <2>2. Cardinality(below(y)) <= Cardinality(below(x))
        /\ (Cardinality(below(x)) = Cardinality(below(y)) => below(x) = below(y))
    BY <1>1, <2>1, FS_Subset
  <2>3. Cardinality(below(x)) <= Cardinality(below(y))
    BY <1>2, <1>3
  <2>4. Cardinality(below(x)) \in Nat /\ Cardinality(below(y)) \in Nat
    BY <1>1
  <2> HIDE DEF below
  <2> QED BY <2>1, <2>2, <2>3, <2>4
<1> QED BY <1>4

\* A selection that is not full has everything: the least ranked id left out
\* would have too few below it.
LEMMA ShortSelectionIsWhole ==
  ASSUME NEW S, IsFiniteSet(S), NEW rank, \A x \in S : rank[x] \in Int, NEW n \in Int,
         Cardinality(FirstBy(S, rank, n)) < n
  PROVE  FirstBy(S, rank, n) = S
<1> DEFINE F == FirstBy(S, rank, n)
           below(z) == {w \in S : rank[w] < rank[z]}
<1>1. F \subseteq S
  BY DEF FirstBy
<1>2. SUFFICES ASSUME S \ F # {} PROVE FALSE
  BY <1>1
<1>3. PICK x \in S \ F : \A y \in S \ F : rank[x] <= rank[y]
  <2>1. IsFiniteSet(S \ F)
    BY FS_Subset
  <2> HIDE DEF F
  <2> QED BY <1>2, <2>1, LeastRank
<1>4. below(x) \subseteq F
  BY <1>3
<1>5. IsFiniteSet(F) /\ IsFiniteSet(below(x)) /\ Cardinality(below(x)) <= Cardinality(F)
  BY <1>1, <1>4, FS_Subset
<1>6. Cardinality(below(x)) \in Nat /\ Cardinality(F) \in Nat
  BY <1>5, FS_CardinalityType
<1>7. ~(Cardinality(below(x)) < n)
  BY <1>3 DEF FirstBy
<1> QED BY <1>5, <1>6, <1>7

LEMMA FiniteHasMax ==
  ASSUME NEW S, IsFiniteSet(S), S \subseteq Int, S # {}
  PROVE  Max(S) \in S /\ \A x \in S : x <= Max(S)
<1> DEFINE rank == [x \in S |-> 0 - x]
<1>1. \A x \in S : rank[x] \in Int
  OBVIOUS
<1>2. PICK m \in S : \A y \in S : rank[m] <= rank[y]
  <2> HIDE DEF rank
  <2> QED BY <1>1, LeastRank
<1>3. \A y \in S : m >= y
  BY <1>2
<1>4. \E x \in S : \A y \in S : x >= y
  BY <1>3
<1>5. Max(S) \in S /\ \A y \in S : Max(S) >= y
  BY <1>4 DEF Max
<1> QED BY <1>5

\* A page starts after the cursor, reaches its own last id without a gap, and
\* is empty only when nothing is left.
LEMMA PageFacts ==
  ASSUME NEW claims \in SUBSET Nat, IsFiniteSet(claims), NEW after \in Int,
         NEW most \in Nat \ {0}, MaxLookupLimit \in Nat \ {0}
  PROVE  LET page == LookupPaged(claims, after, most)
         IN  /\ \A id \in page : id \in Scanned(claims) /\ id > after
             /\ page = {} => \A id \in Scanned(claims) : id <= after
             /\ page # {} =>
                  /\ Max(page) \in page /\ \A id \in page : id <= Max(page)
                  /\ \A id \in Scanned(claims) : id > after /\ id <= Max(page) => id \in page
<1> DEFINE ids == {id \in Scanned(claims) : id > after}
           rank == [id \in ids |-> id]
           n == Min({most, MaxLookupLimit})
           page == LookupPaged(claims, after, most)
<1>1. /\ IsFiniteSet(ids) /\ ids \subseteq Nat /\ Scanned(claims) \subseteq claims
      /\ Scanned(claims) \subseteq Nat
  BY ScannedFacts, FS_Subset
<1>2. n \in Nat \ {0}
  BY MinOfTwo
<1>3. page = FirstBy(ids, rank, n)
  BY DEF LookupPaged
<1>4. \A id \in ids : rank[id] \in Int
  BY <1>1
<1>5. page \subseteq ids
  BY <1>3 DEF FirstBy
<1>6. ASSUME page = {} PROVE \A id \in Scanned(claims) : id <= after
  <2>1. Cardinality(page) < n
    BY <1>2, <1>6, FS_EmptySet
  <2>2. page = ids
    <3>1. Cardinality(FirstBy(ids, rank, n)) < n /\ n \in Int /\ IsFiniteSet(ids)
      BY <1>1, <1>2, <1>3, <2>1
    <3> HIDE DEF ids, rank, n, page
    <3>2. FirstBy(ids, rank, n) = ids
      BY <1>4, <3>1, ShortSelectionIsWhole
    <3> QED BY <1>3, <3>2
  <2>3. \A id \in Scanned(claims) : ~(id > after)
    BY <1>6, <2>2
  <2> QED BY <1>1, <2>3
<1>7. ASSUME page # {}
      PROVE  /\ Max(page) \in page /\ \A id \in page : id <= Max(page)
             /\ \A id \in Scanned(claims) : id > after /\ id <= Max(page) => id \in page
  <2>1. IsFiniteSet(page) /\ page \subseteq Int
    BY <1>1, <1>5, FS_Subset
  <2>2. Max(page) \in page /\ \A id \in page : id <= Max(page)
    <3> HIDE DEF page
    <3> QED BY <1>7, <2>1, FiniteHasMax
  <2>3. ASSUME NEW id \in Scanned(claims), id > after, id <= Max(page) PROVE id \in page
    <3>1. Max(page) \in Nat /\ id \in Nat
      BY <1>1, <1>5, <2>2
    <3>2. CASE id = Max(page)
      BY <2>2, <3>2
    <3>3. CASE id < Max(page)
      <4>1. MaxLookupLimit \in Nat /\ most \in Nat
        OBVIOUS
      <4>2. Max(page) \in LookupPaged(claims, after, most)
        BY <2>2
      <4> QED BY <2>3, <3>3, <4>1, <4>2, PageSkipsNothing
    <3> QED BY <2>3, <3>1, <3>2, <3>3
  <2> QED BY <2>2, <2>3
<1>8. \A id \in page : id \in Scanned(claims) /\ id > after
  BY <1>5
<1> HIDE DEF page
<1> QED BY <1>6, <1>7, <1>8, Zenon DEF page

-----------------------------------------------------------------------------
(* The reader *)

\* Only finished deposits are claimed, so there are finitely many claims.
ReaderTypes ==
  /\ phase \in {"idle", "listing", "done"} /\ cursor \in Int
  /\ sealed \subseteq Ids /\ snapshot \subseteq Ids
  /\ phase # "idle" => limit \in Nat \ {0}
  /\ pages \in Seq(SUBSET Ids)

\* What the history says of the block the reader began at and of the best one.
HistoryKnows ==
  /\ always \subseteq sealed /\ sealed \subseteq ever
  /\ phase # "idle" =>
       /\ always \subseteq snapshot /\ snapshot \subseteq ever
       /\ count = CountByIdentifier(snapshot)
       /\ ~crowded => ~Crowded(sealed) /\ ~Crowded(snapshot)

\* Up to the cursor nothing is missing, and at the end nothing is beyond it.
ListedUpToCursor ==
  /\ InOrder /\ Listed \subseteq ever /\ \A id \in Listed : id <= cursor
  /\ phase = "idle" => pages = <<>> /\ cursor = NoCursor
  /\ phase # "idle" /\ pinned => Listed = {id \in Scanned(snapshot) : id <= cursor}
  /\ phase # "idle" /\ ~crowded => \A id \in always : id <= cursor => id \in Listed
  /\ phase = "done" /\ pinned => \A id \in Scanned(snapshot) : id <= cursor
  /\ phase = "done" /\ ~crowded => \A id \in always : id <= cursor

IdsBounded == \A i \in Instances : nextId[i] <= MaxRecords

CatalogInv == SignedInv /\ IdsBounded /\ ReaderTypes /\ HistoryKnows /\ ListedUpToCursor

LEMMA IdsFacts ==
  ASSUME AuthAssumption PROVE Ids \subseteq Nat /\ IsFiniteSet(Ids)
<1>1. MaxRecords - 1 \in Int
  BY DEF AuthAssumption
<1>2. IsFiniteSet(0..(MaxRecords - 1))
  BY <1>1, FS_Interval
<1> QED BY <1>2 DEF Ids

LEMMA ClaimsFacts ==
  ASSUME AuthAssumption, NEW claims, claims \subseteq Ids
  PROVE  claims \in SUBSET Nat /\ IsFiniteSet(claims) /\ Scanned(claims) \subseteq claims
<1>1. claims \in SUBSET Nat /\ IsFiniteSet(claims)
  BY IdsFacts, FS_Subset
<1> QED BY <1>1, ScannedFacts

\* Without a crowd, the scan reaches every claim.
LEMMA UncrowdedScan ==
  ASSUME AuthAssumption, CatalogAssumption, NEW claims, claims \subseteq Ids, ~Crowded(claims)
  PROVE  Scanned(claims) = claims
<1>1. claims \in SUBSET Nat /\ IsFiniteSet(claims) /\ Cardinality(claims) \in Nat
  BY ClaimsFacts, FS_CardinalityType
<1>2. /\ MaxLookupScan \in Nat /\ \A id \in claims : HashRank[id] \in Int
  BY DEF CatalogAssumption
<1>3. Cardinality(claims) <= MaxLookupScan
  BY <1>1, <1>2 DEF Crowded
<1> QED BY <1>1, <1>2, <1>3, ScanReachesAll

LEMMA ListedAfterPage ==
  ASSUME NEW s \in Seq(SUBSET Ids), NEW page \in SUBSET Ids
  PROVE  UNION Range(Append(s, page)) = (UNION Range(s)) \cup page
<1>1. /\ Append(s, page) \in Seq(SUBSET Ids)
      /\ DOMAIN s = 1..Len(s) /\ Len(s) \in Nat
      /\ DOMAIN Append(s, page) = 1..(Len(s) + 1)
      /\ \A p \in 1..Len(s) : Append(s, page)[p] = s[p]
      /\ Append(s, page)[Len(s) + 1] = page
  BY AppendFacts
<1>2. Range(Append(s, page)) = Range(s) \cup {page}
  <2>1. ASSUME NEW x \in Range(Append(s, page)) PROVE x \in Range(s) \cup {page}
    <3>1. PICK p \in 1..(Len(s) + 1) : x = Append(s, page)[p]
      BY <1>1, <2>1 DEF Range
    <3>2. CASE p = Len(s) + 1
      BY <1>1, <3>1, <3>2
    <3>3. CASE p \in 1..Len(s)
      BY <1>1, <3>1, <3>3 DEF Range
    <3> QED BY <1>1, <3>1, <3>2, <3>3
  <2>2. ASSUME NEW x \in Range(s) PROVE x \in Range(Append(s, page))
    <3>1. PICK p \in 1..Len(s) : x = s[p]
      BY <1>1, <2>2 DEF Range
    <3>2. p \in 1..(Len(s) + 1) /\ Append(s, page)[p] = x
      BY <1>1, <3>1
    <3> QED BY <1>1, <3>2 DEF Range
  <2>3. page \in Range(Append(s, page))
    <3>1. Len(s) + 1 \in DOMAIN Append(s, page)
      BY <1>1
    <3>2. Append(s, page)[Len(s) + 1] \in Range(Append(s, page))
      BY <3>1, Zenon DEF Range
    <3> QED BY <1>1, <3>2, Zenon
  <2>4. \A x \in Range(s) \cup {page} : x \in Range(Append(s, page))
    BY <2>2, <2>3, Zenon
  <2>5. \A x \in Range(Append(s, page)) : x \in Range(s) \cup {page}
    BY <2>1
  <2> QED BY <2>4, <2>5, Zenon
<1>3. UNION (Range(s) \cup {page}) = (UNION Range(s)) \cup page
  OBVIOUS
<1> QED BY <1>2, <1>3, Zenon

LEMMA InitCatalogInv == AuthAssumption /\ CatalogInit => CatalogInv
<1> SUFFICES ASSUME AuthAssumption, CatalogInit PROVE CatalogInv
  OBVIOUS
<1>1. SignedInv /\ IdsBounded
  BY InitSignedInv DEF CatalogInit, Init, IdsBounded, AuthAssumption
<1>2. /\ phase = "idle" /\ cursor = NoCursor /\ sealed = {} /\ snapshot = {} /\ pages = <<>>
      /\ always = {} /\ ever = {}
  BY DEF CatalogInit
<1>3. ReaderTypes
  BY <1>2 DEF ReaderTypes, NoCursor
<1>4. HistoryKnows
  BY <1>2 DEF HistoryKnows
<1>5. InOrder /\ Range(pages) = {}
  BY <1>2 DEF InOrder, Range
<1>6. ListedUpToCursor
  BY <1>2, <1>5 DEF ListedUpToCursor, Listed
<1> QED BY <1>1, <1>3, <1>4, <1>6 DEF CatalogInv

\* A call of the chain leaves the reader where it is.
LEMMA CallKeepsReader ==
  ASSUME HistoryKnows, ListedUpToCursor, ReaderTypes,
         UNCHANGED <<sealed, readerVars, historyVars>>
  PROVE  HistoryKnows' /\ ListedUpToCursor' /\ ReaderTypes'
<1>1. HistoryKnows'
  BY DEF HistoryKnows, readerVars, historyVars
<1>2. ListedUpToCursor'
  BY DEF ListedUpToCursor, readerVars, historyVars, InOrder, Listed
<1>3. ReaderTypes'
  BY DEF ReaderTypes, readerVars
<1> QED BY <1>1, <1>2, <1>3

LEMMA NextIdsBounded ==
  ASSUME AuthAssumption, SignedInv, IdsBounded, [Next]_authVars PROVE IdsBounded'
<1>1. nextId \in [Instances -> Nat] /\ MaxRecords \in Nat
  BY DEF SignedInv, AuthInv, AuthType, AuthAssumption
<1>2. CASE nextId' = nextId
  BY <1>2 DEF IdsBounded
<1>3. ASSUME NEW i \in Instances, NEW owner, NEW payer, NEW item,
             DoDeposit(i, owner, payer, item)
      PROVE  IdsBounded'
  <2>1. nextId[i] < MaxRecords /\ nextId' = [nextId EXCEPT ![i] = nextId[i] + 1]
    BY <1>3 DEF DoDeposit
  <2> QED BY <1>1, <2>1 DEF IdsBounded
<1>4. ASSUME NEW i \in Instances, Call(i) PROVE IdsBounded'
  <2>1. CASE OwnCall(i)
    BY <2>1, <1>2, <1>3 DEF OwnCall, Deposit, Update, RemoveOwn
  <2>2. CASE \E caller \in Users, m \in Signed : DepositOnBehalf(i, caller, m)
    BY <2>2, <1>3 DEF DepositOnBehalf
  <2>3. CASE \E caller \in Users, id \in DOMAIN records[i] :
               \E m \in Signed : UpdateOnBehalf(i, caller, id, m) \/ RemoveOwnOnBehalf(i, caller, id, m)
    BY <2>3, <1>2 DEF UpdateOnBehalf, RemoveOwnOnBehalf
  <2> QED BY <1>4, <2>1, <2>2, <2>3 DEF Call
<1>5. ASSUME NEW g \in Chains, BeginBlock(g) PROVE IdsBounded'
  BY <1>5, <1>2 DEF BeginBlock
<1>6. CASE UNCHANGED authVars
  BY <1>6, <1>2 DEF authVars
<1> QED BY <1>4, <1>5, <1>6 DEF Next

LEMMA ClaimsAreIds ==
  ASSUME AuthAssumption, CatalogAssumption, SignedInv, IdsBounded PROVE Claims \subseteq Ids
<1> SUFFICES ASSUME NEW id \in DOMAIN records[ReadInstance] PROVE id \in Ids
  BY DEF Claims
<1>1. /\ ReadInstance \in Instances /\ MaxRecords \in Nat
      /\ nextId[ReadInstance] \in Nat /\ nextId[ReadInstance] <= MaxRecords
  BY DEF CatalogAssumption, SignedInv, AuthInv, AuthType, IdsBounded, AuthAssumption
<1>2. id \in Nat /\ id < nextId[ReadInstance]
  BY <1>1 DEF SignedInv, AuthInv, AuthType, IdsGiven
<1> QED BY <1>1, <1>2 DEF Ids

\* A block that the reader does not wait for: what it has listed stays right.
LEMMA ImportKeepsReader ==
  ASSUME AuthAssumption, CatalogAssumption, CatalogInv, NEW g, Import(g)
  PROVE  HistoryKnows' /\ ListedUpToCursor' /\ ReaderTypes'
<1>1. /\ sealed' \subseteq Ids
      /\ always' = always \cap sealed' /\ ever' = ever \cup sealed'
      /\ crowded' = (crowded \/ Crowded(sealed')) /\ UNCHANGED readerVars
  BY ClaimsAreIds DEF Import, CatalogInv, ReaderTypes
<1>2. ReaderTypes'
  BY <1>1 DEF CatalogInv, ReaderTypes, readerVars
<1>3. HistoryKnows'
  <2>1. /\ phase' = phase /\ snapshot' = snapshot /\ count' = count
    BY <1>1 DEF readerVars
  <2>2. ~crowded' => ~crowded /\ ~Crowded(sealed)'
    BY <1>1 DEF Crowded
  <2>3. Crowded(snapshot)' = Crowded(snapshot)
    BY <2>1 DEF Crowded
  <2> QED BY <1>1, <2>1, <2>2, <2>3 DEF CatalogInv, HistoryKnows
<1>4. ListedUpToCursor'
  <2>1. /\ phase' = phase /\ pinned' = pinned /\ snapshot' = snapshot /\ pages' = pages
        /\ cursor' = cursor
    BY <1>1 DEF readerVars
  <2>2. Listed' = Listed /\ (InOrder => InOrder')
    BY <2>1 DEF Listed, InOrder
  <2>3. always' \subseteq always /\ ever \subseteq ever' /\ (~crowded' => ~crowded)
    BY <1>1
  <2> QED BY <2>1, <2>2, <2>3 DEF CatalogInv, ListedUpToCursor
<1> QED BY <1>2, <1>3, <1>4

LEMMA StartBegins ==
  ASSUME AuthAssumption, CatalogAssumption, CatalogInv, Start
  PROVE  HistoryKnows' /\ ListedUpToCursor' /\ ReaderTypes'
<1>1. /\ phase = "idle" /\ phase' = "listing" /\ pinned' \in BOOLEAN /\ limit' \in Nat \ {0}
      /\ sealed' = sealed /\ snapshot' = sealed /\ count' = CountByIdentifier(sealed)
      /\ always' = sealed /\ ever' = sealed /\ crowded' = Crowded(sealed)
      /\ pages' = pages /\ cursor' = cursor
  BY DEF Start, CatalogAssumption
<1>2. pages = <<>> /\ cursor = -1 /\ sealed \subseteq Ids
  BY <1>1 DEF CatalogInv, ListedUpToCursor, NoCursor, ReaderTypes
<1>3. ReaderTypes'
  BY <1>1, <1>2 DEF ReaderTypes, CatalogInv
<1>4. HistoryKnows'
  BY <1>1 DEF HistoryKnows, Crowded, CountByIdentifier
<1>5. Listed' = {} /\ InOrder'
  BY <1>1, <1>2 DEF Listed, Range, InOrder
<1>6. \A id \in sealed : ~(id <= cursor)
  <2>1. \A id \in sealed : id \in Nat
    BY <1>2, IdsFacts
  <2> QED BY <1>2, <2>1
<1>7. {id \in Scanned(sealed) : id <= cursor} = {}
  BY <1>2, <1>6, ClaimsFacts
<1> QED
  <2>1. ListedUpToCursor'
    BY <1>1, <1>5, <1>6, <1>7 DEF ListedUpToCursor, Scanned
  <2> QED BY <1>3, <1>4, <2>1

\* The page the reader is given comes from claims that hold what was claimed
\* all along, and nothing that never was.
LEMMA AnsweredFrom ==
  ASSUME AuthAssumption, CatalogAssumption, CatalogInv, phase = "listing"
  PROVE  /\ StateAt \subseteq Ids /\ always \subseteq StateAt /\ StateAt \subseteq ever
         /\ StateAt \in SUBSET Nat /\ IsFiniteSet(StateAt)
         /\ Scanned(StateAt) \subseteq StateAt
         /\ ~crowded => Scanned(StateAt) = StateAt
         /\ limit \in Nat \ {0} /\ cursor \in Int /\ MaxLookupLimit \in Nat \ {0}
<1>1. StateAt \subseteq Ids /\ always \subseteq StateAt /\ StateAt \subseteq ever
  BY DEF StateAt, CatalogInv, ReaderTypes, HistoryKnows
<1>2. ~crowded => ~Crowded(StateAt)
  BY DEF StateAt, CatalogInv, HistoryKnows
<1>3. limit \in Nat \ {0} /\ cursor \in Int /\ MaxLookupLimit \in Nat \ {0}
  BY DEF CatalogInv, ReaderTypes, CatalogAssumption
<1> QED BY <1>1, <1>2, <1>3, ClaimsFacts, UncrowdedScan

\* An empty page ends the listing: nothing is left beyond the cursor.
LEMMA EmptyPageEnds ==
  ASSUME AuthAssumption, CatalogAssumption, CatalogInv, NextPage,
         LookupPaged(StateAt, cursor, limit) = {}
  PROVE  HistoryKnows' /\ ListedUpToCursor' /\ ReaderTypes'
<1>1. /\ phase = "listing" /\ phase' = "done" /\ pages' = pages /\ cursor' = cursor
      /\ sealed' = sealed /\ pinned' = pinned /\ limit' = limit /\ snapshot' = snapshot
      /\ count' = count /\ always' = always /\ ever' = ever /\ crowded' = crowded
  BY DEF NextPage, historyVars
<1>2. \A id \in Scanned(StateAt) : id <= cursor
  BY <1>1, AnsweredFrom, PageFacts
<1>3. ReaderTypes'
  BY <1>1 DEF ReaderTypes, CatalogInv
<1>4. HistoryKnows'
  BY <1>1 DEF HistoryKnows, CatalogInv, CountByIdentifier, Crowded
<1>5. Listed' = Listed /\ (InOrder => InOrder')
  BY <1>1 DEF Listed, InOrder
<1>6. pinned => \A id \in Scanned(snapshot) : id <= cursor
  BY <1>2 DEF StateAt
<1>7. ~crowded => \A id \in always : id <= cursor
  BY <1>1, <1>2, AnsweredFrom
<1>8. ListedUpToCursor'
  BY <1>1, <1>5, <1>6, <1>7 DEF ListedUpToCursor, CatalogInv, Scanned
<1> QED BY <1>3, <1>4, <1>8

\* A page moves the cursor to its last id and leaves no gap before it.
LEMMA PageAdvances ==
  ASSUME AuthAssumption, CatalogAssumption, CatalogInv, NextPage,
         LookupPaged(StateAt, cursor, limit) # {}
  PROVE  HistoryKnows' /\ ListedUpToCursor' /\ ReaderTypes'
<1> DEFINE page == LookupPaged(StateAt, cursor, limit)
           last == Max(page)
<1>1. /\ phase = "listing" /\ phase' = phase /\ pages' = Append(pages, page) /\ cursor' = last
      /\ sealed' = sealed /\ pinned' = pinned /\ limit' = limit /\ snapshot' = snapshot
      /\ count' = count /\ always' = always /\ ever' = ever /\ crowded' = crowded
  BY DEF NextPage, historyVars
<1>2. /\ StateAt \subseteq Ids /\ always \subseteq StateAt /\ StateAt \subseteq ever
      /\ StateAt \in SUBSET Nat /\ IsFiniteSet(StateAt)
      /\ Scanned(StateAt) \subseteq StateAt
      /\ ~crowded => Scanned(StateAt) = StateAt
      /\ limit \in Nat \ {0} /\ cursor \in Int /\ MaxLookupLimit \in Nat \ {0}
  BY <1>1, AnsweredFrom
<1>3. /\ \A id \in page : id \in Scanned(StateAt) /\ id > cursor
      /\ last \in page /\ \A id \in page : id <= last
      /\ \A id \in Scanned(StateAt) : id > cursor /\ id <= last => id \in page
  BY <1>2, PageFacts
<1> HIDE DEF page, last
<1>4. /\ page \subseteq Ids /\ page \subseteq StateAt /\ page \subseteq ever
      /\ \A id \in page : id \in Nat
      /\ last \in Int /\ last > cursor
  BY <1>2, <1>3
<1>5. pages \in Seq(SUBSET Ids) /\ page \in SUBSET Ids
  BY <1>4 DEF CatalogInv, ReaderTypes
<1>6. Listed' = Listed \cup page
  BY <1>1, <1>5, ListedAfterPage DEF Listed
<1>7. ReaderTypes'
  <2>1. pages' \in Seq(SUBSET Ids)
    BY <1>1, <1>5
  <2> QED BY <1>1, <1>4, <2>1 DEF ReaderTypes, CatalogInv
<1>8. HistoryKnows'
  BY <1>1 DEF HistoryKnows, CatalogInv, CountByIdentifier, Crowded
<1>9. /\ InOrder /\ Listed \subseteq ever
      /\ \A id \in Listed : id \in Int /\ id <= cursor
  <2>1. Listed \subseteq Nat
    <3>1. \A p \in DOMAIN pages : pages[p] \subseteq Ids
      BY <1>5
    <3> QED BY <3>1, IdsFacts DEF Listed, Range
  <2>2. InOrder /\ Listed \subseteq ever /\ \A id \in Listed : id <= cursor
    BY Zenon DEF CatalogInv, ListedUpToCursor
  <2>3. \A id \in Listed : id \in Int
    BY <2>1
  <2> QED BY <2>2, <2>3, Zenon
<1>10. InOrder'
  <2>1. /\ DOMAIN pages = 1..Len(pages) /\ Len(pages) \in Nat
        /\ DOMAIN pages' = 1..(Len(pages) + 1)
        /\ \A p \in 1..Len(pages) : pages'[p] = pages[p]
        /\ pages'[Len(pages) + 1] = page
    BY <1>1, <1>5, AppendFacts
  <2> SUFFICES ASSUME NEW p \in DOMAIN pages', NEW q \in DOMAIN pages', p < q,
                      NEW x \in pages'[p], NEW y \in pages'[q]
               PROVE  x < y
    BY DEF InOrder
  <2>2. p \in DOMAIN pages /\ x \in pages[p]
    BY <2>1
  <2>3. CASE q \in DOMAIN pages
    BY <1>9, <2>1, <2>2, <2>3 DEF InOrder
  <2>4. CASE q = Len(pages) + 1
    <3>1. x \in Listed
      BY <2>2 DEF Listed, Range
    <3>2. y \in page
      BY <2>1, <2>4
    <3> QED BY <1>2, <1>3, <1>4, <1>9, <3>1, <3>2
  <2> QED BY <2>1, <2>3, <2>4
<1>11. Listed' \subseteq ever' /\ \A id \in Listed' : id <= cursor'
  BY <1>1, <1>2, <1>3, <1>4, <1>6, <1>9
<1>12. ASSUME pinned PROVE Listed' = {id \in Scanned(snapshot) : id <= last}
  <2>1. StateAt = snapshot /\ Listed = {id \in Scanned(snapshot) : id <= cursor}
    BY <1>1, <1>12 DEF StateAt, CatalogInv, ListedUpToCursor
  <2>2. \A id \in Scanned(snapshot) : id \in Nat
    BY <1>2, <2>1
  <2>3. ASSUME NEW id \in Scanned(snapshot), id <= last PROVE id \in Listed \cup page
    BY <1>2, <1>3, <1>4, <2>1, <2>2, <2>3
  <2>4. ASSUME NEW id \in Listed \cup page PROVE id \in Scanned(snapshot) /\ id <= last
    BY <1>2, <1>3, <1>4, <1>9, <2>1, <2>4
  <2> QED BY <1>6, <2>3, <2>4
<1>13. ASSUME ~crowded, NEW id \in always, id <= last PROVE id \in Listed'
  <2>1. id \in Scanned(StateAt) /\ id \in Nat
    BY <1>2, <1>13
  <2>2. CASE id <= cursor
    BY <1>1, <1>6, <1>13, <2>2 DEF CatalogInv, ListedUpToCursor
  <2>3. CASE id > cursor
    BY <1>3, <1>6, <1>13, <2>1, <2>3
  <2> QED BY <1>2, <2>1, <2>2, <2>3
<1>14. ListedUpToCursor'
  BY <1>1, <1>10, <1>11, <1>12, <1>13 DEF ListedUpToCursor, Scanned
<1> QED BY <1>7, <1>8, <1>14

LEMMA NextCatalogInv ==
  ASSUME AuthAssumption, CatalogAssumption, CatalogInv, [CatalogNext]_vars PROVE CatalogInv'
<1>1. [Next]_authVars
  BY DEF CatalogNext, ChainCall, Import, Start, NextPage, vars, Next
<1>2. SignedInv' /\ IdsBounded'
  BY <1>1, NextSignedInv, NextIdsBounded DEF CatalogInv
<1>3. CASE UNCHANGED <<sealed, readerVars, historyVars>>
  BY <1>2, <1>3, CallKeepsReader DEF CatalogInv
<1>4. ASSUME NEW g \in Chains, Import(g) PROVE CatalogInv'
  BY <1>2, <1>4, ImportKeepsReader DEF CatalogInv
<1>5. CASE Start
  BY <1>2, <1>5, StartBegins DEF CatalogInv
<1>6. CASE NextPage
  BY <1>2, <1>6, EmptyPageEnds, PageAdvances DEF CatalogInv
<1> QED BY <1>3, <1>4, <1>5, <1>6 DEF CatalogNext, ChainCall, vars

LEMMA CatalogInvariant == CatalogSpec => []CatalogInv
<1>1. CatalogInit => CatalogInv
  BY AuthAssumption, InitCatalogInv
<1>2. CatalogInv /\ [CatalogNext]_vars => CatalogInv'
  BY AuthAssumption, CatalogAssumption, NextCatalogInv
<1> QED BY <1>1, <1>2, PTL DEF CatalogSpec

\* ListingComplete: no id is listed twice or was never claimed, and none that
\* was claimed all along is missing from a finished listing, at whatever blocks
\* the pages were answered (lookup_by_identifier_paged, at_hash).
THEOREM ListingsAreComplete == CatalogSpec => []ListingComplete
<1>1. CatalogInv => ListingComplete
  BY DEF CatalogInv, ListedUpToCursor, ListingComplete
<1> QED BY <1>1, CatalogInvariant, PTL

\* CountMatchesListing: at one block, the pages hold as many ids as the count
\* says, and below MAX_LOOKUP_SCAN that is all of them (count_by_identifier).
THEOREM CountsMatchListings == CatalogSpec => []CountMatchesListing
<1>1. ASSUME CatalogInv PROVE CountMatchesListing
  <2> SUFFICES ASSUME phase = "done", pinned
               PROVE  /\ Cardinality(Listed) = count
                      /\ count < MaxLookupScan => Listed = snapshot
    BY DEF CountMatchesListing
  <2>1. Listed = Scanned(snapshot) /\ count = Cardinality(Scanned(snapshot))
    BY <1>1 DEF CatalogInv, ListedUpToCursor, HistoryKnows, CountByIdentifier
  <2>2. ASSUME count < MaxLookupScan PROVE Scanned(snapshot) = snapshot
    <3>1. snapshot \subseteq Ids
      BY <1>1 DEF CatalogInv, ReaderTypes
    <3>2. IsFiniteSet(snapshot)
      BY <3>1, AuthAssumption, ClaimsFacts
    <3>3. MaxLookupScan \in Int /\ \A id \in snapshot : HashRank[id] \in Int
      BY <3>1, CatalogAssumption
    <3>4. Cardinality(FirstBy(snapshot, HashRank, MaxLookupScan)) < MaxLookupScan
      BY <2>1, <2>2 DEF Scanned
    <3>5. FirstBy(snapshot, HashRank, MaxLookupScan) = snapshot
      BY <3>2, <3>3, <3>4, ShortSelectionIsWhole
    <3> QED BY <3>5 DEF Scanned
  <2> QED BY <2>1, <2>2
<1> QED BY <1>1, CatalogInvariant, PTL

\* The same of the messages: with a reader beside them, the calls are those of
\* OnBehalfAuth, so a message still takes effect once and the records are still
\* as signed.
THEOREM MessagesAndReader == CatalogSpec => [](SignedOnce /\ RecordsAsSigned)
<1>1. CatalogInv => SignedOnce /\ RecordsAsSigned
  BY AuthAssumption, AuthInvGivesSignedOnce, SigningsAreTheProperty DEF CatalogInv, SignedInv
<1> QED BY <1>1, CatalogInvariant, PTL
=============================================================================
