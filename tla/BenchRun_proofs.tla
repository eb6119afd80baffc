--------------------------- MODULE BenchRun_proofs ---------------------------
(***************************************************************************)
(* What the bench commands promise of the chain and of their report, for   *)
(* every number of signers, size of a batch, number of retries and foreign *)
(* uses of a key: a signer's batches land in order, a batch under a nonce  *)
(* of the worker's own at most once (OrderInv); every record asked for is  *)
(* counted once (CountInv); and what was counted as deposited is in the    *)
(* chain, with little else (ReportInv).  The second and the third stand on *)
(* the first.                                                              *)
(***************************************************************************)
EXTENDS BenchRun, SumLemmas

\* A batch is named by its sub-run and its place in the worker's slice.
Batches == (Nat \ {0}) \X (Nat \ {0})
Nonces == Nat \cup {AutoNonce}
Transactions == [signer : Signers, nonce : Nat, payload : Batches, auto : BOOLEAN]
Entries == [payload : Batches, ok : BOOLEAN, auto : BOOLEAN]
Submissions ==
  [at : {"idle", "preparing", "sending", "watching", "ok", "err"},
   payload : Batches \cup {<<>>}, given : Nonces, nonce : Nat, tries : Nat]
WorkerStates ==
  [at : Working \cup Finished \cup {"waiting"}, nonce : Nonces, chunk : Nat \ {0}]

\* The types.
BenchTypes ==
  /\ run \in Nat \ {0}
  /\ account \in [Signers -> Nat]
  /\ pool \subseteq Transactions
  /\ sub \in [Signers -> Submissions]
  /\ ran \in [Signers -> Seq(Entries)]
  /\ worker \in [Signers -> WorkerStates]

-----------------------------------------------------------------------------
(* The inductive invariant, signer by signer. *)

\* The batch a worker is at, and those it has begun.
Cur(s) == <<run, worker[s].chunk>>
Begun(s, payload) ==
  \/ Earlier(payload, Cur(s))
  \/ payload = Cur(s) /\ worker[s].at \in {"calling", "done"}

\* Before r is after p: r may only be p again when p was left to subxt.
Follows(p, payload) ==
  \/ Earlier(p.payload, payload)
  \/ p.payload = payload /\ p.auto

\* A worker calls with its batch and its nonce.
Calling(s) ==
  /\ worker[s].at = "calling" <=> sub[s].at # "idle"
  /\ worker[s].at = "calling" => sub[s].payload = Cur(s) /\ sub[s].given = worker[s].nonce
  /\ sub[s].at \in {"sending", "watching"} /\ sub[s].given # AutoNonce => sub[s].nonce = sub[s].given

\* No nonce is ahead of the account: a transaction the pool holds can run now
\* or never.  A nonce whose transaction landed is behind.
NoncesBehind(s) ==
  /\ worker[s].nonce # AutoNonce => worker[s].nonce <= account[s]
  /\ sub[s].nonce <= account[s]
  /\ sub[s].at = "ok" /\ sub[s].given # AutoNonce => sub[s].given < account[s]
  /\ \A t \in pool : t.signer = s => t.nonce <= account[s]

\* What is in the chain or in the pool has been begun, each batch after the
\* one before it had landed.
ChainBegun(s) ==
  /\ \A p \in DOMAIN ran[s] : Begun(s, ran[s][p].payload)
  /\ \A t \in pool : t.signer = s => Begun(s, t.payload)
  /\ \A c \in 1..(worker[s].chunk - 1) : Landed(s, <<run, c>>)
  /\ sub[s].at = "ok" => Landed(s, sub[s].payload)
  /\ \A t \in pool : t.signer = s /\ t.payload[2] > 1 =>
       Landed(s, <<t.payload[1], t.payload[2] - 1>>)
  /\ \A t \in pool : t.signer = s /\ sub[s].at = "watching" /\ t.nonce = sub[s].nonce =>
       t.payload = sub[s].payload

\* The batch being called has used the nonce it was given, once it has landed
\* or while the pool holds it.
NonceUsed(s) ==
  worker[s].at = "calling" =>
    /\ \A p \in DOMAIN ran[s] : ran[s][p].payload = Cur(s) /\ ~ran[s][p].auto =>
         sub[s].given # AutoNonce /\ sub[s].given < account[s]
    /\ \A t \in pool : t.signer = s /\ t.payload = Cur(s) /\ ~t.auto =>
         sub[s].given = t.nonce

\* A transaction that can run comes after everything in the chain.
LiveIsLast(s) ==
  \A t \in pool : t.signer = s /\ t.nonce = account[s] =>
    \A p \in DOMAIN ran[s] : Follows(ran[s][p], t.payload)

ChainOrdered(s) ==
  \A q \in DOMAIN ran[s] :
    /\ \A p \in 1..(q - 1) : Follows(ran[s][p], ran[s][q].payload)
    /\ ran[s][q].payload[2] > 1 =>
         \E p \in 1..(q - 1) :
           /\ ran[s][p].payload = <<ran[s][q].payload[1], ran[s][q].payload[2] - 1>>
           /\ ran[s][p].ok

SignerInv(s) ==
  /\ Calling(s)
  /\ NoncesBehind(s)
  /\ ChainBegun(s)
  /\ NonceUsed(s)
  /\ LiveIsLast(s)
  /\ ChainOrdered(s)

OrderInv == BenchTypes /\ \A s \in Signers : SignerInv(s)

-----------------------------------------------------------------------------
(* Steps that leave a signer's batches alone. *)

LEMMA EntryTypes ==
  ASSUME BenchTypes, NEW s \in Signers
  PROVE  \A p \in DOMAIN ran[s] :
           ran[s][p] \in Entries /\ ran[s][p].payload \in Batches
<1>1. ran[s] \in Seq(Entries)
  BY DEF BenchTypes
<1>2. \A p \in DOMAIN ran[s] : ran[s][p] \in Entries
  BY <1>1
<1> QED
  BY <1>2 DEF Entries

\* Nothing of s moves but its account and what the pool loses.
LEMMA SignerFrame ==
  ASSUME BenchTypes, NEW s \in Signers, SignerInv(s),
         worker'[s] = worker[s], sub'[s] = sub[s], ran'[s] = ran[s], run' = run,
         account'[s] \in Nat, account[s] <= account'[s],
         \A t \in pool' : t.signer = s => t \in pool
  PROVE  SignerInv(s)'
<1>1. account[s] \in Nat /\ \A t \in pool : t.nonce \in Nat
  BY DEF BenchTypes, Transactions
<1>2. sub[s].nonce \in Nat /\ (sub[s].given # AutoNonce => sub[s].given \in Nat)
      /\ (worker[s].nonce # AutoNonce => worker[s].nonce \in Nat)
  BY DEF BenchTypes, Submissions, WorkerStates, Nonces
<1>3. Cur(s)' = Cur(s) /\ \A b : Begun(s, b)' <=> Begun(s, b)
  BY DEF Cur, Begun
<1>4. \A b : Landed(s, b)' <=> Landed(s, b)
  BY DEF Landed
<1>5. Calling(s)'
  BY <1>3 DEF SignerInv, Calling
<1>6. NoncesBehind(s)'
  BY <1>1, <1>2 DEF SignerInv, NoncesBehind
<1>7. ChainBegun(s)'
  BY <1>3, <1>4 DEF SignerInv, ChainBegun
<1>8. NonceUsed(s)'
  BY <1>1, <1>2, <1>3 DEF SignerInv, NonceUsed
<1>9. LiveIsLast(s)'
  <2> SUFFICES ASSUME NEW t \in pool', t.signer = s, t.nonce = account'[s]
               PROVE  \A p \in DOMAIN ran[s] : Follows(ran[s][p], t.payload)
    BY DEF LiveIsLast
  <2>1. t \in pool /\ t.nonce <= account[s]
    BY DEF SignerInv, NoncesBehind
  <2>2. t.nonce = account[s]
    BY <1>1, <2>1
  <2> QED
    BY <2>1, <2>2 DEF SignerInv, LiveIsLast
<1>10. ChainOrdered(s)'
  BY DEF SignerInv, ChainOrdered
<1> QED
  BY <1>5, <1>6, <1>7, <1>8, <1>9, <1>10 DEF SignerInv

\* The submission of s moves on without an answer from the chain.
LEMMA SubmissionMoves ==
  ASSUME BenchTypes, NEW s \in Signers, SignerInv(s),
         worker'[s] = worker[s], ran'[s] = ran[s], run' = run, account'[s] = account[s],
         \A t \in pool' : t.signer = s => t \in pool,
         sub[s].at # "idle",
         NEW at \in {"preparing", "sending", "watching", "err"},
         NEW nonce \in Nat, NEW tries, sub'[s] = Moved(s, at, nonce, tries),
         nonce <= account[s],
         at \in {"sending", "watching"} /\ sub[s].given # AutoNonce => nonce = sub[s].given,
         at = "watching" =>
           \A t \in pool : t.signer = s /\ t.nonce = nonce => t.payload = sub[s].payload
  PROVE  SignerInv(s)'
<1>1. /\ sub'[s].at = at /\ sub'[s].nonce = nonce
      /\ sub'[s].payload = sub[s].payload /\ sub'[s].given = sub[s].given
  BY DEF Moved
<1>2. Cur(s)' = Cur(s) /\ \A b : Begun(s, b)' <=> Begun(s, b)
  BY DEF Cur, Begun
<1>3. \A b : Landed(s, b)' <=> Landed(s, b)
  BY DEF Landed
<1>4. Calling(s)'
  BY <1>1, <1>2 DEF SignerInv, Calling
<1>5. NoncesBehind(s)'
  BY <1>1 DEF SignerInv, NoncesBehind
<1>6. ChainBegun(s)'
  BY <1>1, <1>2, <1>3 DEF SignerInv, ChainBegun
<1>7. NonceUsed(s)'
  BY <1>1, <1>2 DEF SignerInv, NonceUsed
<1>8. LiveIsLast(s)'
  BY DEF SignerInv, LiveIsLast
<1>9. ChainOrdered(s)'
  BY DEF SignerInv, ChainOrdered
<1> QED
  BY <1>4, <1>5, <1>6, <1>7, <1>8, <1>9 DEF SignerInv

\* A worker that calls nothing moves on to another state of the kind.
LEMMA WorkerMoves ==
  ASSUME BenchTypes, NEW s \in Signers, SignerInv(s),
         sub'[s] = sub[s], ran'[s] = ran[s], run' = run, account' = account, pool' = pool,
         worker[s].at \notin {"calling", "done"}, worker'[s].at # "calling",
         worker'[s].chunk = worker[s].chunk,
         worker'[s].nonce # AutoNonce => worker'[s].nonce <= account[s]
  PROVE  SignerInv(s)'
<1>1. Cur(s)' = Cur(s) /\ \A b : Begun(s, b) => Begun(s, b)'
  BY DEF Cur, Begun
<1>2. \A b : Landed(s, b)' <=> Landed(s, b)
  BY DEF Landed
<1>3. sub[s].at = "idle"
  BY DEF SignerInv, Calling
<1>4. Calling(s)'
  BY <1>3 DEF SignerInv, Calling
<1>5. NoncesBehind(s)'
  BY <1>3 DEF SignerInv, NoncesBehind
<1>6. ChainBegun(s)'
  BY <1>1, <1>2, <1>3 DEF SignerInv, ChainBegun
<1>7. NonceUsed(s)'
  BY DEF NonceUsed
<1>8. LiveIsLast(s)' /\ ChainOrdered(s)'
  BY DEF SignerInv, LiveIsLast, ChainOrdered
<1> QED
  BY <1>4, <1>5, <1>6, <1>7, <1>8 DEF SignerInv

-----------------------------------------------------------------------------
(* A batch, from its beginning to its answer. *)

\* The next batch begins: nothing of it is in the chain or in the pool.
LEMMA BatchBegins ==
  ASSUME BenchTypes, NEW s \in Signers, SignerInv(s),
         ran'[s] = ran[s], run' = run, account' = account, pool' = pool,
         worker[s].at = "loop", worker'[s].at = "calling",
         worker'[s].chunk = worker[s].chunk, worker'[s].nonce = worker[s].nonce,
         sub'[s] = [at |-> "preparing", payload |-> Cur(s), given |-> worker[s].nonce,
                    nonce |-> 0, tries |-> 0]
  PROVE  SignerInv(s)'
<1>1. Cur(s)' = Cur(s)
  BY DEF Cur
<1>2. /\ \A b : Begun(s, b) => Begun(s, b)'
      /\ \A b : Begun(s, b) => Earlier(b, Cur(s))
  BY DEF Cur, Begun
<1>3. \A b : Landed(s, b)' <=> Landed(s, b)
  BY DEF Landed
<1>4. \A b : Earlier(b, Cur(s)) => b # Cur(s)
  <2>1. run \in Nat /\ worker[s].chunk \in Nat
    BY DEF BenchTypes, WorkerStates
  <2> QED
    BY <2>1 DEF Earlier, Cur
<1>5. account[s] \in Nat
  BY DEF BenchTypes
<1>6. Calling(s)'
  BY <1>1 DEF Calling
<1>7. NoncesBehind(s)'
  BY <1>5 DEF SignerInv, NoncesBehind
<1>8. ChainBegun(s)'
  BY <1>2, <1>3 DEF SignerInv, ChainBegun
<1>9. NonceUsed(s)'
  <2>1. \A p \in DOMAIN ran[s] : ran[s][p].payload # Cur(s)
    BY <1>2, <1>4 DEF SignerInv, ChainBegun
  <2>2. \A t \in pool : t.signer = s => t.payload # Cur(s)
    BY <1>2, <1>4 DEF SignerInv, ChainBegun
  <2> QED
    BY <1>1, <2>1, <2>2 DEF NonceUsed
<1>10. LiveIsLast(s)' /\ ChainOrdered(s)'
  BY DEF SignerInv, LiveIsLast, ChainOrdered
<1> QED
  BY <1>6, <1>7, <1>8, <1>9, <1>10 DEF SignerInv

\* The batch is in the chain: the worker goes on to the next.
LEMMA BatchSucceeds ==
  ASSUME BenchTypes, NEW s \in Signers, SignerInv(s),
         ran'[s] = ran[s], run' = run, account' = account, pool' = pool,
         worker[s].at = "calling", sub[s].at = "ok", sub'[s] = Idle,
         worker'[s] = [at |-> "loop", chunk |-> worker[s].chunk + 1,
                       nonce |-> IF worker[s].nonce = AutoNonce THEN AutoNonce
                                 ELSE worker[s].nonce + 1]
  PROVE  SignerInv(s)'
<1>1. /\ worker[s].chunk \in Nat \ {0} /\ run \in Nat \ {0} /\ account[s] \in Nat
      /\ worker[s].nonce # AutoNonce => worker[s].nonce \in Nat
  BY DEF BenchTypes, WorkerStates, Nonces
<1>2. Cur(s) = <<run, worker[s].chunk>> /\ Cur(s)' = <<run, worker[s].chunk + 1>>
  BY DEF Cur
<1>3. \A b \in Batches : Begun(s, b) => Begun(s, b)'
  <2>1. \A b \in Batches : Earlier(b, Cur(s)) \/ b = Cur(s) => Earlier(b, Cur(s)')
    BY <1>1, <1>2 DEF Batches, Earlier
  <2> QED
    BY <2>1 DEF Begun
<1>4. \A b : Landed(s, b)' <=> Landed(s, b)
  BY DEF Landed
<1>5. Landed(s, Cur(s)) /\ sub[s].given = worker[s].nonce
  BY DEF SignerInv, ChainBegun, Calling
<1>6. Calling(s)'
  BY DEF Calling, Idle
<1>7. NoncesBehind(s)'
  BY <1>1, <1>5 DEF SignerInv, NoncesBehind, Idle
<1>8. ChainBegun(s)'
  <2>1. \A p \in DOMAIN ran[s] : Begun(s, ran[s][p].payload)'
    BY <1>3, EntryTypes DEF SignerInv, ChainBegun
  <2>2. \A t \in pool : t.signer = s => Begun(s, t.payload)'
    BY <1>3 DEF SignerInv, ChainBegun, BenchTypes, Transactions
  <2>3. \A c \in 1..(worker'[s].chunk - 1) : Landed(s, <<run, c>>)'
    <3> SUFFICES ASSUME NEW c \in 1..(worker'[s].chunk - 1) PROVE Landed(s, <<run, c>>)
      BY <1>4
    <3>1. c = worker[s].chunk \/ c \in 1..(worker[s].chunk - 1)
      BY <1>1
    <3> QED
      BY <1>2, <1>5, <3>1 DEF SignerInv, ChainBegun
  <2> QED
    BY <1>4, <2>1, <2>2, <2>3 DEF SignerInv, ChainBegun, Idle
<1>9. NonceUsed(s)'
  BY DEF NonceUsed
<1>10. LiveIsLast(s)' /\ ChainOrdered(s)'
  BY DEF SignerInv, LiveIsLast, ChainOrdered
<1> QED
  BY <1>6, <1>7, <1>8, <1>9, <1>10 DEF SignerInv

\* The batch failed, as far as the worker knows: it stops.
LEMMA BatchFails ==
  ASSUME BenchTypes, NEW s \in Signers, SignerInv(s),
         ran'[s] = ran[s], run' = run, account' = account, pool' = pool,
         worker[s].at = "calling", sub'[s] = Idle, worker'[s].at = "done",
         worker'[s].chunk = worker[s].chunk, worker'[s].nonce = worker[s].nonce
  PROVE  SignerInv(s)'
<1>1. Cur(s)' = Cur(s) /\ \A b : Begun(s, b) => Begun(s, b)'
  BY DEF Cur, Begun
<1>2. \A b : Landed(s, b)' <=> Landed(s, b)
  BY DEF Landed
<1>3. account[s] \in Nat
  BY DEF BenchTypes
<1>4. Calling(s)'
  BY DEF Calling, Idle
<1>5. NoncesBehind(s)'
  BY <1>3 DEF SignerInv, NoncesBehind, Idle
<1>6. ChainBegun(s)'
  BY <1>1, <1>2 DEF SignerInv, ChainBegun, Idle
<1>7. NonceUsed(s)'
  BY DEF NonceUsed
<1>8. LiveIsLast(s)' /\ ChainOrdered(s)'
  BY DEF SignerInv, LiveIsLast, ChainOrdered
<1> QED
  BY <1>4, <1>5, <1>6, <1>7, <1>8 DEF SignerInv

\* Every batch of the sub-run that ends comes before those of the next.
LEMMA NextRunBegins ==
  ASSUME BenchTypes, NEW s \in Signers, SignerInv(s),
         ran'[s] = ran[s], run' = run + 1, account' = account, pool' = pool, sub'[s] = sub[s],
         worker[s].at # "calling", worker'[s].at # "calling",
         worker'[s].chunk = 1, worker'[s].nonce = AutoNonce
  PROVE  SignerInv(s)'
<1>1. worker[s].chunk \in Nat /\ run \in Nat \ {0} /\ account[s] \in Nat
  BY DEF BenchTypes, WorkerStates
<1>2. Cur(s) = <<run, worker[s].chunk>> /\ Cur(s)' = <<run + 1, 1>>
  BY DEF Cur
<1>3. \A b \in Batches : Begun(s, b) => Begun(s, b)'
  <2>1. \A b \in Batches : Earlier(b, Cur(s)) \/ b = Cur(s) => Earlier(b, Cur(s)')
    BY <1>1, <1>2 DEF Batches, Earlier
  <2> QED
    BY <2>1 DEF Begun
<1>4. \A b : Landed(s, b)' <=> Landed(s, b)
  BY DEF Landed
<1>5. sub[s].at = "idle"
  BY DEF SignerInv, Calling
<1>6. Calling(s)'
  BY <1>5 DEF Calling
<1>7. NoncesBehind(s)'
  BY <1>5 DEF SignerInv, NoncesBehind
<1>8. ChainBegun(s)'
  <2>1. \A p \in DOMAIN ran[s] : Begun(s, ran[s][p].payload)'
    BY <1>3, EntryTypes DEF SignerInv, ChainBegun
  <2>2. \A t \in pool : t.signer = s => Begun(s, t.payload)'
    BY <1>3 DEF SignerInv, ChainBegun, BenchTypes, Transactions
  <2>3. 1..(worker'[s].chunk - 1) = {}
    OBVIOUS
  <2> QED
    BY <1>4, <1>5, <2>1, <2>2, <2>3 DEF SignerInv, ChainBegun
<1>9. NonceUsed(s)'
  BY DEF NonceUsed
<1>10. LiveIsLast(s)' /\ ChainOrdered(s)'
  BY DEF SignerInv, LiveIsLast, ChainOrdered
<1> QED
  BY <1>6, <1>7, <1>8, <1>9, <1>10 DEF SignerInv

-----------------------------------------------------------------------------
(* The pool and the chain. *)

\* The pool takes a transaction: it can run at once, and what is in the chain
\* comes before it.
LEMMA PoolTakes ==
  ASSUME BenchTypes, NEW s \in Signers, SignerInv(s),
         worker'[s] = worker[s], ran'[s] = ran[s], run' = run, account' = account,
         sub[s].at = "sending", ~Refused(s), pool' = pool \cup {Transaction(s)},
         NEW at \in {"watching", "preparing", "err"}, NEW tries,
         sub'[s] = Moved(s, at, sub[s].nonce, tries)
  PROVE  SignerInv(s)'
<1> DEFINE new == Transaction(s)
<1>1. /\ sub'[s].at = at /\ sub'[s].nonce = sub[s].nonce
      /\ sub'[s].payload = sub[s].payload /\ sub'[s].given = sub[s].given
  BY DEF Moved
<1>2. /\ new.signer = s /\ new.nonce = sub[s].nonce /\ new.payload = sub[s].payload
      /\ new.auto = (sub[s].given = AutoNonce)
  BY DEF Transaction
<1>3. worker[s].at = "calling" /\ sub[s].payload = Cur(s)
      /\ (sub[s].given # AutoNonce => sub[s].nonce = sub[s].given)
  BY DEF SignerInv, Calling
<1>4. sub[s].nonce = account[s] /\ account[s] \in Nat
  <2>1. sub[s].nonce \in Nat /\ account[s] \in Nat
    BY DEF BenchTypes, Submissions
  <2>2. sub[s].nonce <= account[s] /\ ~(sub[s].nonce < account[s])
    BY DEF SignerInv, NoncesBehind, Refused
  <2> QED
    BY <2>1, <2>2
<1>5. \A t \in pool : t.signer = s => t.nonce # sub[s].nonce
  BY DEF Refused
<1>6. worker[s].chunk \in Nat \ {0} /\ run \in Nat \ {0} /\ Cur(s) = <<run, worker[s].chunk>>
  BY DEF BenchTypes, WorkerStates, Cur
<1>7. \A t \in pool' : t \in pool \/ t = new
  OBVIOUS
<1> HIDE DEF new
<1>8. Cur(s)' = Cur(s) /\ \A b : Begun(s, b)' <=> Begun(s, b)
  BY DEF Cur, Begun
<1>9. \A b : Landed(s, b)' <=> Landed(s, b)
  BY DEF Landed
<1>10. Calling(s)'
  <2>1. sub[s].given = worker[s].nonce
    BY <1>3 DEF SignerInv, Calling
  <2>2. sub[s].given # AutoNonce => sub[s].nonce = sub[s].given
    BY <1>3
  <2> QED
    BY <1>1, <1>3, <1>8, <2>1, <2>2 DEF Calling
<1>11. NoncesBehind(s)'
  BY <1>1, <1>2, <1>4, <1>7 DEF SignerInv, NoncesBehind
<1>12. ChainBegun(s)'
  <2>1. \A t \in pool' : t.signer = s => Begun(s, t.payload)
    BY <1>2, <1>3, <1>7 DEF SignerInv, ChainBegun, Begun
  <2>2. new.payload[2] > 1 => Landed(s, <<new.payload[1], new.payload[2] - 1>>)
    <3> SUFFICES ASSUME worker[s].chunk > 1 PROVE Landed(s, <<run, worker[s].chunk - 1>>)
      BY <1>2, <1>3, <1>6
    <3>1. worker[s].chunk - 1 \in 1..(worker[s].chunk - 1)
      BY <1>6
    <3> QED
      BY <3>1 DEF SignerInv, ChainBegun
  <2>3. \A t \in pool' : t.signer = s /\ t.nonce = sub[s].nonce => t.payload = sub[s].payload
    BY <1>2, <1>5, <1>7
  <2>4. \A t \in pool' : t.signer = s /\ t.payload[2] > 1 =>
          Landed(s, <<t.payload[1], t.payload[2] - 1>>)
    BY <1>7, <2>2 DEF SignerInv, ChainBegun
  <2> QED
    BY <1>1, <1>8, <1>9, <2>1, <2>3, <2>4 DEF SignerInv, ChainBegun
<1>13. NonceUsed(s)'
  <2>1. \A t \in pool' : t.signer = s /\ t.payload = Cur(s) /\ ~t.auto => sub[s].given = t.nonce
    BY <1>2, <1>3, <1>7 DEF SignerInv, NonceUsed
  <2> QED
    BY <1>1, <1>3, <1>8, <2>1 DEF SignerInv, NonceUsed
<1>14. LiveIsLast(s)'
  <2>1. \A p \in DOMAIN ran[s] : Follows(ran[s][p], Cur(s))
    <3> SUFFICES ASSUME NEW p \in DOMAIN ran[s] PROVE Follows(ran[s][p], Cur(s))
      OBVIOUS
    <3>1. Begun(s, ran[s][p].payload)
      BY DEF SignerInv, ChainBegun
    <3>2. ran[s][p].payload = Cur(s) => ran[s][p].auto
      <4>1. SUFFICES ASSUME ran[s][p].payload = Cur(s), ~ran[s][p].auto PROVE FALSE
        OBVIOUS
      <4>2. sub[s].given # AutoNonce /\ sub[s].given < account[s]
        BY <1>3, <4>1 DEF SignerInv, NonceUsed
      <4>3. sub[s].given = account[s]
        BY <1>3, <1>4, <4>2
      <4> QED
        BY <1>4, <4>2, <4>3
    <3> QED
      BY <3>1, <3>2 DEF Begun, Follows
  <2>2. \A t \in pool' : t.signer = s /\ t.nonce = account[s] =>
          \A p \in DOMAIN ran[s] : Follows(ran[s][p], t.payload)
    BY <1>2, <1>3, <1>7, <2>1 DEF SignerInv, LiveIsLast
  <2> QED
    BY <2>2 DEF LiveIsLast
<1>15. ChainOrdered(s)'
  BY DEF SignerInv, ChainOrdered
<1> QED
  BY <1>10, <1>11, <1>12, <1>13, <1>14, <1>15 DEF SignerInv

\* A transaction runs: no other the pool holds can any more.
LEMMA ChainGrows ==
  ASSUME BenchTypes, NEW t \in pool, NEW s \in Signers, s = t.signer, SignerInv(s),
         worker'[s] = worker[s], run' = run,
         t.nonce = account[s], account'[s] = account[s] + 1, pool' = pool \ {t},
         NEW ok \in BOOLEAN,
         ran'[s] = Append(ran[s], [payload |-> t.payload, ok |-> ok, auto |-> t.auto]),
         \/ sub'[s] = sub[s]
         \/ \E answer \in IF ok THEN {"ok", "err"} ELSE {"err"} :
              sub'[s] = Moved(s, answer, sub[s].nonce, sub[s].tries) /\ Watched(t)
  PROVE  SignerInv(s)'
<1> DEFINE n == Len(ran[s])
           e == [payload |-> t.payload, ok |-> ok, auto |-> t.auto]
<1>1. /\ n \in Nat /\ DOMAIN ran[s] = 1..n /\ DOMAIN ran'[s] = 1..(n + 1)
      /\ ran'[s][n + 1] = e /\ \A p \in 1..n : ran'[s][p] = ran[s][p]
  <2>1. ran[s] \in Seq(Entries)
    BY DEF BenchTypes
  <2> QED
    BY <2>1
<1>2. e.payload = t.payload /\ e.ok = ok /\ e.auto = t.auto
  OBVIOUS
<1> HIDE DEF n, e
<1>3. account[s] \in Nat /\ \A u \in pool : u.nonce \in Nat
  BY DEF BenchTypes, Transactions
<1>4. /\ sub[s].nonce \in Nat /\ (sub[s].given # AutoNonce => sub[s].given \in Nat)
      /\ (worker[s].nonce # AutoNonce => worker[s].nonce \in Nat)
  BY DEF BenchTypes, Submissions, WorkerStates, Nonces
<1>5. /\ sub'[s].nonce = sub[s].nonce /\ sub'[s].payload = sub[s].payload
      /\ sub'[s].given = sub[s].given
      /\ sub'[s].at = sub[s].at \/ (sub[s].at = "watching" /\ sub'[s].at \in {"ok", "err"})
      /\ sub'[s].at = "ok" /\ sub[s].at # "ok" =>
           ok /\ sub[s].at = "watching" /\ sub[s].nonce = t.nonce
  <2>1. CASE sub'[s] = sub[s]
    BY <2>1
  <2>2. ASSUME NEW answer \in IF ok THEN {"ok", "err"} ELSE {"err"},
               sub'[s] = Moved(s, answer, sub[s].nonce, sub[s].tries), Watched(t)
        PROVE  /\ sub'[s].nonce = sub[s].nonce /\ sub'[s].payload = sub[s].payload
               /\ sub'[s].given = sub[s].given
               /\ sub'[s].at \in {"ok", "err"} /\ sub[s].at = "watching"
               /\ sub'[s].at = "ok" => ok
               /\ sub[s].nonce = t.nonce
    <3>1. answer \in {"ok", "err"} /\ (answer = "ok" => ok)
      BY <2>2
    <3>2. sub[s].at = "watching" /\ sub[s].nonce = t.nonce
      BY <2>2 DEF Watched
    <3>3. /\ sub'[s].nonce = sub[s].nonce /\ sub'[s].payload = sub[s].payload
          /\ sub'[s].given = sub[s].given /\ sub'[s].at = answer
      BY <2>2 DEF Moved
    <3> QED
      BY <3>1, <3>2, <3>3
  <2> QED
    BY <2>1, <2>2
<1>6. sub'[s].at = "ok" /\ sub[s].at # "ok" => ok /\ sub[s].at = "watching" /\ sub[s].nonce = t.nonce
  BY <1>5
<1>7. Cur(s)' = Cur(s) /\ \A b : Begun(s, b)' <=> Begun(s, b)
  BY DEF Cur, Begun
<1>8. \A b : Landed(s, b) => Landed(s, b)'
  BY <1>1 DEF Landed
<1>9. \A u \in pool' : u \in pool
  OBVIOUS
<1>10. Calling(s)'
  BY <1>5, <1>7 DEF SignerInv, Calling
<1>11. NoncesBehind(s)'
  <2>1. sub'[s].at = "ok" /\ sub[s].given # AutoNonce => sub[s].given < account[s] + 1
    BY <1>3, <1>4, <1>6 DEF SignerInv, NoncesBehind, Calling
  <2> QED
    BY <1>3, <1>4, <1>5, <1>9, <2>1 DEF SignerInv, NoncesBehind
<1>12. ChainBegun(s)'
  <2>1. \A p \in DOMAIN ran'[s] : Begun(s, ran'[s][p].payload)
    <3> SUFFICES ASSUME NEW p \in 1..(n + 1) PROVE Begun(s, ran'[s][p].payload)
      BY <1>1
    <3>1. CASE p = n + 1
      BY <1>1, <1>2, <3>1 DEF SignerInv, ChainBegun
    <3>2. CASE p # n + 1
      <4>1. p \in 1..n
        BY <1>1, <3>2
      <4> QED
        BY <1>1, <4>1 DEF SignerInv, ChainBegun
    <3> QED
      BY <3>1, <3>2
  <2>2. sub'[s].at = "ok" => Landed(s, sub[s].payload)'
    <3>1. CASE sub[s].at = "ok"
      BY <1>5, <1>8, <3>1 DEF SignerInv, ChainBegun
    <3>2. CASE sub[s].at # "ok"
      <4> SUFFICES ASSUME sub'[s].at = "ok" PROVE Landed(s, sub[s].payload)'
        OBVIOUS
      <4>1. ok /\ sub[s].payload = t.payload
        BY <1>6, <3>2 DEF SignerInv, ChainBegun
      <4>2. \E p \in DOMAIN ran'[s] : ran'[s][p].payload = sub[s].payload /\ ran'[s][p].ok
        <5>1. n + 1 \in DOMAIN ran'[s]
          BY <1>1
        <5> QED
          BY <1>1, <1>2, <4>1, <5>1
      <4> QED
        BY <1>5, <4>2 DEF Landed
    <3> QED
      BY <3>1, <3>2
  <2>3. \A c \in 1..(worker[s].chunk - 1) : Landed(s, <<run, c>>)'
    BY <1>8 DEF SignerInv, ChainBegun
  <2>4. \A u \in pool' : u.signer = s /\ u.payload[2] > 1 =>
          Landed(s, <<u.payload[1], u.payload[2] - 1>>)'
    BY <1>8, <1>9 DEF SignerInv, ChainBegun
  <2>5. \A u \in pool' : u.signer = s /\ sub'[s].at = "watching" /\ u.nonce = sub[s].nonce =>
          u.payload = sub[s].payload
    BY <1>5, <1>9 DEF SignerInv, ChainBegun
  <2>6. \A u \in pool' : u.signer = s => Begun(s, u.payload)
    BY <1>9 DEF SignerInv, ChainBegun
  <2> QED
    BY <1>5, <1>7, <2>1, <2>2, <2>3, <2>4, <2>5, <2>6 DEF ChainBegun
<1>13. NonceUsed(s)'
  <2> SUFFICES ASSUME worker[s].at = "calling" PROVE NonceUsed(s)'
    BY DEF NonceUsed
  <2>1. ASSUME NEW p \in 1..(n + 1), ran'[s][p].payload = Cur(s), ~ran'[s][p].auto
        PROVE  sub[s].given # AutoNonce /\ sub[s].given < account[s] + 1
    <3>1. CASE p = n + 1
      <4>1. sub[s].given = t.nonce
        BY <1>1, <1>2, <2>1, <3>1 DEF SignerInv, NonceUsed
      <4> QED
        BY <1>3, <4>1, SubmissionAssumption
    <3>2. CASE p # n + 1
      <4>1. p \in 1..n
        BY <1>1, <3>2
      <4>2. sub[s].given # AutoNonce /\ sub[s].given < account[s]
        BY <1>1, <2>1, <4>1 DEF SignerInv, NonceUsed
      <4> QED
        BY <1>3, <1>4, <4>2
    <3> QED
      BY <3>1, <3>2
  <2>2. \A u \in pool' : u.signer = s /\ u.payload = Cur(s) /\ ~u.auto => sub[s].given = u.nonce
    BY <1>9 DEF SignerInv, NonceUsed
  <2> QED
    BY <1>1, <1>5, <1>7, <2>1, <2>2, ZenonT(30) DEF NonceUsed
<1>14. LiveIsLast(s)'
  <2>1. \A u \in pool' : u.signer = s => u.nonce # account[s] + 1
    BY <1>3, <1>9 DEF SignerInv, NoncesBehind
  <2> QED
    BY <2>1 DEF LiveIsLast
<1>15. ChainOrdered(s)'
  <2> SUFFICES ASSUME NEW q \in 1..(n + 1)
               PROVE  /\ \A p \in 1..(q - 1) : Follows(ran'[s][p], ran'[s][q].payload)
                      /\ ran'[s][q].payload[2] > 1 =>
                           \E p \in 1..(q - 1) :
                             /\ ran'[s][p].payload = <<ran'[s][q].payload[1], ran'[s][q].payload[2] - 1>>
                             /\ ran'[s][p].ok
    BY <1>1 DEF ChainOrdered
  <2>1. \A p \in 1..(q - 1) : p \in 1..n
    BY <1>1
  <2>2. CASE q = n + 1
    <3>1. ran'[s][q].payload = t.payload /\ 1..(q - 1) = 1..n
      BY <1>1, <1>2, <2>2
    <3>2. \A p \in 1..n : Follows(ran[s][p], t.payload)
      BY <1>1 DEF SignerInv, LiveIsLast
    <3>3. t.payload[2] > 1 => Landed(s, <<t.payload[1], t.payload[2] - 1>>)
      BY DEF SignerInv, ChainBegun
    <3> QED
      BY <1>1, <3>1, <3>2, <3>3 DEF Landed
  <2>3. CASE q # n + 1
    <3>1. q \in 1..n
      BY <1>1, <2>3
    <3>2. ran'[s][q] = ran[s][q] /\ \A p \in 1..(q - 1) : ran'[s][p] = ran[s][p]
      BY <1>1, <2>1, <3>1
    <3>3. /\ \A p \in 1..(q - 1) : Follows(ran[s][p], ran[s][q].payload)
          /\ ran[s][q].payload[2] > 1 =>
               \E p \in 1..(q - 1) :
                 /\ ran[s][p].payload = <<ran[s][q].payload[1], ran[s][q].payload[2] - 1>>
                 /\ ran[s][p].ok
      BY <1>1, <3>1 DEF SignerInv, ChainOrdered
    <3> QED
      BY <3>2, <3>3
  <2> QED
    BY <2>2, <2>3
<1> QED
  BY <1>10, <1>11, <1>12, <1>13, <1>14, <1>15 DEF SignerInv

-----------------------------------------------------------------------------
(* Every step. *)

\* A step of one signer is a step of nobody else.
LEMMA OtherSigners ==
  ASSUME OrderInv, NEW s \in Signers, SignerInv(s)', run' = run,
         \A u \in Signers \ {s} : /\ worker'[u] = worker[u] /\ sub'[u] = sub[u]
                                  /\ ran'[u] = ran[u] /\ account'[u] = account[u],
         \A t \in pool' : t.signer # s => t \in pool
  PROVE  \A u \in Signers : SignerInv(u)'
<1>1. BenchTypes /\ \A u \in Signers : account[u] \in Nat
  BY DEF OrderInv, BenchTypes
<1>2. \A n \in Nat : n <= n
  OBVIOUS
<1>3. ASSUME NEW u \in Signers \ {s} PROVE SignerInv(u)'
  BY <1>1, <1>2, SignerFrame DEF OrderInv
<1> QED
  BY <1>3

\* What an update at one signer changes.
LEMMA UpdateOne ==
  ASSUME NEW T, NEW f \in [Signers -> T], NEW s \in Signers, NEW v
  PROVE  /\ [f EXCEPT ![s] = v][s] = v
         /\ \A u \in Signers \ {s} : [f EXCEPT ![s] = v][u] = f[u]
         /\ v \in T => [f EXCEPT ![s] = v] \in [Signers -> T]
OBVIOUS

LEMMA MoveEffect ==
  ASSUME BenchTypes, NEW s \in Signers, NEW to \in Working \cup Finished \cup {"waiting"},
         Move(s, to)
  PROVE  /\ worker'[s].at = to /\ worker'[s].chunk = worker[s].chunk
         /\ worker'[s].nonce = worker[s].nonce
         /\ \A u \in Signers \ {s} : worker'[u] = worker[u]
         /\ worker' \in [Signers -> WorkerStates]
<1> DEFINE w == [worker[s] EXCEPT !.at = to]
<1>1. worker[s] \in WorkerStates /\ worker \in [Signers -> WorkerStates]
  BY DEF BenchTypes
<1>2. /\ w.at = to /\ w.chunk = worker[s].chunk /\ w.nonce = worker[s].nonce
      /\ w \in WorkerStates
  BY <1>1 DEF WorkerStates
<1>3. worker' = [worker EXCEPT ![s] = w]
  BY DEF Move
<1> HIDE DEF w
<1> QED
  BY <1>1, <1>2, <1>3, UpdateOne

LEMMA MovedType ==
  ASSUME BenchTypes, NEW s \in Signers,
         NEW at \in {"idle", "preparing", "sending", "watching", "ok", "err"},
         NEW nonce \in Nat, NEW tries \in Nat
  PROVE  Moved(s, at, nonce, tries) \in Submissions
<1>1. sub[s] \in Submissions
  BY DEF BenchTypes
<1> QED
  BY <1>1 DEF Moved, Submissions

\* A step that moves the worker of s only.
LEMMA AcquireKeeps ==
  ASSUME OrderInv, NEW s \in Signers, Acquire(s)
  PROVE  OrderInv'
<1>1. BenchTypes /\ SignerInv(s) /\ Move(s, "reading") /\ worker[s].at = "waiting"
      /\ UNCHANGED <<account, pool, sub, ran, run>>
  BY DEF OrderInv, Acquire, subVars
<1>2. /\ worker'[s].at = "reading" /\ worker'[s].chunk = worker[s].chunk
      /\ worker'[s].nonce = worker[s].nonce
      /\ \A u \in Signers \ {s} : worker'[u] = worker[u]
      /\ worker' \in [Signers -> WorkerStates]
  BY <1>1, MoveEffect DEF Working
<1>3. worker[s].nonce # AutoNonce => worker[s].nonce <= account[s]
  BY <1>1 DEF SignerInv, NoncesBehind
<1>4. SignerInv(s)'
  BY <1>1, <1>2, <1>3, WorkerMoves
<1>5. \A u \in Signers : SignerInv(u)'
  BY <1>1, <1>2, <1>4, OtherSigners
<1> QED
  BY <1>1, <1>2, <1>5 DEF OrderInv, BenchTypes

LEMMA ReadNonceKeeps ==
  ASSUME OrderInv, NEW s \in Signers, ReadNonce(s)
  PROVE  OrderInv'
<1>1. BenchTypes /\ SignerInv(s) /\ worker[s].at = "reading"
      /\ UNCHANGED <<account, pool, sub, ran, run>>
      /\ worker \in [Signers -> WorkerStates] /\ worker[s] \in WorkerStates
      /\ account[s] \in Nat
  BY DEF OrderInv, ReadNonce, subVars, BenchTypes
<1>2. /\ worker'[s].at \in {"loop", "unread"} /\ worker'[s].chunk = worker[s].chunk
      /\ worker'[s].nonce = worker[s].nonce \/ worker'[s].nonce = account[s]
      /\ \A u \in Signers \ {s} : worker'[u] = worker[u]
      /\ worker' \in [Signers -> WorkerStates]
  <2>1. CASE worker' = [worker EXCEPT ![s] =
                          [at |-> "loop", nonce |-> account[s], chunk |-> worker[s].chunk]]
    <3> DEFINE w == [at |-> "loop", nonce |-> account[s], chunk |-> worker[s].chunk]
    <3>1. w.at = "loop" /\ w.nonce = account[s] /\ w.chunk = worker[s].chunk /\ w \in WorkerStates
      BY <1>1 DEF WorkerStates, Working, Nonces
    <3>2. worker' = [worker EXCEPT ![s] = w]
      BY <2>1
    <3> HIDE DEF w
    <3> QED
      BY <1>1, <3>1, <3>2, UpdateOne
  <2>2. CASE Move(s, IF mode = "fees" THEN "unread" ELSE "loop")
    <3>1. PICK to \in {"loop", "unread"} : Move(s, to)
      BY <2>2
    <3> QED
      BY <1>1, <3>1, MoveEffect DEF Working, Finished
  <2> QED
    BY <2>1, <2>2 DEF ReadNonce
<1>3. worker'[s].nonce # AutoNonce => worker'[s].nonce <= account[s]
  BY <1>1, <1>2 DEF SignerInv, NoncesBehind
<1>4. SignerInv(s)'
  BY <1>1, <1>2, <1>3, WorkerMoves
<1>5. \A u \in Signers : SignerInv(u)'
  BY <1>1, <1>2, <1>4, OtherSigners
<1> QED
  BY <1>1, <1>2, <1>5 DEF OrderInv, BenchTypes

LEMMA NextChunkKeeps ==
  ASSUME OrderInv, NEW s \in Signers, NextChunk(s)
  PROVE  OrderInv'
<1>1. BenchTypes /\ SignerInv(s) /\ worker[s].at = "loop"
      /\ UNCHANGED <<account, pool, ran, run>>
      /\ worker[s] \in WorkerStates /\ run \in Nat \ {0}
      /\ sub \in [Signers -> Submissions]
  BY DEF OrderInv, NextChunk, BenchTypes
<1>2. CASE UNCHANGED sub /\ \E to \in {"done", "stopped"} : Move(s, to)
  <2>1. PICK to \in {"done", "stopped"} : Move(s, to)
    BY <1>2
  <2>2. /\ worker'[s].at = to /\ worker'[s].chunk = worker[s].chunk
        /\ worker'[s].nonce = worker[s].nonce
        /\ \A u \in Signers \ {s} : worker'[u] = worker[u]
        /\ worker' \in [Signers -> WorkerStates]
    BY <1>1, <2>1, MoveEffect DEF Finished
  <2>3. worker[s].nonce # AutoNonce => worker[s].nonce <= account[s]
    BY <1>1 DEF SignerInv, NoncesBehind
  <2>4. SignerInv(s)'
    BY <1>1, <1>2, <2>2, <2>3, WorkerMoves
  <2>5. \A u \in Signers : SignerInv(u)'
    BY <1>1, <1>2, <2>2, <2>4, OtherSigners
  <2> QED
    BY <1>1, <1>2, <2>2, <2>5 DEF OrderInv, BenchTypes
<1>3. CASE Move(s, "calling") /\ Begin(s, <<run, worker[s].chunk>>, worker[s].nonce)
  <2> DEFINE new == [at |-> "preparing", payload |-> Cur(s), given |-> worker[s].nonce,
                     nonce |-> 0, tries |-> 0]
  <2>1. /\ worker'[s].at = "calling" /\ worker'[s].chunk = worker[s].chunk
        /\ worker'[s].nonce = worker[s].nonce
        /\ \A u \in Signers \ {s} : worker'[u] = worker[u]
        /\ worker' \in [Signers -> WorkerStates]
    BY <1>1, <1>3, MoveEffect DEF Working
  <2>2. sub' = [sub EXCEPT ![s] = new]
    BY <1>3 DEF Begin, Cur
  <2>3. new \in Submissions
    BY <1>1 DEF Submissions, WorkerStates, Cur, Batches
  <2> HIDE DEF new
  <2>4. /\ sub'[s] = new /\ \A u \in Signers \ {s} : sub'[u] = sub[u]
        /\ sub' \in [Signers -> Submissions]
    BY <1>1, <2>2, <2>3, UpdateOne
  <2>5. SignerInv(s)'
    BY <1>1, <2>1, <2>4, BatchBegins DEF new
  <2>6. \A u \in Signers : SignerInv(u)'
    BY <1>1, <2>1, <2>4, <2>5, OtherSigners
  <2> QED
    BY <1>1, <2>1, <2>4, <2>6 DEF OrderInv, BenchTypes
<1> QED
  BY <1>2, <1>3 DEF NextChunk

LEMMA ChunkOkKeeps ==
  ASSUME OrderInv, NEW s \in Signers, ChunkOk(s)
  PROVE  OrderInv'
<1> DEFINE w == [at |-> "loop", chunk |-> worker[s].chunk + 1,
                 nonce |-> IF worker[s].nonce = AutoNonce THEN AutoNonce
                           ELSE worker[s].nonce + 1]
<1>1. BenchTypes /\ SignerInv(s) /\ worker[s].at = "calling" /\ sub[s].at = "ok"
      /\ UNCHANGED <<account, pool, ran, run>>
      /\ worker \in [Signers -> WorkerStates] /\ worker[s] \in WorkerStates
      /\ sub \in [Signers -> Submissions]
  BY DEF OrderInv, ChunkOk, BenchTypes
<1>2. sub' = [sub EXCEPT ![s] = Idle] /\ worker' = [worker EXCEPT ![s] = w]
  BY DEF ChunkOk
<1>3. Idle \in Submissions
  BY DEF Idle, Submissions, Nonces
<1>4. w \in WorkerStates
  BY <1>1 DEF WorkerStates, Nonces, Working
<1> HIDE DEF w
<1>5. /\ sub'[s] = Idle /\ \A u \in Signers \ {s} : sub'[u] = sub[u]
      /\ sub' \in [Signers -> Submissions]
  BY <1>1, <1>2, <1>3, UpdateOne
<1>6. /\ worker'[s] = w /\ \A u \in Signers \ {s} : worker'[u] = worker[u]
      /\ worker' \in [Signers -> WorkerStates]
  BY <1>1, <1>2, <1>4, UpdateOne
<1>7. SignerInv(s)'
  BY <1>1, <1>5, <1>6, BatchSucceeds DEF w
<1>8. \A u \in Signers : SignerInv(u)'
  BY <1>1, <1>5, <1>6, <1>7, OtherSigners
<1> QED
  BY <1>1, <1>5, <1>6, <1>8 DEF OrderInv, BenchTypes

LEMMA ChunkErrKeeps ==
  ASSUME OrderInv, NEW s \in Signers, ChunkErr(s)
  PROVE  OrderInv'
<1>1. BenchTypes /\ SignerInv(s) /\ worker[s].at = "calling"
      /\ UNCHANGED <<account, pool, ran, run>>
      /\ Move(s, "done") /\ sub' = [sub EXCEPT ![s] = Idle]
      /\ sub \in [Signers -> Submissions]
  BY DEF OrderInv, ChunkErr, BenchTypes
<1>2. Idle \in Submissions
  BY DEF Idle, Submissions, Nonces
<1>3. /\ sub'[s] = Idle /\ \A u \in Signers \ {s} : sub'[u] = sub[u]
      /\ sub' \in [Signers -> Submissions]
  BY <1>1, <1>2, UpdateOne
<1>4. /\ worker'[s].at = "done" /\ worker'[s].chunk = worker[s].chunk
      /\ worker'[s].nonce = worker[s].nonce
      /\ \A u \in Signers \ {s} : worker'[u] = worker[u]
      /\ worker' \in [Signers -> WorkerStates]
  BY <1>1, MoveEffect DEF Finished
<1>5. SignerInv(s)'
  BY <1>1, <1>3, <1>4, BatchFails
<1>6. \A u \in Signers : SignerInv(u)'
  BY <1>1, <1>3, <1>4, <1>5, OtherSigners
<1> QED
  BY <1>1, <1>3, <1>4, <1>6 DEF OrderInv, BenchTypes

\* A step of the client that neither reaches the pool nor hears of the chain.
LEMMA SubmissionKeeps ==
  ASSUME OrderInv, NEW s \in Signers, UNCHANGED <<account, ran, benchVars>>,
         \A t \in pool' : t \in pool,
         sub[s].at # "idle",
         NEW at \in {"preparing", "sending", "watching", "err"},
         NEW nonce \in Nat, NEW tries \in Nat,
         sub' = [sub EXCEPT ![s] = Moved(s, at, nonce, tries)],
         nonce <= account[s],
         at \in {"sending", "watching"} /\ sub[s].given # AutoNonce => nonce = sub[s].given,
         at = "watching" =>
           \A t \in pool : t.signer = s /\ t.nonce = nonce => t.payload = sub[s].payload
  PROVE  OrderInv'
<1>1. BenchTypes /\ SignerInv(s) /\ UNCHANGED <<run, worker>> /\ sub \in [Signers -> Submissions]
  BY DEF OrderInv, BenchTypes, benchVars
<1> DEFINE new == Moved(s, at, nonce, tries)
<1>2. new \in Submissions
  BY <1>1, MovedType
<1> HIDE DEF new
<1>3. /\ sub'[s] = new /\ \A u \in Signers \ {s} : sub'[u] = sub[u]
      /\ sub' \in [Signers -> Submissions]
  BY <1>1, <1>2, UpdateOne DEF new
<1>4. SignerInv(s)'
  BY <1>1, <1>3, SubmissionMoves DEF new
<1>5. \A u \in Signers : SignerInv(u)'
  BY <1>1, <1>3, <1>4, OtherSigners
<1>6. pool' \subseteq Transactions
  BY <1>1 DEF BenchTypes
<1> QED
  BY <1>1, <1>3, <1>5, <1>6 DEF OrderInv, BenchTypes

LEMMA ClientKeeps ==
  ASSUME OrderInv, NEW s \in Signers, ClientStep(s) \/ LoseStream(s), UNCHANGED benchVars
  PROVE  OrderInv'
<1>1. BenchTypes /\ SignerInv(s) /\ sub[s] \in Submissions /\ account[s] \in Nat
      /\ sub \in [Signers -> Submissions]
  BY DEF OrderInv, BenchTypes
<1>2. /\ sub[s].nonce \in Nat /\ sub[s].tries \in Nat /\ sub[s].given \in Nonces
      /\ sub[s].nonce <= account[s]
      /\ sub[s].tries + 1 \in Nat
  BY <1>1 DEF Submissions, SignerInv, NoncesBehind
<1>3. CASE Prepare(s)
  <2>1. NonceFor(s) \in Nat /\ NonceFor(s) <= account[s]
        /\ (sub[s].given # AutoNonce => NonceFor(s) = sub[s].given)
    <3>1. sub[s].given = worker[s].nonce
      BY <1>1, <1>3 DEF SignerInv, Calling, Prepare
    <3>2. sub[s].given # AutoNonce => sub[s].given \in Nat /\ sub[s].given <= account[s]
      BY <1>1, <1>2, <3>1 DEF SignerInv, NoncesBehind, Nonces
    <3> QED
      BY <1>1, <3>2 DEF NonceFor
  <2>2. sub[s].at # "idle" /\ UNCHANGED <<account, pool, ran>>
        /\ sub' = [sub EXCEPT ![s] = Moved(s, "sending", NonceFor(s), sub[s].tries)]
    BY <1>3 DEF Prepare
  <2> QED
    BY <1>2, <2>1, <2>2, SubmissionKeeps
<1>4. CASE Retry(s)
  <2>1. sub[s].at # "idle" /\ UNCHANGED <<account, pool, ran>>
        /\ sub' = [sub EXCEPT ![s] = Moved(s, "preparing", sub[s].nonce, sub[s].tries + 1)]
    BY <1>4 DEF Retry, Retried
  <2> QED
    BY <1>2, <2>1, SubmissionKeeps
<1>5. CASE Fail(s) \/ LoseStream(s)
  <2>1. sub[s].at # "idle" /\ UNCHANGED <<account, pool, ran>>
        /\ sub' = [sub EXCEPT ![s] = Moved(s, "err", sub[s].nonce, sub[s].tries)]
    BY <1>5 DEF Fail, LoseStream, Answer
  <2> QED
    BY <1>2, <2>1, SubmissionKeeps
<1>6. CASE Send(s) /\ Refused(s) /\ Answer(s, "err") /\ UNCHANGED pool
  <2>1. sub[s].at # "idle" /\ UNCHANGED <<account, pool, ran>>
        /\ sub' = [sub EXCEPT ![s] = Moved(s, "err", sub[s].nonce, sub[s].tries)]
    BY <1>6 DEF Send, Answer
  <2> QED
    BY <1>2, <2>1, SubmissionKeeps
<1>7. CASE Send(s) /\ ~Refused(s) /\ pool' = pool \cup {Transaction(s)}
  <2>1. PICK at \in {"watching", "preparing", "err"}, tries \in Nat :
          sub' = [sub EXCEPT ![s] = Moved(s, at, sub[s].nonce, tries)]
    <3>1. CASE Answer(s, "watching")
      BY <1>2, <3>1 DEF Answer
    <3>2. CASE Answer(s, "err")
      BY <1>2, <3>2 DEF Answer
    <3>3. CASE sub' = [sub EXCEPT ![s] = Retried(s)]
      BY <1>2, <3>3 DEF Retried
    <3> QED
      BY <1>7, <3>1, <3>2, <3>3 DEF Send
  <2>2. sub[s].at = "sending" /\ UNCHANGED <<account, ran, run, worker>>
    BY <1>7 DEF Send, benchVars
  <2> DEFINE new == Moved(s, at, sub[s].nonce, tries)
  <2>3. new \in Submissions
    BY <1>1, <1>2, MovedType
  <2> HIDE DEF new
  <2>4. /\ sub'[s] = new /\ \A u \in Signers \ {s} : sub'[u] = sub[u]
        /\ sub' \in [Signers -> Submissions]
    BY <1>1, <2>1, <2>3, UpdateOne DEF new
  <2>5. SignerInv(s)'
    BY <1>1, <1>7, <2>1, <2>2, <2>4, PoolTakes DEF new
  <2>6. Transaction(s).signer = s /\ Transaction(s) \in Transactions
    <3>1. sub[s].payload = Cur(s) /\ run \in Nat \ {0} /\ worker[s] \in WorkerStates
      BY <1>1, <2>2 DEF SignerInv, Calling, BenchTypes
    <3>2. sub[s].payload \in Batches
      BY <3>1 DEF Cur, Batches, WorkerStates
    <3> QED
      BY <1>2, <3>2 DEF Transaction, Transactions
  <2>7. \A u \in Signers : SignerInv(u)'
    BY <1>1, <1>7, <2>2, <2>4, <2>5, <2>6, OtherSigners
  <2> QED
    BY <1>1, <1>7, <2>2, <2>4, <2>6, <2>7 DEF OrderInv, BenchTypes
<1> QED
  BY <1>3, <1>4, <1>5, <1>6, <1>7 DEF ClientStep, Send

LEMMA IncludeKeeps ==
  ASSUME OrderInv, NEW t \in pool, Include(t), UNCHANGED benchVars
  PROVE  OrderInv'
<1> DEFINE s == t.signer
<1>1. BenchTypes /\ t \in Transactions /\ s \in Signers /\ UNCHANGED <<run, worker>>
      /\ pool' = pool \ {t} /\ t.nonce = account[s]
      /\ account' = [account EXCEPT ![s] = account[s] + 1]
  BY DEF OrderInv, BenchTypes, Transactions, benchVars, Include
<1>2. account \in [Signers -> Nat] /\ sub \in [Signers -> Submissions]
      /\ ran \in [Signers -> Seq(Entries)] /\ sub[s] \in Submissions /\ account[s] \in Nat
  BY <1>1 DEF BenchTypes
<1> HIDE DEF s
<1>3. SignerInv(s)
  BY <1>1 DEF OrderInv
<1>4. PICK ok \in BOOLEAN :
        /\ ran' = [ran EXCEPT ![s] =
                     Append(ran[s], [payload |-> t.payload, ok |-> ok, auto |-> t.auto])]
        /\ IF ~Watched(t) THEN UNCHANGED sub
           ELSE \E answer \in IF ok THEN {"ok", "err"} ELSE {"err"} : Answer(s, answer)
  BY DEF Include, s
<1> DEFINE more == Append(ran[s], [payload |-> t.payload, ok |-> ok, auto |-> t.auto])
<1>5. more \in Seq(Entries)
  <2>1. ran[s] \in Seq(Entries)
    BY <1>1, <1>2
  <2>2. [payload |-> t.payload, ok |-> ok, auto |-> t.auto] \in Entries
    BY <1>1 DEF Transactions, Entries
  <2> QED
    BY <2>1, <2>2
<1>6. /\ ran'[s] = more /\ \A u \in Signers \ {s} : ran'[u] = ran[u]
      /\ ran' \in [Signers -> Seq(Entries)]
  <2> HIDE DEF more
  <2>1. ran' = [ran EXCEPT ![s] = more]
    BY <1>4 DEF more
  <2> QED
    BY <1>1, <1>2, <1>5, <2>1, UpdateOne
<1>7. /\ account'[s] = account[s] + 1 /\ \A u \in Signers \ {s} : account'[u] = account[u]
      /\ account' \in [Signers -> Nat]
  BY <1>1, <1>2, UpdateOne
<1>8. /\ \/ sub'[s] = sub[s]
         \/ \E answer \in IF ok THEN {"ok", "err"} ELSE {"err"} :
              sub'[s] = Moved(s, answer, sub[s].nonce, sub[s].tries) /\ Watched(t)
      /\ \A u \in Signers \ {s} : sub'[u] = sub[u]
      /\ sub' \in [Signers -> Submissions]
  <2>1. CASE UNCHANGED sub
    BY <1>2, <2>1
  <2>2. CASE Watched(t) /\ \E answer \in IF ok THEN {"ok", "err"} ELSE {"err"} : Answer(s, answer)
    <3>1. PICK answer \in IF ok THEN {"ok", "err"} ELSE {"err"} : Answer(s, answer)
      BY <2>2
    <3> DEFINE new == Moved(s, answer, sub[s].nonce, sub[s].tries)
    <3>2. answer \in {"ok", "err"}
      BY <3>1
    <3>3. sub[s].nonce \in Nat /\ sub[s].tries \in Nat
      BY <1>2 DEF Submissions
    <3>4. new \in Submissions
      BY <1>1, <3>2, <3>3, MovedType
    <3>5. sub' = [sub EXCEPT ![s] = new]
      BY <3>1 DEF Answer
    <3>6. /\ sub'[s] = new /\ \A u \in Signers \ {s} : sub'[u] = sub[u]
          /\ sub' \in [Signers -> Submissions]
      <4> HIDE DEF new
      <4> QED
        BY <1>1, <1>2, <3>4, <3>5, UpdateOne
    <3> QED
      BY <2>2, <3>1, <3>6
  <2> QED
    BY <1>4, <2>1, <2>2
<1>9. SignerInv(s)'
  BY <1>1, <1>3, <1>6, <1>7, <1>8, ChainGrows DEF s
<1>10. \A u \in Signers : SignerInv(u)'
  BY <1>1, <1>6, <1>7, <1>8, <1>9, OtherSigners
<1> QED
  BY <1>1, <1>6, <1>7, <1>8, <1>10 DEF OrderInv, BenchTypes

LEMMA DropKeeps ==
  ASSUME OrderInv, NEW t \in pool, Drop(t), UNCHANGED benchVars
  PROVE  OrderInv'
<1>1. BenchTypes /\ t.signer \in Signers /\ UNCHANGED <<account, ran>>
      /\ \A u \in pool' : u \in pool
  BY DEF OrderInv, BenchTypes, Transactions, Drop
<1>2. CASE Watched(t) /\ Answer(t.signer, "err")
  <2> DEFINE s == t.signer
  <2>1. sub[s].at # "idle"
        /\ sub' = [sub EXCEPT ![s] = Moved(s, "err", sub[s].nonce, sub[s].tries)]
    BY <1>2 DEF Watched, Answer
  <2>2. sub[s].nonce \in Nat /\ sub[s].tries \in Nat
    <3>1. sub[s] \in Submissions
      BY <1>1 DEF BenchTypes
    <3> QED
      BY <3>1 DEF Submissions
  <2>3. sub[s].nonce <= account[s]
    BY <1>1 DEF OrderInv, SignerInv, NoncesBehind
  <2>4. s \in Signers
    BY <1>1
  <2> HIDE DEF s
  <2> QED
    BY <1>1, <2>1, <2>2, <2>3, <2>4, SubmissionKeeps
<1>3. CASE UNCHANGED sub
  <2>1. UNCHANGED <<run, worker>> /\ \A u \in Signers : account[u] \in Nat /\ account[u] <= account[u]
    <3>1. account \in [Signers -> Nat]
      BY <1>1 DEF BenchTypes
    <3>2. \A n \in Nat : n <= n
      OBVIOUS
    <3> QED
      BY <3>1, <3>2 DEF benchVars
  <2>2. \A u \in Signers : SignerInv(u)'
    BY <1>1, <1>3, <2>1, SignerFrame DEF OrderInv
  <2> QED
    BY <1>1, <1>3, <2>1, <2>2 DEF OrderInv, BenchTypes
<1> QED
  BY <1>2, <1>3 DEF Drop

LEMMA OutsideKeeps ==
  ASSUME OrderInv, NEW s \in Signers, OutsideUse(s), UNCHANGED benchVars
  PROVE  OrderInv'
<1>1. BenchTypes /\ UNCHANGED <<run, worker, pool, sub, ran>> /\ account \in [Signers -> Nat]
      /\ account' = [account EXCEPT ![s] = account[s] + 1]
  BY DEF OrderInv, BenchTypes, benchVars, OutsideUse
<1>2. account' \in [Signers -> Nat] /\ \A u \in Signers : account[u] <= account'[u]
  BY <1>1
<1>3. \A u \in Signers : SignerInv(u)'
  BY <1>1, <1>2, SignerFrame DEF OrderInv
<1> QED
  BY <1>1, <1>2, <1>3 DEF OrderInv, BenchTypes

\* The workers of a sub-run before they begin.
LEMMA WorkersType ==
  ASSUME NEW sizes
  PROVE  /\ Workers(sizes) \in [Signers -> WorkerStates]
         /\ \A s \in Signers : /\ Workers(sizes)[s].at \in {"done", "waiting"}
                               /\ Workers(sizes)[s].nonce = AutoNonce
                               /\ Workers(sizes)[s].chunk = 1
BY DEF Workers, WorkerStates, Nonces, Finished

LEMMA NextSubRunKeeps ==
  ASSUME OrderInv, NextSubRun
  PROVE  OrderInv'
<1>1. BenchTypes /\ run' = run + 1 /\ UNCHANGED <<account, pool, sub, ran>>
      /\ worker' = Workers(SubRuns[run + 1])
      /\ \A s \in Signers : worker[s].at # "calling"
  BY DEF OrderInv, NextSubRun, Joined, Finished, subVars
<1>2. /\ worker' \in [Signers -> WorkerStates]
      /\ \A s \in Signers : /\ worker'[s].at # "calling"
                            /\ worker'[s].nonce = AutoNonce
                            /\ worker'[s].chunk = 1
  <2> DEFINE sizes == SubRuns[run + 1]
  <2> HIDE DEF sizes
  <2>1. worker' = Workers(sizes)
    BY <1>1 DEF sizes
  <2> QED
    BY <2>1, WorkersType
<1>3. \A s \in Signers : SignerInv(s)'
  BY <1>1, <1>2, NextRunBegins DEF OrderInv
<1>4. run' \in Nat \ {0}
  BY <1>1 DEF BenchTypes
<1> QED
  BY <1>1, <1>2, <1>3, <1>4 DEF OrderInv, BenchTypes

\* Steps that touch neither a batch nor a worker.
LEMMA OthersKeep ==
  ASSUME OrderInv, UNCHANGED <<account, pool, sub, ran, run, worker>>
  PROVE  OrderInv'
<1>1. BenchTypes /\ \A u \in Signers : account[u] \in Nat /\ account[u] <= account[u]
  BY DEF OrderInv, BenchTypes
<1>2. \A u \in Signers : SignerInv(u)'
  BY <1>1, SignerFrame DEF OrderInv
<1> QED
  BY <1>1, <1>2 DEF OrderInv, BenchTypes

LEMMA OrderInit == Init => OrderInv
<1> SUFFICES ASSUME Init PROVE OrderInv
  OBVIOUS
<1>1. /\ run = 1 /\ account = [s \in Signers |-> 0] /\ pool = {}
      /\ sub = [s \in Signers |-> Idle] /\ ran = [s \in Signers |-> <<>>]
      /\ worker = Workers(SubRuns[1])
  BY DEF Init, InitSubmission
<1>2. /\ worker \in [Signers -> WorkerStates]
      /\ \A s \in Signers : /\ worker[s].at # "calling"
                            /\ worker[s].nonce = AutoNonce
                            /\ worker[s].chunk = 1
  <2> DEFINE sizes == SubRuns[1]
  <2> HIDE DEF sizes
  <2>1. worker = Workers(sizes)
    BY <1>1 DEF sizes
  <2> QED
    BY <2>1, WorkersType
<1>3. Idle \in Submissions
  BY DEF Idle, Submissions, Nonces
<1>4. BenchTypes
  BY <1>1, <1>2, <1>3 DEF BenchTypes
<1>5. ASSUME NEW s \in Signers PROVE SignerInv(s)
  <2>1. DOMAIN ran[s] = {} /\ sub[s] = Idle /\ account[s] = 0
    BY <1>1
  <2>2. 1..(worker[s].chunk - 1) = {}
    BY <1>2
  <2>3. Calling(s) /\ NoncesBehind(s)
    BY <1>1, <1>2, <2>1 DEF Calling, NoncesBehind, Idle
  <2>4. ChainBegun(s)
    BY <1>1, <2>1, <2>2 DEF ChainBegun, Idle
  <2> QED
    BY <1>1, <1>2, <2>1, <2>3, <2>4 DEF SignerInv, NonceUsed, LiveIsLast, ChainOrdered
<1> QED
  BY <1>4, <1>5 DEF OrderInv

LEMMA OrderStep == OrderInv /\ [Next]_vars => OrderInv'
<1> SUFFICES ASSUME OrderInv, [Next]_vars PROVE OrderInv'
  OBVIOUS
<1>1. CASE MainStep
  <2>1. CASE NextSubRun
    BY <2>1, NextSubRunKeeps
  <2>2. CASE FundBatch \/ AbortSetup \/ StartWorkers \/ Report \/ AbortReport
    <3>1. UNCHANGED <<account, pool, sub, ran, run, worker>>
      BY <2>2 DEF FundBatch, AbortSetup, StartWorkers, Report, AbortReport, subVars
    <3> QED
      BY <3>1, OthersKeep
  <2> QED
    BY <1>1, <2>1, <2>2 DEF MainStep
<1>2. CASE Consume \/ StopTimer \/ UNCHANGED vars
  <2>1. UNCHANGED <<account, pool, sub, ran, run, worker>>
    BY <1>2 DEF Consume, StopTimer, vars, subVars, benchVars
  <2> QED
    BY <2>1, OthersKeep
<1>3. CASE \E s \in Signers : WorkerStep(s)
  <2>1. PICK s \in Signers : WorkerStep(s)
    BY <1>3
  <2> QED
    BY <2>1, AcquireKeeps, ReadNonceKeeps, NextChunkKeeps, ChunkOkKeeps, ChunkErrKeeps, ClientKeeps
       DEF WorkerStep
<1>4. CASE NodeStep /\ UNCHANGED benchVars
  BY <1>4, IncludeKeeps, DropKeeps, OutsideKeeps, ClientKeeps DEF NodeStep
<1> QED
  BY <1>1, <1>2, <1>3, <1>4 DEF Next

LEMMA OrderAlways == Spec => []OrderInv
BY OrderInit, OrderStep, PTL DEF Spec

\* Whatever is retried, dropped, delayed or answered to nobody, and whoever
\* else uses its key, a signer's batches land in the order of its slice, each
\* after the one before it, and under a nonce of the worker's own at most once
\* (deposit_batch_with_nonce): no nonce is ever ahead of the account's, so the
\* only transaction of a signer that can still run is the last one sent.
THEOREM BatchesLandInOrder == Spec => []LandsInOrder
<1>1. OrderInv => LandsInOrder
  <2> SUFFICES ASSUME OrderInv, NEW s \in Signers, NEW q \in DOMAIN ran[s]
               PROVE  /\ \A p \in 1..(q - 1) :
                           \/ Earlier(ran[s][p].payload, ran[s][q].payload)
                           \/ ran[s][p].payload = ran[s][q].payload /\ ran[s][p].auto
                      /\ ran[s][q].payload[2] > 1 =>
                           \E p \in 1..(q - 1) :
                             /\ ran[s][p].payload
                                  = <<ran[s][q].payload[1], ran[s][q].payload[2] - 1>>
                             /\ ran[s][p].ok
    BY Zenon DEF LandsInOrder
  <2>1. ChainOrdered(s)
    BY DEF OrderInv, SignerInv
  <2> QED
    BY <2>1 DEF ChainOrdered, Follows
<1> QED
  BY <1>1, OrderAlways, PTL

-----------------------------------------------------------------------------
(* Shares and batches: how the records of a sub-run are dealt. *)

LEMMA SignersCount ==
  /\ SignerCount \in Nat \ {0} /\ Signers = 0..(SignerCount - 1)
  /\ IsFiniteSet(Signers) /\ Cardinality(Signers) = SignerCount
<1>1. SignerCount \in Nat \ {0} /\ Signers = 0..(SignerCount - 1)
  BY BenchAssumption
<1>2. SignerCount - 1 \in Int /\ 0 \in Int
  BY <1>1
<1>3. IsFiniteSet(0..(SignerCount - 1))
      /\ Cardinality(0..(SignerCount - 1)) = IF 0 > SignerCount - 1 THEN 0 ELSE SignerCount - 1 - 0 + 1
  BY <1>2, FS_Interval
<1> QED
  BY <1>1, <1>3

LEMMA MaxOfTwo ==
  ASSUME NEW x \in Int
  PROVE  Max({0, x}) = IF x > 0 THEN x ELSE 0
<1> DEFINE m == IF x > 0 THEN x ELSE 0
<1>1. m \in {0, x} /\ \A y \in {0, x} : m >= y
  OBVIOUS
<1>2. \A k \in {0, x} : (\A y \in {0, x} : k >= y) => k = m
  OBVIOUS
<1> HIDE DEF m
<1>3. Max({0, x}) = m
  BY <1>1, <1>2 DEF Max
<1> QED
  BY <1>3 DEF m

LEMMA MinOfTwo ==
  ASSUME NEW a \in Int, NEW b \in Int
  PROVE  Min({a, b}) = IF a <= b THEN a ELSE b
<1> DEFINE m == IF a <= b THEN a ELSE b
<1>1. m \in {a, b} /\ \A y \in {a, b} : m <= y
  OBVIOUS
<1>2. \A k \in {a, b} : (\A y \in {a, b} : k <= y) => k = m
  OBVIOUS
<1> HIDE DEF m
<1>3. Min({a, b}) = m
  BY <1>1, <1>2 DEF Min
<1> QED
  BY <1>3 DEF m

\* Dealing one record more gives it to the signer whose turn it is.
LEMMA ShareOf ==
  ASSUME NEW q \in Nat, NEW j \in Nat, j < SignerCount, NEW s \in Signers
  PROVE  Share(SignerCount * q + j, s) = q + (IF s < j THEN 1 ELSE 0)
<1> DEFINE d == SignerCount
<1>1. d \in Nat \ {0} /\ s \in 0..(d - 1) /\ d * q \in Nat
  BY SignersCount
<1>2. Share(d * q + j, s) = (d * q + j + d - 1 - s) \div d
  BY DEF Share
<1> HIDE DEF d
<1>3. CASE s < j
  <2> DEFINE r == j - 1 - s
  <2>1. r \in Nat /\ r < d
    BY <1>1, <1>3 DEF d
  <2>2. d * (q + 1) = d * q + d
    BY <1>1
  <2>3. d * q + j + d - 1 - s = d * (q + 1) + r
    BY <1>1, <2>2
  <2> HIDE DEF r
  <2>4. (d * (q + 1) + r) \div d = q + 1
    BY <1>1, <2>1, QuotientIs
  <2> QED
    BY <1>2, <1>3, <2>3, <2>4 DEF d
<1>4. CASE ~(s < j)
  <2> DEFINE r == j + d - 1 - s
  <2>1. r \in Nat /\ r < d
    BY <1>1, <1>4 DEF d
  <2>2. d * q + j + d - 1 - s = d * q + r
    BY <1>1
  <2> HIDE DEF r
  <2>3. (d * q + r) \div d = q
    BY <1>1, <2>1, QuotientIs
  <2>4. q + 0 = q
    OBVIOUS
  <2> QED
    BY <1>2, <1>4, <2>2, <2>3, <2>4 DEF d
<1> QED
  BY <1>3, <1>4

LEMMA Parts ==
  ASSUME NEW n \in Nat
  PROVE  \E q \in Nat, j \in Nat : j < SignerCount /\ n = SignerCount * q + j
<1> DEFINE q == n \div SignerCount
<1>1. SignerCount \in Nat \ {0}
  BY SignersCount
<1>2. q \in Nat /\ SignerCount * q <= n /\ n < SignerCount * q + SignerCount
  BY <1>1, Quotient
<1> HIDE DEF q
<1>3. n - SignerCount * q \in Nat
  BY <1>1, <1>2
<1>4. n - SignerCount * q < SignerCount /\ n = SignerCount * q + (n - SignerCount * q)
  BY <1>1, <1>2, <1>3
<1> QED
  BY <1>2, <1>3, <1>4

LEMMA ShareType ==
  ASSUME NEW n \in Nat, NEW s \in Signers
  PROVE  Share(n, s) \in Nat
<1>1. PICK q \in Nat, j \in Nat : j < SignerCount /\ n = SignerCount * q + j
  BY Parts
<1> QED
  BY <1>1, ShareOf

\* Every record is dealt to one signer.
LEMMA SharesAddUp ==
  ASSUME NEW n \in Nat
  PROVE  SumFunction([s \in Signers |-> Share(n, s)]) = n
<1> DEFINE Dealt(k) == [s \in Signers |-> Share(k, s)]
           Wrong == {k \in Nat : SumFunction(Dealt(k)) # k}
<1>1. SUFFICES ASSUME Wrong # {} PROVE FALSE
  OBVIOUS
<1>2. PICK k \in Wrong : \A i \in Wrong : k <= i
  <2>1. Wrong \subseteq Nat
    OBVIOUS
  <2> HIDE DEF Wrong
  <2> QED
    BY <1>1, <2>1, LeastNatural
<1>3. k \in Nat /\ SumFunction(Dealt(k)) # k
  BY <1>2
<1>4. SignerCount \in Nat \ {0} /\ Signers = 0..(SignerCount - 1) /\ IsFiniteSet(Signers)
  BY SignersCount
<1>5. k # 0
  <2> SUFFICES ASSUME k = 0 PROVE FALSE
    OBVIOUS
  <2>1. \A s \in Signers : Share(0, s) = 0
    <3>1. SignerCount * 0 + 0 = 0
      BY <1>4
    <3>2. \A s \in Signers : Share(SignerCount * 0 + 0, s) = 0 + (IF s < 0 THEN 1 ELSE 0)
      BY <1>4, ShareOf
    <3>3. \A s \in Signers : ~(s < 0)
      BY <1>4
    <3> QED
      BY <3>1, <3>2, <3>3
  <2>2. SumFunctionOnSet(Dealt(0), Signers) = 0
    BY <1>4, <2>1, SumZero
  <2>3. SumFunction(Dealt(0)) = SumFunctionOnSet(Dealt(0), Signers)
    BY DEF SumFunction
  <2> QED
    BY <1>3, <2>2, <2>3
<1>6. k - 1 \in Nat /\ SumFunction(Dealt(k - 1)) = k - 1
  <2>1. k - 1 \in Nat /\ ~(k <= k - 1)
    BY <1>3, <1>5
  <2>2. k - 1 \notin Wrong
    BY <1>2, <2>1
  <2> QED
    BY <2>1, <2>2
<1>7. PICK q \in Nat, j \in Nat : j < SignerCount /\ k - 1 = SignerCount * q + j
  BY <1>6, Parts
<1>8. j \in Signers /\ SignerCount * q \in Nat
  BY <1>4, <1>7
<1>9. \A s \in Signers : Share(k, s) = q + (IF s < j + 1 THEN 1 ELSE 0)
  <2>1. CASE j + 1 < SignerCount
    <3>1. k = SignerCount * q + (j + 1)
      BY <1>3, <1>7, <1>8
    <3> QED
      BY <2>1, <3>1, ShareOf
  <2>2. CASE ~(j + 1 < SignerCount)
    <3>1. j + 1 = SignerCount /\ SignerCount * (q + 1) = SignerCount * q + SignerCount
      BY <1>4, <1>7, <2>2
    <3>2. k = SignerCount * (q + 1) + 0
      BY <1>3, <1>4, <1>7, <1>8, <3>1
    <3>3. \A s \in Signers : Share(SignerCount * (q + 1) + 0, s) = (q + 1) + (IF s < 0 THEN 1 ELSE 0)
      <4>1. q + 1 \in Nat /\ 0 \in Nat /\ 0 < SignerCount
        BY <1>4
      <4> QED
        BY <4>1, ShareOf
    <3>4. \A s \in Signers : s < j + 1 /\ ~(s < 0)
      BY <1>4, <3>1
    <3> QED
      BY <3>2, <3>3, <3>4
  <2> QED
    BY <2>1, <2>2
<1>10. \A s \in Signers : Share(k - 1, s) = q + (IF s < j THEN 1 ELSE 0)
  BY <1>7, ShareOf
<1>11. \A s \in Signers : Share(k, s) \in Int /\ Share(k - 1, s) \in Int
  BY <1>3, <1>6, ShareType
<1>12. \A s \in Signers \ {j} : Share(k, s) = Share(k - 1, s)
  BY <1>4, <1>8, <1>9, <1>10
<1>13. Share(k, j) = Share(k - 1, j) + 1
  BY <1>4, <1>8, <1>9, <1>10
<1> DEFINE f == Dealt(k - 1)
           h == Dealt(k)
<1>14. /\ f \in [Signers -> Int] /\ h \in [Signers -> Int]
       /\ \A s \in Signers \ {j} : h[s] = f[s]
       /\ h[j] = f[j] + 1 /\ f[j] \in Int /\ h[j] \in Int
  BY <1>8, <1>11, <1>12, <1>13
<1>15. SumFunction(f) = k - 1 /\ SumFunction(h) # k
  BY <1>3, <1>6
<1> HIDE DEF f, h
<1>16. SumFunction(f) \in Int /\ SumFunction(h) = SumFunction(f) - f[j] + h[j]
  <2>1. IsFiniteSet(Signers) /\ j \in Signers
    BY <1>4, <1>8
  <2> QED
    BY <1>14, <2>1, SumUpdate
<1> QED
  BY <1>3, <1>14, <1>15, <1>16

\* The sub-runs are numbered from 1, and only `seed --midds-type all` has
\* more than one.
LEMMA SubRunsType ==
  ASSUME mode \in DOMAIN Counts
  PROVE  /\ \E k \in {1, 2, 3} : DOMAIN SubRuns = 1..k /\ (k > 1 => mode = "seed_all")
         /\ \A r \in DOMAIN SubRuns : SubRuns[r] \in Nat
<1> DEFINE n == Counts[mode]
<1>1. n \in Nat \ {0}
  BY BenchAssumption
<1>2. CASE mode = "seed_all"
  <2>1. SubRuns = [k \in 1..Min({3, n}) |-> SplitRoundRobin(n)[k]]
    BY <1>2 DEF SubRuns
  <2> HIDE DEF n
  <2>2. Min({3, n}) = IF 3 <= n THEN 3 ELSE n
    BY <1>1, MinOfTwo
  <2>3. Min({3, n}) \in {1, 2, 3}
    BY <1>1, <2>2
  <2>4. \A k \in 1..3 : SplitRoundRobin(n)[k] \in Nat
    <3>1. n \div 3 \in Nat
      BY <1>1
    <3> QED
      BY <1>1, <3>1 DEF SplitRoundRobin
  <2>5. \A r \in 1..Min({3, n}) : r \in 1..3
    BY <2>3
  <2> DEFINE m == Min({3, n})
  <2> HIDE DEF m
  <2>6. DOMAIN SubRuns = 1..m
    BY <2>1 DEF m
  <2>7. m \in {1, 2, 3}
    BY <2>3 DEF m
  <2>8. \A r \in DOMAIN SubRuns : SubRuns[r] \in Nat
    BY <2>1, <2>4, <2>5
  <2> QED
    BY <1>2, <2>6, <2>7, <2>8
<1>3. CASE mode # "seed_all"
  <2>1. SubRuns = [k \in 1..1 |-> n]
    BY <1>3 DEF SubRuns
  <2> HIDE DEF n
  <2>2. DOMAIN SubRuns = 1..1 /\ \A r \in DOMAIN SubRuns : SubRuns[r] \in Nat
    BY <1>1, <2>1
  <2> QED
    BY <2>2
<1> QED
  BY <1>2, <1>3

\* The sum of up to three values.
LEMMA SumOfFew ==
  ASSUME NEW f
  PROVE  /\ f[1] \in Int => SumFunctionOnSet(f, 1..1) = f[1]
         /\ f[1] \in Int /\ f[2] \in Int => SumFunctionOnSet(f, 1..2) = f[1] + f[2]
         /\ f[1] \in Int /\ f[2] \in Int /\ f[3] \in Int =>
              SumFunctionOnSet(f, 1..3) = f[1] + f[2] + f[3]
<1>0. 1..0 = {} /\ SumFunctionOnSet(f, {}) = 0
  BY SumEmpty
<1>1. ASSUME f[1] \in Int PROVE SumFunctionOnSet(f, 1..1) = f[1]
  <2>1. \A x \in 1..(0 + 1) : f[x] \in Int
    BY <1>1
  <2>2. SumFunctionOnSet(f, 1..(0 + 1)) = SumFunctionOnSet(f, 1..0) + f[0 + 1]
    BY <2>1, SumNextOf
  <2> QED
    BY <1>0, <1>1, <2>2
<1>2. ASSUME f[1] \in Int, f[2] \in Int PROVE SumFunctionOnSet(f, 1..2) = f[1] + f[2]
  <2>1. \A x \in 1..(1 + 1) : f[x] \in Int
    BY <1>2
  <2>2. SumFunctionOnSet(f, 1..(1 + 1)) = SumFunctionOnSet(f, 1..1) + f[1 + 1]
    BY <2>1, SumNextOf
  <2> QED
    BY <1>1, <1>2, <2>2
<1>3. ASSUME f[1] \in Int, f[2] \in Int, f[3] \in Int
      PROVE  SumFunctionOnSet(f, 1..3) = f[1] + f[2] + f[3]
  <2>1. \A x \in 1..(2 + 1) : f[x] \in Int
    BY <1>3
  <2>2. SumFunctionOnSet(f, 1..(2 + 1)) = SumFunctionOnSet(f, 1..2) + f[2 + 1]
    BY <2>1, SumNextOf
  <2> QED
    BY <1>2, <1>3, <2>2
<1> QED
  BY <1>1, <1>2, <1>3

\* The sub-runs add up to what was asked for.
LEMMA SubRunsAddUp ==
  ASSUME mode \in DOMAIN Counts
  PROVE  SumFunctionOnSet(SubRuns, DOMAIN SubRuns) = Counts[mode]
<1> DEFINE n == Counts[mode]
<1>1. n \in Nat \ {0}
  BY BenchAssumption
<1>2. CASE mode = "seed_all"
  <2> DEFINE q == n \div 3
             m == IF 3 <= n THEN 3 ELSE n
             f == SubRuns
  <2>1. f = [k \in 1..Min({3, n}) |-> SplitRoundRobin(n)[k]]
    BY <1>2 DEF SubRuns
  <2>2. \A k \in 1..3 : SplitRoundRobin(n)[k] = q + (IF n % 3 >= k THEN 1 ELSE 0)
    BY DEF SplitRoundRobin
  <2> HIDE DEF n, f
  <2>3. Min({3, n}) = m
    BY <1>1, MinOfTwo
  <2>4. n = 3 * q + (n % 3) /\ n % 3 \in 0..2 /\ q \in Nat
    BY <1>1
  <2>5. m \in 1..3 /\ f = [k \in 1..m |-> q + (IF n % 3 >= k THEN 1 ELSE 0)]
    <3>1. m \in 1..3
      BY <1>1
    <3>2. \A k \in 1..m : k \in 1..3
      BY <3>1
    <3> HIDE DEF m, q
    <3>3. f = [k \in 1..m |-> SplitRoundRobin(n)[k]]
      BY <2>1, <2>3
    <3> QED
      BY <2>2, <3>1, <3>2, <3>3
  <2> DEFINE e == n % 3
  <2> HIDE DEF q, e
  <2>6. n = 3 * q + e /\ e \in 0..2 /\ q \in Nat
    BY <2>4 DEF e
  <2>7. \A k \in 1..m : f[k] = q + (IF e >= k THEN 1 ELSE 0) /\ f[k] \in Int
    <3> HIDE DEF m
    <3>1. \A k \in 1..m : f[k] = q + (IF e >= k THEN 1 ELSE 0)
      BY <2>5 DEF e
    <3>2. \A k \in 1..m : q + (IF e >= k THEN 1 ELSE 0) \in Int
      BY <2>5, <2>6
    <3> QED
      BY <3>1, <3>2
  <2>8. SumFunctionOnSet(f, 1..m) = n
    <3>1. CASE m = 3
      <4>1. /\ f[1] = q + (IF e >= 1 THEN 1 ELSE 0) /\ f[1] \in Int
            /\ f[2] = q + (IF e >= 2 THEN 1 ELSE 0) /\ f[2] \in Int
            /\ f[3] = q + (IF e >= 3 THEN 1 ELSE 0) /\ f[3] \in Int
        BY <2>7, <3>1
      <4>2. f[1] + f[2] + f[3] = n
        BY <2>6, <4>1
      <4> QED
        BY <3>1, <4>1, <4>2, SumOfFew
    <3>2. CASE m = 2
      <4>1. /\ f[1] = q + (IF e >= 1 THEN 1 ELSE 0) /\ f[1] \in Int
            /\ f[2] = q + (IF e >= 2 THEN 1 ELSE 0) /\ f[2] \in Int
        BY <2>7, <3>2
      <4>2. n = 2
        BY <1>1, <3>2
      <4>3. f[1] + f[2] = n
        BY <2>6, <4>1, <4>2
      <4> QED
        BY <3>2, <4>1, <4>3, SumOfFew
    <3>3. CASE m = 1
      <4>1. f[1] = q + (IF e >= 1 THEN 1 ELSE 0) /\ f[1] \in Int
        BY <2>7, <3>3
      <4>2. n = 1
        BY <1>1, <3>3
      <4>3. f[1] = n
        BY <2>6, <4>1, <4>2
      <4> QED
        BY <3>3, <4>1, <4>3, SumOfFew
    <3> QED
      BY <2>5, <3>1, <3>2, <3>3
  <2> HIDE DEF m
  <2>9. DOMAIN f = 1..m
    BY <2>5
  <2> QED
    BY <2>8, <2>9 DEF n, f
<1>3. CASE mode # "seed_all"
  <2> DEFINE f == SubRuns
  <2>1. f = [k \in 1..1 |-> n]
    BY <1>3 DEF SubRuns
  <2> HIDE DEF n, f
  <2>2. f[1] \in Int /\ f[1] = n /\ DOMAIN f = 1..1
    BY <1>1, <2>1
  <2>3. SumFunctionOnSet(f, 1..1) = n
    BY <2>2, SumOfFew
  <2> QED
    BY <2>2, <2>3 DEF n, f
<1> QED
  BY <1>2, <1>3

\* What is left of a signer's share from a batch on.
LEMMA RemainingIs ==
  ASSUME mode \in DOMAIN Counts, NEW r \in DOMAIN SubRuns, NEW s \in Signers,
         NEW c \in Nat \ {0}
  PROVE  /\ Total(r, s) \in Nat
         /\ Remaining(r, s, c) \in Nat
         /\ c = 1 => Remaining(r, s, c) = Total(r, s)
         /\ c > Chunks(r, s) => Remaining(r, s, c) = 0
         /\ ChunkSize(r, s, c) \in Nat /\ ChunkSize(r, s, c) <= BatchSize
<1> DEFINE n == Total(r, s)
           b == BatchSize
           x == (c - 1) * b
           y == (c + 1 - 1) * b
<1>1. n \in Nat
  BY SubRunsType, ShareType DEF Total
<1>2. b \in Nat \ {0}
  BY BenchAssumption
<1> HIDE DEF n, b
<1>3. x \in Nat /\ y = x + b /\ (c = 1 => x = 0)
  BY <1>2
<1>4. c > Chunks(r, s) => n <= x
  <2>1. Chunks(r, s) = (n + b - 1) \div b
    BY DEF Chunks, n, b
  <2> SUFFICES ASSUME ~(n <= x) PROVE ~(c > Chunks(r, s))
    OBVIOUS
  <2>2. b * c = x + b
    BY <1>2
  <2> DEFINE p == n + b - 1
  <2> HIDE DEF x
  <2>3. b * c <= p /\ p \in Nat
    BY <1>1, <1>2, <1>3, <2>2
  <2> HIDE DEF p
  <2>4. c <= p \div b /\ p \div b \in Nat
    BY <1>2, <2>3, Quotient, QuotientAtLeast
  <2> QED
    BY <2>1, <2>4 DEF p
<1> HIDE DEF x, y
<1>5. n - x \in Int /\ n - y \in Int
  BY <1>1, <1>2, <1>3
<1>6. /\ Remaining(r, s, c) = IF n - x > 0 THEN n - x ELSE 0
      /\ Remaining(r, s, c + 1) = IF n - y > 0 THEN n - y ELSE 0
  <2>1. Remaining(r, s, c) = Max({0, n - x}) /\ Remaining(r, s, c + 1) = Max({0, n - y})
    BY DEF Remaining, n, x, y, b
  <2> QED
    BY <1>5, <2>1, MaxOfTwo
<1>7. Remaining(r, s, c) \in Nat
  BY <1>1, <1>2, <1>3, <1>6
<1>8. c = 1 => Remaining(r, s, c) = n
  BY <1>1, <1>3, <1>6
<1>9. c > Chunks(r, s) => Remaining(r, s, c) = 0
  BY <1>1, <1>3, <1>4, <1>6
<1>10. Remaining(r, s, c) - Remaining(r, s, c + 1) \in Nat
       /\ Remaining(r, s, c) - Remaining(r, s, c + 1) <= b
  BY <1>1, <1>2, <1>3, <1>6
<1> QED
  BY <1>1, <1>7, <1>8, <1>9, <1>10 DEF ChunkSize, n, b

-----------------------------------------------------------------------------
(* The counts: every record of the sub-runs so far has been counted or is  *)
(* still to be submitted.                                                  *)

Reports == [ok : Nat, failed : Nat]

CountedFailed == report.failed + SumFunction([e \in DOMAIN events |-> events[e].failed])

\* The records of a worker's slice of which nothing has been reported yet.
Left(s) == IF worker[s].at = "done" THEN 0 ELSE Remaining(run, s, worker[s].chunk)

CountTypes ==
  /\ mode \in DOMAIN Counts
  /\ run \in DOMAIN SubRuns
  /\ report \in Reports
  /\ events \in Seq(Reports)

\* Only the stop timer stops a worker before its slice is through, and only
\* `fees` does without a nonce; a run that has ended left nobody working.
Stages ==
  /\ stop => mode = "throughput"
  /\ \A s \in Signers :
       /\ worker[s].at = "stopped" => mode = "throughput"
       /\ worker[s].at = "unread" => mode = "fees"
       /\ worker[s].at \in {"waiting", "reading", "unread"} => worker[s].chunk = 1
  /\ phase = "ended" =>
       /\ events = <<>>
       /\ run + 1 \notin DOMAIN SubRuns
       /\ \A s \in Signers : worker[s].at \in Finished

Tally ==
  CountedOk + CountedFailed + SumFunction([s \in Signers |-> Left(s)])
    = SumFunctionOnSet(SubRuns, 1..run)

CountInv == CountTypes /\ Stages /\ Tally

LEMMA EventTypes ==
  ASSUME CountTypes
  PROVE  /\ Len(events) \in Nat /\ DOMAIN events = 1..Len(events)
         /\ \A e \in 1..Len(events) : events[e].ok \in Nat /\ events[e].failed \in Nat
         /\ report.ok \in Nat /\ report.failed \in Nat
<1>1. events \in Seq(Reports) /\ report \in Reports
  BY DEF CountTypes
<1>2. \A e \in 1..Len(events) : events[e] \in Reports
  BY <1>1
<1>3. Len(events) \in Nat /\ DOMAIN events = 1..Len(events)
  BY <1>1
<1> QED
  BY <1>1, <1>2, <1>3 DEF Reports

LEMMA CountedTypes ==
  ASSUME CountTypes
  PROVE  CountedOk \in Nat /\ CountedFailed \in Nat
<1> DEFINE f == [e \in DOMAIN events |-> events[e].ok]
           g == [e \in DOMAIN events |-> events[e].failed]
           n == Len(events)
<1>1. /\ n \in Nat /\ f = [e \in 1..n |-> events[e].ok] /\ g = [e \in 1..n |-> events[e].failed]
      /\ \A e \in 1..n : f[e] \in Nat /\ g[e] \in Nat
  BY EventTypes
<1>2. DOMAIN f = 1..n /\ DOMAIN g = 1..n
  BY <1>1
<1>3. IsFiniteSet(1..n)
  <2>1. n \in Int
    BY <1>1
  <2> HIDE DEF n
  <2> QED
    BY <2>1, FS_Interval
<1> HIDE DEF f, g, n
<1>4. SumFunctionOnSet(f, 1..n) \in Nat /\ SumFunctionOnSet(g, 1..n) \in Nat
  BY <1>1, <1>3, SumNat
<1>5. SumFunction(f) \in Nat /\ SumFunction(g) \in Nat
  BY <1>2, <1>4 DEF SumFunction
<1> QED
  BY <1>5, EventTypes DEF CountedOk, CountedFailed, f, g

\* A worker reports.
LEMMA EventSent ==
  ASSUME CountTypes, NEW ok \in Nat, NEW failed \in Nat,
         events' = Append(events, Chunk(ok, failed)), report' = report
  PROVE  /\ events' \in Seq(Reports)
         /\ CountedOk' = CountedOk + ok
         /\ CountedFailed' = CountedFailed + failed
<1> DEFINE n == Len(events)
           f == [e \in DOMAIN events |-> events[e].ok]
           g == [e \in DOMAIN events |-> events[e].failed]
           ff == [e \in DOMAIN events' |-> events'[e].ok]
           gg == [e \in DOMAIN events' |-> events'[e].failed]
<1>1. events \in Seq(Reports) /\ Chunk(ok, failed) \in Reports
      /\ Chunk(ok, failed).ok = ok /\ Chunk(ok, failed).failed = failed
  BY DEF CountTypes, Chunk, Reports
<1>2. n \in Nat /\ DOMAIN events = 1..n /\ \A e \in 1..n : events[e] \in Reports
  BY <1>1
<1>3. /\ events' \in Seq(Reports) /\ DOMAIN events' = 1..(n + 1)
      /\ events'[n + 1] = Chunk(ok, failed) /\ \A e \in 1..n : events'[e] = events[e]
  BY <1>1
<1>4. \A e \in 1..(n + 1) : events'[e] \in Reports
  <2> HIDE DEF n
  <2>1. \A e \in 1..(n + 1) : e \in 1..n \/ e = n + 1
    BY <1>2
  <2> QED
    BY <1>1, <1>2, <1>3, <2>1
<1>5. /\ f \in [1..n -> Int] /\ g \in [1..n -> Int]
      /\ ff \in [1..(n + 1) -> Int] /\ gg \in [1..(n + 1) -> Int]
  <2> HIDE DEF n
  <2>1. \A r \in Reports : r.ok \in Int /\ r.failed \in Int
    BY DEF Reports
  <2> QED
    BY <1>2, <1>3, <1>4, <2>1
<1>6. \A e \in 1..n : ff[e] = f[e] /\ gg[e] = g[e]
  <2> HIDE DEF n
  <2>1. \A e \in 1..n : e \in 1..(n + 1)
    BY <1>2
  <2> QED
    BY <1>2, <1>3, <2>1
<1>7. ff[n + 1] = ok /\ gg[n + 1] = failed
  <2> HIDE DEF n
  <2>1. n + 1 \in 1..(n + 1)
    BY <1>2
  <2> QED
    BY <1>1, <1>3, <2>1
<1>8. /\ CountedOk = report.ok + SumFunction(f) /\ CountedOk' = report.ok + SumFunction(ff)
      /\ CountedFailed = report.failed + SumFunction(g)
      /\ CountedFailed' = report.failed + SumFunction(gg)
  BY DEF CountedOk, CountedFailed
<1> HIDE DEF f, g, ff, gg, n
<1>9. /\ SumFunction(f) \in Int /\ SumFunction(ff) = SumFunction(f) + ok
      /\ SumFunction(g) \in Int /\ SumFunction(gg) = SumFunction(g) + failed
  <2>1. n \in Nat
    BY <1>2
  <2>2. SumFunction(f) \in Int /\ SumFunction(ff) = SumFunction(f) + ff[n + 1]
    BY <1>5, <1>6, <2>1, SumAppend
  <2>3. SumFunction(g) \in Int /\ SumFunction(gg) = SumFunction(g) + gg[n + 1]
    BY <1>5, <1>6, <2>1, SumAppend
  <2> QED
    BY <1>7, <2>2, <2>3
<1>10. report.ok \in Nat /\ report.failed \in Nat
  BY EventTypes
<1>11. CountedOk' = CountedOk + ok
  BY <1>8, <1>9, <1>10, SMTT(30)
<1>12. CountedFailed' = CountedFailed + failed
  BY <1>8, <1>9, <1>10
<1> QED
  BY <1>3, <1>11, <1>12

\* The consumer reads a report.
LEMMA EventRead ==
  ASSUME CountTypes, Consume
  PROVE  /\ events' \in Seq(Reports) /\ report' \in Reports
         /\ CountedOk' = CountedOk
         /\ CountedFailed' = CountedFailed
<1> DEFINE n == Len(events)
           f == [e \in DOMAIN events |-> events[e].ok]
           g == [e \in DOMAIN events |-> events[e].failed]
           ff == [e \in DOMAIN events' |-> events'[e].ok]
           gg == [e \in DOMAIN events' |-> events'[e].failed]
<1>1. /\ events \in Seq(Reports) /\ events # <<>> /\ events' = Tail(events)
      /\ report' = [ok |-> report.ok + Head(events).ok, failed |-> report.failed + Head(events).failed]
  BY DEF CountTypes, Consume
<1>2. n \in Nat \ {0} /\ DOMAIN events = 1..n /\ \A e \in 1..n : events[e] \in Reports
  BY <1>1
<1>3. /\ events' \in Seq(Reports) /\ DOMAIN events' = 1..(n - 1) /\ Head(events) = events[1]
      /\ \A e \in 1..(n - 1) : events'[e] = events[e + 1]
  BY <1>1
<1> HIDE DEF n
<1>4. /\ \A e \in 1..(n - 1) : e + 1 \in 1..n
      /\ 1 \in 1..n
  BY <1>2
<1>5. \A r \in Reports : r.ok \in Nat /\ r.failed \in Nat
  BY DEF Reports
<1>6. /\ f \in [1..n -> Int] /\ g \in [1..n -> Int]
      /\ ff \in [1..(n - 1) -> Int] /\ gg \in [1..(n - 1) -> Int]
  BY <1>2, <1>3, <1>4, <1>5
<1>7. \A e \in 1..(n - 1) : ff[e] = f[e + 1] /\ gg[e] = g[e + 1]
  BY <1>2, <1>3, <1>4
<1>8. /\ f[1] = Head(events).ok /\ g[1] = Head(events).failed
      /\ Head(events).ok \in Nat /\ Head(events).failed \in Nat
  BY <1>2, <1>3, <1>4, <1>5
<1>9. report.ok \in Nat /\ report.failed \in Nat
  BY EventTypes
<1>10. /\ CountedOk = report.ok + SumFunction(f) /\ CountedOk' = report'.ok + SumFunction(ff)
       /\ CountedFailed = report.failed + SumFunction(g)
       /\ CountedFailed' = report'.failed + SumFunction(gg)
  BY DEF CountedOk, CountedFailed
<1> HIDE DEF f, g, ff, gg
<1>11. /\ SumFunction(ff) \in Int /\ SumFunction(f) = f[1] + SumFunction(ff)
       /\ SumFunction(gg) \in Int /\ SumFunction(g) = g[1] + SumFunction(gg)
  BY <1>2, <1>6, <1>7, SumShift, ZenonT(30)
<1>12. /\ report' \in Reports
       /\ report'.ok = report.ok + Head(events).ok
       /\ report'.failed = report.failed + Head(events).failed
  <2> DEFINE h == Head(events)
  <2> HIDE DEF h
  <2>1. /\ report' = [ok |-> report.ok + h.ok, failed |-> report.failed + h.failed]
        /\ report.ok + h.ok \in Nat /\ report.failed + h.failed \in Nat
    BY <1>1, <1>8, <1>9 DEF h
  <2> QED
    BY <2>1 DEF Reports, h
<1>13. CountedOk' = CountedOk
  <2> DEFINE h == Head(events).ok
  <2>1. /\ CountedOk = report.ok + (h + SumFunction(ff))
        /\ CountedOk' = (report.ok + h) + SumFunction(ff)
        /\ report.ok \in Int /\ h \in Int /\ SumFunction(ff) \in Int
    BY <1>8, <1>9, <1>10, <1>11, <1>12
  <2> HIDE DEF h
  <2> QED BY <2>1
<1>14. CountedFailed' = CountedFailed
  <2> DEFINE h == Head(events).failed
  <2>1. /\ CountedFailed = report.failed + (h + SumFunction(gg))
        /\ CountedFailed' = (report.failed + h) + SumFunction(gg)
        /\ report.failed \in Int /\ h \in Int /\ SumFunction(gg) \in Int
    BY <1>8, <1>9, <1>10, <1>11, <1>12
  <2> HIDE DEF h
  <2> QED BY <2>1
<1> QED
  BY <1>3, <1>12, <1>13, <1>14

\* The mode says how the records are dealt.
LEMMA SameRuns ==
  ASSUME mode' = mode
  PROVE  /\ SubRuns' = SubRuns
         /\ \A r, s : Total(r, s)' = Total(r, s) /\ Chunks(r, s)' = Chunks(r, s)
         /\ \A r, s, c : Remaining(r, s, c)' = Remaining(r, s, c)
         /\ \A r, s, c : ChunkSize(r, s, c)' = ChunkSize(r, s, c)
BY DEF SubRuns, Total, Chunks, Remaining, ChunkSize

LEMMA LeftTypes ==
  ASSUME CountTypes, BenchTypes
  PROVE  /\ \A s \in Signers : Left(s) \in Nat
         /\ [s \in Signers |-> Left(s)] \in [Signers -> Int]
<1>1. ASSUME NEW s \in Signers PROVE Left(s) \in Nat
  <2>1. worker[s].chunk \in Nat \ {0}
    BY DEF BenchTypes, WorkerStates
  <2>2. Remaining(run, s, worker[s].chunk) \in Nat
    BY <2>1, RemainingIs DEF CountTypes
  <2> QED
    BY <2>2 DEF Left
<1> QED
  BY <1>1

\* What one worker has less to submit has been counted.
LEMMA TallyMoves ==
  ASSUME CountTypes, Tally, BenchTypes, CountTypes', BenchTypes',
         UNCHANGED <<mode, run>>, NEW s \in Signers, NEW d \in Int,
         \A u \in Signers \ {s} : worker'[u] = worker[u],
         Left(s)' = Left(s) - d,
         CountedOk' + CountedFailed' = CountedOk + CountedFailed + d
  PROVE  Tally'
<1> DEFINE f == [u \in Signers |-> Left(u)]
           h == [u \in Signers |-> Left(u)']
<1>1. f \in [Signers -> Int] /\ \A u \in Signers : Left(u) \in Nat
  BY LeftTypes
<1>2. \A u \in Signers \ {s} : Left(u)' = Left(u)
  BY SameRuns DEF Left
<1>3. \A u \in Signers : Left(u)' \in Int
  BY <1>1, <1>2
<1>4. h \in [Signers -> Int] /\ \A u \in Signers \ {s} : h[u] = f[u]
  BY <1>2, <1>3
<1>5. f[s] = Left(s) /\ h[s] = Left(s) - d /\ Left(s) \in Int
  BY <1>1
<1>6. IsFiniteSet(Signers)
  BY SignersCount
<1>7. /\ CountedOk + CountedFailed + SumFunction(f) = SumFunctionOnSet(SubRuns, 1..run)
      /\ (CountedOk' + CountedFailed' + SumFunction(h) = SumFunctionOnSet(SubRuns', 1..run') => Tally')
  BY DEF Tally
<1>8. SubRuns' = SubRuns /\ run' = run
  BY SameRuns
<1> HIDE DEF f, h
<1>9. SumFunction(f) \in Int /\ SumFunction(h) = SumFunction(f) - f[s] + h[s]
  BY <1>1, <1>4, <1>6, SumUpdate
<1>10. SumFunction(h) = SumFunction(f) - d
  BY <1>5, <1>9
<1>11. CountedOk \in Nat /\ CountedFailed \in Nat
  BY CountedTypes
<1>12. CountedOk' + CountedFailed' + SumFunction(h) = CountedOk + CountedFailed + SumFunction(f)
  <2> DEFINE a == CountedOk + CountedFailed
             b == CountedOk' + CountedFailed'
  <2>1. a \in Int /\ b = a + d
    BY <1>11
  <2> HIDE DEF a, b
  <2>2. b + SumFunction(h) = a + SumFunction(f)
    BY <1>9, <1>10, <2>1
  <2> QED
    BY <2>2 DEF a, b
<1> QED
  BY <1>7, <1>8, <1>12

\* No worker that has finished moves.
LEMMA StagesMove ==
  ASSUME Stages, UNCHANGED <<mode, phase, run, stop>>, NEW s \in Signers,
         worker[s].at \notin Finished,
         \A u \in Signers \ {s} : worker'[u] = worker[u],
         worker'[s].at = "stopped" => mode = "throughput",
         worker'[s].at = "unread" => mode = "fees",
         worker'[s].at \in {"waiting", "reading", "unread"} => worker'[s].chunk = 1
  PROVE  Stages'
<1>1. phase # "ended"
  BY DEF Stages
<1>2. \A u \in Signers :
        /\ worker'[u].at = "stopped" => mode = "throughput"
        /\ worker'[u].at = "unread" => mode = "fees"
        /\ worker'[u].at \in {"waiting", "reading", "unread"} => worker'[u].chunk = 1
  BY DEF Stages
<1> QED
  BY <1>1, <1>2 DEF Stages

\* The steps of a worker that report nothing.
LEMMA QuietWorkerCounts ==
  ASSUME OrderInv, OrderInv', CountInv, NEW s \in Signers,
         Acquire(s) \/ ReadNonce(s) \/ NextChunk(s)
  PROVE  CountInv'
<1>1. /\ CountTypes /\ Stages /\ Tally /\ BenchTypes /\ BenchTypes'
      /\ UNCHANGED <<mode, phase, run, stop, report, events>>
  BY DEF CountInv, OrderInv, Acquire, ReadNonce, NextChunk
<1>2. CountTypes'
  BY <1>1, SameRuns DEF CountTypes
<1>3. UNCHANGED <<CountedOk, CountedFailed>>
  BY <1>1 DEF CountedOk, CountedFailed
<1>4. CountedOk \in Nat /\ CountedFailed \in Nat /\ Left(s) \in Nat
      /\ worker[s].chunk \in Nat \ {0}
  BY <1>1, CountedTypes, LeftTypes DEF BenchTypes, WorkerStates
<1>5. /\ \A u \in Signers \ {s} : worker'[u] = worker[u]
      /\ worker[s].at \notin Finished
      /\ worker'[s].chunk = worker[s].chunk
      /\ worker'[s].at = "stopped" => mode = "throughput"
      /\ worker'[s].at = "unread" => mode = "fees"
      /\ worker'[s].at \in {"reading", "unread", "waiting"} => worker[s].at \in {"waiting", "reading"}
      /\ worker'[s].at = "done" => worker[s].chunk > Chunks(run, s)
  <2>1. CASE Acquire(s)
    <3>1. Move(s, "reading") /\ worker[s].at = "waiting"
      BY <2>1 DEF Acquire
    <3> QED
      BY <1>1, <3>1, MoveEffect DEF Working, Finished
  <2>2. CASE ReadNonce(s)
    <3>1. CASE worker' = [worker EXCEPT ![s] =
                            [at |-> "loop", nonce |-> account[s], chunk |-> worker[s].chunk]]
      <4> DEFINE w == [at |-> "loop", nonce |-> account[s], chunk |-> worker[s].chunk]
      <4>1. w.at = "loop" /\ w.chunk = worker[s].chunk /\ worker' = [worker EXCEPT ![s] = w]
            /\ worker \in [Signers -> WorkerStates]
        BY <1>1, <3>1 DEF BenchTypes
      <4> HIDE DEF w
      <4>2. worker'[s] = w /\ \A u \in Signers \ {s} : worker'[u] = worker[u]
        BY <4>1, UpdateOne
      <4> QED
        BY <2>2, <4>1, <4>2 DEF ReadNonce, Finished
    <3>2. CASE Move(s, IF mode = "fees" THEN "unread" ELSE "loop")
      <4>1. PICK to \in {"loop", "unread"} : Move(s, to) /\ (to = "unread" => mode = "fees")
        BY <3>2
      <4>2. /\ worker'[s].at = to /\ worker'[s].chunk = worker[s].chunk
            /\ \A u \in Signers \ {s} : worker'[u] = worker[u]
        BY <1>1, <4>1, MoveEffect DEF Working, Finished
      <4> QED
        BY <2>2, <4>1, <4>2 DEF ReadNonce, Finished
    <3> QED
      BY <2>2, <3>1, <3>2 DEF ReadNonce
  <2>3. CASE NextChunk(s)
    <3>1. /\ worker[s].at = "loop"
          /\ \E to \in {"done", "stopped", "calling"} :
               /\ Move(s, to)
               /\ to = "done" => worker[s].chunk > Chunks(run, s)
               /\ to = "stopped" => stop
      BY <2>3 DEF NextChunk
    <3>2. PICK to \in {"done", "stopped", "calling"} :
             /\ Move(s, to)
             /\ to = "done" => worker[s].chunk > Chunks(run, s)
             /\ to = "stopped" => stop
      BY <3>1
    <3>3. /\ worker'[s].at = to /\ worker'[s].chunk = worker[s].chunk
          /\ \A u \in Signers \ {s} : worker'[u] = worker[u]
      BY <1>1, <3>2, MoveEffect DEF Working, Finished
    <3>4. stop => mode = "throughput"
      BY <1>1 DEF Stages
    <3> QED
      BY <3>1, <3>2, <3>3, <3>4 DEF Finished
  <2> QED
    BY <2>1, <2>2, <2>3
<1>6. Stages'
  <2>1. worker'[s].at \in {"waiting", "reading", "unread"} => worker'[s].chunk = 1
    BY <1>1, <1>5 DEF Stages
  <2> QED
    BY <1>1, <1>5, <2>1, StagesMove
<1>7. Left(s)' = Left(s)
  <2>1. Remaining(run, s, worker[s].chunk)' = Remaining(run, s, worker[s].chunk)
    BY <1>1, <1>5, SameRuns
  <2>2. worker[s].at # "done"
    BY <1>5 DEF Finished
  <2>3. worker'[s].at = "done" => Remaining(run, s, worker[s].chunk) = 0
    BY <1>1, <1>4, <1>5, RemainingIs DEF CountTypes
  <2> QED
    BY <2>1, <2>2, <2>3 DEF Left
<1>8. Left(s)' = Left(s) - 0 /\ CountedOk' + CountedFailed' = CountedOk + CountedFailed + 0
  BY <1>3, <1>4, <1>7
<1>9. Tally'
  BY <1>1, <1>2, <1>5, <1>8, TallyMoves
<1> QED
  BY <1>2, <1>6, <1>9 DEF CountInv

\* The steps of a worker that has its answer: a batch that succeeded counts
\* as such, and everything from one that failed on as failed.
LEMMA ChunkOkCounts ==
  ASSUME OrderInv, OrderInv', CountInv, NEW s \in Signers, ChunkOk(s)
  PROVE  CountInv'
<1> DEFINE c == worker[s].chunk
           w == [at |-> "loop", chunk |-> c + 1,
                 nonce |-> IF worker[s].nonce = AutoNonce THEN AutoNonce
                           ELSE worker[s].nonce + 1]
<1>1. /\ CountTypes /\ Stages /\ Tally /\ BenchTypes /\ BenchTypes'
      /\ UNCHANGED <<mode, phase, run, stop, report>>
      /\ worker[s].at = "calling" /\ worker' = [worker EXCEPT ![s] = w]
      /\ events' = Append(events, Chunk(ChunkSize(run, s, c), 0))
  BY DEF CountInv, OrderInv, ChunkOk, Emit
<1>2. c \in Nat \ {0} /\ worker \in [Signers -> WorkerStates] /\ c + 1 \in Nat \ {0}
  BY <1>1 DEF BenchTypes, WorkerStates
<1>3. w.at = "loop" /\ w.chunk = c + 1
  OBVIOUS
<1> HIDE DEF w
<1>4. /\ worker'[s].at = "loop" /\ worker'[s].chunk = c + 1
      /\ \A u \in Signers \ {s} : worker'[u] = worker[u]
  BY <1>1, <1>2, <1>3, UpdateOne
<1> DEFINE d == ChunkSize(run, s, c)
<1>5. d \in Nat /\ Remaining(run, s, c) \in Nat /\ Remaining(run, s, c + 1) \in Nat
  BY <1>1, <1>2, RemainingIs DEF CountTypes
<1>6. Left(s) = Remaining(run, s, c)
  BY <1>1 DEF Left
<1>7. Left(s)' = Remaining(run, s, c + 1)
  BY <1>1, <1>4, SameRuns DEF Left
<1>8. Left(s)' = Left(s) - d
  BY <1>5, <1>6, <1>7 DEF ChunkSize
<1> HIDE DEF d, c
<1>9. events' = Append(events, Chunk(d, 0))
  BY <1>1 DEF c, d
<1>10. /\ events' \in Seq(Reports)
       /\ CountedOk' = CountedOk + d /\ CountedFailed' = CountedFailed + 0
  BY <1>1, <1>5, <1>9, EventSent
<1>11. CountTypes'
  BY <1>1, <1>10, SameRuns DEF CountTypes
<1>12. CountedOk' + CountedFailed' = CountedOk + CountedFailed + d
  <2>1. CountedOk \in Nat /\ CountedFailed \in Nat
    BY <1>1, CountedTypes
  <2> QED
    BY <1>5, <1>10, <2>1
<1>13. Tally'
  BY <1>1, <1>4, <1>5, <1>8, <1>11, <1>12, TallyMoves
<1>14. Stages'
  BY <1>1, <1>4, StagesMove DEF Finished
<1> QED
  BY <1>11, <1>13, <1>14 DEF CountInv

LEMMA ChunkErrCounts ==
  ASSUME OrderInv, OrderInv', CountInv, NEW s \in Signers, ChunkErr(s)
  PROVE  CountInv'
<1> DEFINE d == Left(s)
<1>1. /\ CountTypes /\ Stages /\ Tally /\ BenchTypes /\ BenchTypes'
      /\ UNCHANGED <<mode, phase, run, stop, report>>
      /\ worker[s].at = "calling" /\ Move(s, "done")
      /\ events' = Append(events, Chunk(0, Remaining(run, s, worker[s].chunk)))
  BY DEF CountInv, OrderInv, ChunkErr, Emit
<1>2. /\ worker'[s].at = "done" /\ \A u \in Signers \ {s} : worker'[u] = worker[u]
  BY <1>1, MoveEffect DEF Finished
<1>3. d \in Nat
  BY <1>1, LeftTypes
<1>4. events' = Append(events, Chunk(0, d))
  BY <1>1 DEF Left
<1>5. Left(s)' = 0
  BY <1>2 DEF Left
<1>6. Left(s)' = Left(s) - d
  BY <1>3, <1>5
<1> HIDE DEF d
<1>7. /\ events' \in Seq(Reports)
      /\ CountedOk' = CountedOk + 0 /\ CountedFailed' = CountedFailed + d
  BY <1>1, <1>3, <1>4, EventSent
<1>8. CountTypes'
  BY <1>1, <1>7, SameRuns DEF CountTypes
<1>9. CountedOk' + CountedFailed' = CountedOk + CountedFailed + d
  <2>1. CountedOk \in Nat /\ CountedFailed \in Nat
    BY <1>1, CountedTypes
  <2> QED
    BY <1>3, <1>7, <2>1
<1>10. Tally'
  BY <1>1, <1>2, <1>3, <1>6, <1>8, <1>9, TallyMoves
<1>11. Stages'
  BY <1>1, <1>2, StagesMove DEF Finished
<1> QED
  BY <1>8, <1>10, <1>11 DEF CountInv

\* The steps that move no worker and begin no sub-run.
LEMMA OthersCount ==
  ASSUME OrderInv, OrderInv', CountInv, UNCHANGED <<mode, run, worker>>,
         CountTypes', Stages', CountedOk' = CountedOk, CountedFailed' = CountedFailed
  PROVE  CountInv'
<1>1. CountTypes /\ Tally
  BY DEF CountInv
<1>2. \A s \in Signers : Left(s)' = Left(s)
  BY SameRuns DEF Left
<1>3. [s \in Signers |-> Left(s)]' = [s \in Signers |-> Left(s)]
  BY <1>2
<1>4. SubRuns' = SubRuns
  BY SameRuns
<1>5. Tally'
  BY <1>1, <1>3, <1>4 DEF Tally
<1> QED
  BY <1>5 DEF CountInv

\* The workers of a sub-run have all of it to submit.
LEMMA WorkersLeft ==
  ASSUME mode \in DOMAIN Counts, NEW r \in DOMAIN SubRuns, NEW w, w = Workers(SubRuns[r])
  PROVE  SumFunction([s \in Signers |->
                       IF w[s].at = "done" THEN 0 ELSE Remaining(r, s, w[s].chunk)])
           = SubRuns[r]
<1> DEFINE n == SubRuns[r]
           left(s) == IF w[s].at = "done" THEN 0 ELSE Remaining(r, s, w[s].chunk)
<1>1. n \in Nat
  BY SubRunsType
<1>2. ASSUME NEW s \in Signers PROVE left(s) = Share(n, s)
  <2>1. Total(r, s) = Share(n, s)
    BY DEF Total
  <2>2. Remaining(r, s, 1) = Total(r, s)
    BY RemainingIs
  <2> HIDE DEF n
  <2>3. w = Workers(n)
    BY DEF n
  <2>4. /\ w[s].chunk = 1
        /\ w[s].at = IF Share(n, s) = 0 THEN "done" ELSE "waiting"
    BY <2>3 DEF Workers
  <2> QED
    BY <2>1, <2>2, <2>4
<1> HIDE DEF n, left
<1>3. [s \in Signers |-> left(s)] = [s \in Signers |-> Share(n, s)]
  BY <1>2
<1>4. SumFunction([s \in Signers |-> Share(n, s)]) = n
  BY <1>1, SharesAddUp
<1>5. SumFunction([s \in Signers |-> left(s)]) = n
  BY <1>3, <1>4, Zenon
<1> QED
  BY <1>5, Zenon DEF n, left

LEMMA InitCounts == Init => CountInv
<1> SUFFICES ASSUME Init PROVE CountInv
  OBVIOUS
<1>1. /\ mode \in DOMAIN Counts /\ phase = "setup" /\ run = 1 /\ worker = Workers(SubRuns[1])
      /\ events = <<>> /\ report = [ok |-> 0, failed |-> 0] /\ stop = FALSE
  BY DEF Init
<1>2. BenchTypes
  BY OrderInit DEF OrderInv
<1>3. CountTypes
  <2>1. 1 \in DOMAIN SubRuns
    BY <1>1, SubRunsType
  <2> QED
    BY <1>1, <2>1 DEF CountTypes, Reports
<1>4. SumFunction([s \in Signers |-> Left(s)]) = SubRuns[1] /\ SubRuns[1] \in Nat
  <2>1. SumFunction([s \in Signers |-> IF worker[s].at = "done" THEN 0
                                      ELSE Remaining(1, s, worker[s].chunk)]) = SubRuns[1]
    BY <1>1, <1>3, WorkersLeft DEF CountTypes
  <2>2. [s \in Signers |-> Left(s)]
          = [s \in Signers |-> IF worker[s].at = "done" THEN 0 ELSE Remaining(1, s, worker[s].chunk)]
    BY <1>1 DEF Left
  <2>3. SumFunction([s \in Signers |-> Left(s)]) = SubRuns[1]
    BY <2>1, <2>2, Zenon
  <2> QED
    BY <1>1, <1>3, <2>3, SubRunsType DEF CountTypes
<1>5. CountedOk = 0 /\ CountedFailed = 0
  <2>1. DOMAIN events = {}
    BY <1>1
  <2>2. SumFunction([e \in DOMAIN events |-> events[e].ok]) = 0
        /\ SumFunction([e \in DOMAIN events |-> events[e].failed]) = 0
    BY <2>1, SumOfNone
  <2> QED
    BY <1>1, <2>2 DEF CountedOk, CountedFailed
<1>6. SumFunctionOnSet(SubRuns, 1..1) = SubRuns[1]
  BY <1>4, SumOfFew
<1>7. Tally
  BY <1>1, <1>4, <1>5, <1>6 DEF Tally
<1>8. Stages
  <2>1. \A s \in Signers : /\ worker[s].at \in {"done", "waiting"} /\ worker[s].chunk = 1
    <3> DEFINE n == SubRuns[1]
    <3> HIDE DEF n
    <3>1. worker = Workers(n)
      BY <1>1 DEF n
    <3> QED
      BY <3>1, WorkersType
  <2> QED
    BY <1>1, <2>1 DEF Stages
<1> QED
  BY <1>3, <1>7, <1>8 DEF CountInv

\* When a sub-run is over, everything of it has been counted.
LEMMA NextSubRunCounts ==
  ASSUME OrderInv, OrderInv', CountInv, NextSubRun
  PROVE  CountInv'
<1>1. /\ CountTypes /\ Stages /\ Tally /\ BenchTypes /\ BenchTypes'
      /\ UNCHANGED <<mode, events, report, stop>>
      /\ run + 1 \in DOMAIN SubRuns /\ run' = run + 1 /\ phase' = "setup"
      /\ worker' = Workers(SubRuns[run + 1])
      /\ \A s \in Signers : worker[s].at \in Finished
  BY DEF CountInv, OrderInv, NextSubRun, Joined
<1>2. run \in Nat \ {0} /\ mode = "seed_all"
  <2>1. PICK k \in {1, 2, 3} : DOMAIN SubRuns = 1..k /\ (k > 1 => mode = "seed_all")
    BY <1>1, SubRunsType DEF CountTypes
  <2>2. run \in 1..k /\ run + 1 \in 1..k
    BY <1>1, <2>1 DEF CountTypes
  <2> QED
    BY <2>1, <2>2
<1>3. \A s \in Signers : Left(s) = 0
  <2>1. \A s \in Signers : worker[s].at = "done"
    BY <1>1, <1>2 DEF Stages, Finished
  <2> QED
    BY <2>1 DEF Left
<1>4. SumFunction([s \in Signers |-> Left(s)]) = 0
  <2>1. [s \in Signers |-> Left(s)] = [s \in Signers |-> 0]
    BY <1>3
  <2> QED
    BY <2>1, SignersCount, SumOfZeros
<1>5. CountTypes' /\ SubRuns' = SubRuns
  BY <1>1, SameRuns DEF CountTypes
<1>6. SumFunction([s \in Signers |-> Left(s)])' = SubRuns[run + 1]
  <2> DEFINE w == worker'
             left == [s \in Signers |-> IF w[s].at = "done" THEN 0
                                        ELSE Remaining(run + 1, s, w[s].chunk)]
  <2>1. SumFunction(left) = SubRuns[run + 1]
    BY <1>1, WorkersLeft DEF CountTypes
  <2>2. [s \in Signers |-> Left(s)]' = left
    BY <1>1, SameRuns DEF Left
  <2> HIDE DEF left
  <2>3. SumFunction([s \in Signers |-> Left(s)])' = SumFunction(left)
    BY <2>2, Zenon
  <2> QED
    BY <2>1, <2>3
<1>7. CountedOk' = CountedOk /\ CountedFailed' = CountedFailed
      /\ CountedOk \in Nat /\ CountedFailed \in Nat
  BY <1>1, CountedTypes DEF CountedOk, CountedFailed
<1>8. SumFunctionOnSet(SubRuns, 1..(run + 1)) = SumFunctionOnSet(SubRuns, 1..run) + SubRuns[run + 1]
      /\ SumFunctionOnSet(SubRuns, 1..run) \in Int
  <2> DEFINE f == SubRuns
  <2>1. \A x \in 1..(run + 1) : f[x] \in Int
    <3>1. PICK k \in {1, 2, 3} : DOMAIN f = 1..k
      BY <1>1, SubRunsType DEF CountTypes
    <3>2. run + 1 \in 1..k /\ \A x \in 1..k : f[x] \in Nat
      BY <1>1, <3>1, SubRunsType DEF CountTypes
    <3> QED
      BY <1>2, <3>2
  <2> HIDE DEF f
  <2>2. run \in Nat
    BY <1>2
  <2>3. /\ SumFunctionOnSet(f, 1..run) \in Int
        /\ SumFunctionOnSet(f, 1..(run + 1)) = SumFunctionOnSet(f, 1..run) + f[run + 1]
    BY <2>1, <2>2, SumNextOf
  <2> QED
    BY <2>3 DEF f
<1>9. Tally'
  <2>1. CountedOk + CountedFailed + 0 = SumFunctionOnSet(SubRuns, 1..run)
    BY <1>1, <1>4 DEF Tally
  <2>2. CountedOk + CountedFailed + SubRuns[run + 1] = SumFunctionOnSet(SubRuns, 1..(run + 1))
    BY <1>7, <1>8, <2>1
  <2>3. SumFunctionOnSet(SubRuns, 1..run)' = SumFunctionOnSet(SubRuns, 1..(run + 1))
    BY <1>1, <1>5
  <2> QED
    BY <1>6, <1>7, <2>2, <2>3 DEF Tally
<1>10. Stages'
  <2>1. \A s \in Signers : /\ worker'[s].at \in {"done", "waiting"} /\ worker'[s].chunk = 1
    <3> DEFINE n == SubRuns[run + 1]
    <3> HIDE DEF n
    <3>1. worker' = Workers(n)
      BY <1>1 DEF n
    <3> QED
      BY <3>1, WorkersType
  <2> QED
    BY <1>1, <2>1 DEF Stages
<1> QED
  BY <1>5, <1>9, <1>10 DEF CountInv

\* Steps that neither move a worker nor send nor read a report.
LEMMA MainCounts ==
  ASSUME OrderInv, OrderInv', CountInv,
         FundBatch \/ AbortSetup \/ StartWorkers \/ Report \/ AbortReport \/ StopTimer
           \/ UNCHANGED benchVars
  PROVE  CountInv'
<1>1. /\ CountTypes /\ Stages
      /\ UNCHANGED <<mode, run, worker, events, report>>
      /\ phase' = phase \/ phase' # "ended" \/ Report
      /\ stop' = stop \/ mode = "throughput"
      /\ phase' = phase \/ phase # "ended"
  <2>1. UNCHANGED <<mode, run, worker, events, report>>
    BY DEF FundBatch, AbortSetup, StartWorkers, Report, AbortReport, StopTimer, benchVars
  <2>2. stop' = stop \/ mode = "throughput"
    <3>1. CASE StopTimer
      BY <3>1 DEF StopTimer
    <3>2. CASE ~StopTimer
      BY <3>2 DEF FundBatch, AbortSetup, StartWorkers, Report, AbortReport, benchVars
    <3> QED
      BY <3>1, <3>2
  <2>3. phase' = phase \/ phase' # "ended" \/ Report
    <3>1. CASE Report
      BY <3>1, Zenon
    <3>2. CASE ~Report
      <4>1. phase' = phase \/ phase' # "ended"
        BY <3>2 DEF FundBatch, AbortSetup, StartWorkers, AbortReport, StopTimer, benchVars
      <4> QED
        BY <4>1
    <3> QED
      BY <3>1, <3>2, Zenon
  <2>4. phase' = phase \/ phase # "ended"
    <3>1. CASE FundBatch
      BY <3>1 DEF FundBatch
    <3>2. CASE StopTimer
      BY <3>2 DEF StopTimer
    <3>3. CASE UNCHANGED benchVars
      BY <3>3 DEF benchVars
    <3>4. CASE AbortSetup \/ StartWorkers
      BY <3>4 DEF AbortSetup, StartWorkers
    <3>5. CASE Report \/ AbortReport
      BY <3>5 DEF Report, AbortReport, Joined
    <3> QED
      BY <3>1, <3>2, <3>3, <3>4, <3>5
  <2> QED
    BY <2>1, <2>2, <2>3, <2>4 DEF CountInv
<1>2. CountTypes' /\ SubRuns' = SubRuns
  BY <1>1, SameRuns DEF CountTypes
<1>3. CountedOk' = CountedOk /\ CountedFailed' = CountedFailed
  BY <1>1 DEF CountedOk, CountedFailed
<1>4. Stages'
  <2>1. CASE Report
    BY <1>1, <1>2, <2>1 DEF Stages, Report, Joined
  <2>2. CASE ~Report
    BY <1>1, <1>2, <2>2 DEF Stages
  <2> QED
    BY <2>1, <2>2
<1> QED
  BY <1>1, <1>2, <1>3, <1>4, OthersCount

LEMMA ConsumeCounts ==
  ASSUME OrderInv, OrderInv', CountInv, Consume
  PROVE  CountInv'
<1>1. /\ CountTypes /\ Stages /\ events # <<>>
      /\ UNCHANGED <<mode, run, worker, phase, stop>>
  BY DEF CountInv, Consume
<1>2. /\ events' \in Seq(Reports) /\ report' \in Reports
      /\ CountedOk' = CountedOk /\ CountedFailed' = CountedFailed
  BY <1>1, EventRead
<1>3. CountTypes' /\ Stages'
  BY <1>1, <1>2, SameRuns DEF CountTypes, Stages
<1> QED
  BY <1>1, <1>2, <1>3, OthersCount

LEMMA CountStep == OrderInv /\ OrderInv' /\ CountInv /\ [Next]_vars => CountInv'
<1> SUFFICES ASSUME OrderInv, OrderInv', CountInv, [Next]_vars PROVE CountInv'
  OBVIOUS
<1>1. CASE MainStep
  BY <1>1, NextSubRunCounts, MainCounts DEF MainStep
<1>2. CASE Consume
  BY <1>2, ConsumeCounts
<1>3. CASE StopTimer
  BY <1>3, MainCounts
<1>4. CASE \E s \in Signers : WorkerStep(s)
  <2>1. PICK s \in Signers : WorkerStep(s)
    BY <1>4
  <2> QED
    BY <2>1, QuietWorkerCounts, ChunkOkCounts, ChunkErrCounts, MainCounts DEF WorkerStep
<1>5. CASE (NodeStep /\ UNCHANGED benchVars) \/ UNCHANGED vars
  <2>1. UNCHANGED benchVars
    BY <1>5 DEF vars
  <2> QED
    BY <2>1, MainCounts
<1> QED
  BY <1>1, <1>2, <1>3, <1>4, <1>5 DEF Next

LEMMA CountAlways == Spec => []CountInv
BY InitCounts, CountStep, OrderAlways, PTL DEF Spec

\* Whatever happens to the transactions, the report of a run that ends
\* accounts for every record asked for: each was counted as a success or as a
\* failure once, but for those of the workers the stop timer ended and of the
\* `fees` workers that never read their nonce (seed.rs, throughput.rs, fees.rs).
THEOREM ReportAddsUp == Spec => []CountsAddUp
<1> DEFINE uncounted == [s \in Signers |->
                          IF worker[s].at = "stopped" THEN Remaining(run, s, worker[s].chunk)
                          ELSE IF worker[s].at = "unread" THEN Total(run, s) ELSE 0]
<1>1. ASSUME CountInv, BenchTypes, phase = "ended"
      PROVE  report.ok + report.failed + SumFunction(uncounted) = Counts[mode]
  <2>1. /\ CountTypes /\ Stages /\ Tally
        /\ events = <<>> /\ run + 1 \notin DOMAIN SubRuns
        /\ \A s \in Signers : worker[s].at \in Finished
    BY <1>1 DEF CountInv, Stages
  <2>2. CountedOk = report.ok /\ CountedFailed = report.failed
        /\ report.ok \in Nat /\ report.failed \in Nat
    <3>1. DOMAIN events = {}
      BY <2>1
    <3>2. SumFunction([e \in DOMAIN events |-> events[e].ok]) = 0
          /\ SumFunction([e \in DOMAIN events |-> events[e].failed]) = 0
      BY <3>1, SumOfNone
    <3>3. report.ok \in Nat /\ report.failed \in Nat
      BY <2>1, EventTypes
    <3> QED
      BY <3>2, <3>3 DEF CountedOk, CountedFailed
  <2>3. [s \in Signers |-> Left(s)] = uncounted
    <3>1. ASSUME NEW s \in Signers PROVE Left(s) = uncounted[s]
      <4>1. worker[s].at = "unread" => Remaining(run, s, worker[s].chunk) = Total(run, s)
        <5>1. worker[s].at = "unread" => worker[s].chunk = 1
          BY <2>1 DEF Stages
        <5>2. Remaining(run, s, 1) = Total(run, s)
          BY <2>1, RemainingIs DEF CountTypes
        <5> QED
          BY <5>1, <5>2
      <4>2. worker[s].at \in {"done", "stopped", "unread"}
        BY <2>1 DEF Finished
      <4> QED
        BY <4>1, <4>2 DEF Left
    <3> QED
      BY <3>1
  <2>4. 1..run = DOMAIN SubRuns
    <3>1. PICK k \in {1, 2, 3} : DOMAIN SubRuns = 1..k
      BY <2>1, SubRunsType DEF CountTypes
    <3>2. run \in 1..k /\ run + 1 \notin 1..k
      BY <2>1, <3>1 DEF CountTypes
    <3> QED
      BY <3>1, <3>2
  <2>5. SumFunctionOnSet(SubRuns, 1..run) = Counts[mode]
    BY <2>1, <2>4, SubRunsAddUp DEF CountTypes
  <2> HIDE DEF uncounted
  <2>6. SumFunction([s \in Signers |-> Left(s)]) = SumFunction(uncounted)
    BY <2>3, Zenon
  <2> QED
    BY <2>1, <2>2, <2>5, <2>6 DEF Tally
<1>2. CountInv /\ OrderInv => CountsAddUp
  BY <1>1 DEF CountsAddUp, OrderInv
<1> QED
  BY <1>2, CountAlways, OrderAlways, PTL

-----------------------------------------------------------------------------
(* The report and the chain.  Of a signer's records in the chain those of  *)
(* the batch in hand may not have been counted yet; beyond them, each      *)
(* sub-run that is over leaves at most one batch uncounted, landed or      *)
(* still in the pool.                                                      *)

\* The batch the worker is at, if it is in the chain.
Pending(s) == IF Landed(s, Cur(s)) THEN ChunkSize(run, s, worker[s].chunk) ELSE 0

\* A batch of an earlier sub-run that was given up and can still land.
Straying(s) ==
  \E t \in pool : t.signer = s /\ t.nonce = account[s] /\ t.payload[1] < run /\ ~Landed(s, t.payload)

Sure(s) == RecordsLanded(s) - Pending(s)
Most(s) == Sure(s) + (IF Straying(s) THEN BatchSize ELSE 0)

ReportInv ==
  /\ CountedOk <= SumFunction([s \in Signers |-> Sure(s)])
  /\ SumFunction([s \in Signers |-> Most(s)]) <= CountedOk + BatchSize * SignerCount * (run - 1)

\* Whatever is in the chain belongs to a sub-run that has begun.
LEMMA EarlierRuns ==
  ASSUME BenchTypes, CountTypes, NEW s \in Signers, SignerInv(s), NEW b \in Batches, Begun(s, b)
  PROVE  b[1] \in DOMAIN SubRuns /\ b[2] \in Nat \ {0} /\ b[1] <= run
<1>1. run \in Nat \ {0} /\ Cur(s)[1] = run
  BY DEF BenchTypes, Cur
<1>2. b[1] \in Nat \ {0} /\ b[2] \in Nat \ {0}
  BY DEF Batches
<1>3. b[1] <= run
  BY <1>1, <1>2 DEF Begun, Earlier
<1>4. PICK k \in {1, 2, 3} : DOMAIN SubRuns = 1..k
  BY SubRunsType DEF CountTypes
<1>5. run \in 1..k
  BY <1>4 DEF CountTypes
<1> QED
  BY <1>1, <1>2, <1>3, <1>4, <1>5

\* The records of one entry of the chain.
Weight(s, e) == IF e.ok THEN ChunkSize(e.payload[1], s, e.payload[2]) ELSE 0

LEMMA LandedTypes ==
  ASSUME BenchTypes, CountTypes, NEW s \in Signers, SignerInv(s)
  PROVE  /\ \A p \in DOMAIN ran[s] : Weight(s, ran[s][p]) \in Nat
         /\ RecordsLanded(s) = SumFunction([p \in DOMAIN ran[s] |-> Weight(s, ran[s][p])])
         /\ RecordsLanded(s) \in Nat
         /\ Pending(s) \in Nat /\ Pending(s) <= BatchSize
         /\ BatchSize \in Nat
         /\ Sure(s) \in Int /\ Most(s) \in Int
<1>1. ASSUME NEW p \in DOMAIN ran[s] PROVE Weight(s, ran[s][p]) \in Nat
  <2>1. ran[s][p].payload \in Batches
    BY EntryTypes
  <2>2. Begun(s, ran[s][p].payload)
    BY DEF SignerInv, ChainBegun
  <2> DEFINE b == ran[s][p].payload
  <2>3. b[1] \in DOMAIN SubRuns /\ b[2] \in Nat \ {0}
    BY <2>1, <2>2, EarlierRuns
  <2>4. ChunkSize(b[1], s, b[2]) \in Nat
    BY <2>3, RemainingIs DEF CountTypes
  <2> QED
    BY <2>4 DEF Weight
<1>2. RecordsLanded(s) = SumFunction([p \in DOMAIN ran[s] |-> Weight(s, ran[s][p])])
  BY DEF RecordsLanded, Weight
<1>3. RecordsLanded(s) \in Nat
  <2> DEFINE f == [p \in DOMAIN ran[s] |-> Weight(s, ran[s][p])]
             n == Len(ran[s])
  <2>1. n \in Nat /\ DOMAIN ran[s] = 1..n
    <3>1. ran[s] \in Seq(Entries)
      BY DEF BenchTypes
    <3> QED
      BY <3>1
  <2>2. DOMAIN f = 1..n /\ \A p \in 1..n : f[p] \in Nat
    BY <1>1, <2>1
  <2> HIDE DEF n, f
  <2>3. IsFiniteSet(1..n)
    BY <2>1, FS_Interval
  <2>4. SumFunctionOnSet(f, 1..n) \in Nat
    BY <2>2, <2>3, SumNat
  <2>5. SumFunction(f) \in Nat
    BY <2>2, <2>4 DEF SumFunction
  <2> QED
    BY <1>2, <2>5 DEF f
<1>4. Pending(s) \in Nat /\ Pending(s) <= BatchSize /\ BatchSize \in Nat
  <2>1. worker[s].chunk \in Nat \ {0} /\ BatchSize \in Nat \ {0}
    BY BenchAssumption DEF BenchTypes, WorkerStates
  <2>2. /\ ChunkSize(run, s, worker[s].chunk) \in Nat
        /\ ChunkSize(run, s, worker[s].chunk) <= BatchSize
    BY <2>1, RemainingIs DEF CountTypes
  <2> QED
    BY <2>1, <2>2 DEF Pending
<1>5. Sure(s) \in Int /\ Most(s) \in Int
  <2>1. Sure(s) \in Int
    BY <1>3, <1>4 DEF Sure
  <2>2. (IF Straying(s) THEN BatchSize ELSE 0) \in Int
    BY <1>4
  <2> QED
    BY <2>1, <2>2 DEF Most
<1> QED
  BY <1>1, <1>2, <1>3, <1>4, <1>5

\* A step that counts d records more, all of them certain, of one signer.
LEMMA ReportMoves ==
  ASSUME OrderInv, OrderInv', CountInv, CountInv', ReportInv, run' = run,
         NEW s \in Signers, NEW d \in Int, CountedOk' = CountedOk + d,
         Sure(s)' >= Sure(s) + d, Most(s)' <= Most(s) + d,
         \A u \in Signers \ {s} : Sure(u)' = Sure(u) /\ Most(u)' <= Most(u),
         \A u \in Signers : Sure(u)' \in Int /\ Most(u)' \in Int
  PROVE  ReportInv'
<1> DEFINE a == [u \in Signers |-> Sure(u)]
           b == [u \in Signers |-> IF u = s THEN Sure(u) + d ELSE Sure(u)]
           c == [u \in Signers |-> Sure(u)']
           x == [u \in Signers |-> Most(u)]
           y == [u \in Signers |-> IF u = s THEN Most(u) + d ELSE Most(u)]
           z == [u \in Signers |-> Most(u)']
<1>1. \A u \in Signers : Sure(u) \in Int /\ Most(u) \in Int
  BY LandedTypes DEF OrderInv, CountInv
<1>2. /\ a \in [Signers -> Int] /\ b \in [Signers -> Int] /\ c \in [Signers -> Int]
      /\ x \in [Signers -> Int] /\ y \in [Signers -> Int] /\ z \in [Signers -> Int]
  BY <1>1
<1>3. /\ \A u \in Signers \ {s} : b[u] = a[u] /\ y[u] = x[u]
      /\ b[s] = a[s] + d /\ y[s] = x[s] + d
      /\ a[s] \in Int /\ x[s] \in Int
  BY <1>1
<1>4. \A u \in Signers : b[u] <= c[u] /\ z[u] <= y[u]
  BY <1>1
<1>5. IsFiniteSet(Signers)
  BY SignersCount
<1> DEFINE bound == BatchSize * SignerCount * (run - 1)
<1>6. CountedOk <= SumFunction(a) /\ SumFunction(x) <= CountedOk + bound
  BY DEF ReportInv
<1>7. bound \in Int /\ CountedOk \in Int /\ bound' = bound
  <2>1. run \in Nat
    BY DEF OrderInv, BenchTypes
  <2>2. BatchSize * SignerCount \in Int
    BY BenchAssumption
  <2>3. CountedOk \in Nat
    BY CountedTypes DEF CountInv
  <2> QED
    BY <2>1, <2>2, <2>3
<1>8. (CountedOk' <= SumFunction(c) /\ SumFunction(z) <= CountedOk' + bound) => ReportInv'
  BY <1>7 DEF ReportInv
<1> HIDE DEF a, b, c, x, y, z, bound
<1>9. SumFunction(a) \in Int /\ SumFunction(b) = SumFunction(a) - a[s] + b[s]
  BY <1>2, <1>3, <1>5, SumUpdate
<1>10. SumFunction(x) \in Int /\ SumFunction(y) = SumFunction(x) - x[s] + y[s]
  BY <1>2, <1>3, <1>5, SumUpdate
<1>11. SumFunction(b) <= SumFunction(c) /\ SumFunction(b) \in Int /\ SumFunction(c) \in Int
  BY <1>2, <1>4, <1>5, SumAtMost
<1>12. SumFunction(z) <= SumFunction(y) /\ SumFunction(z) \in Int /\ SumFunction(y) \in Int
  BY <1>2, <1>4, <1>5, SumAtMost
<1>13. SumFunction(b) = SumFunction(a) + d /\ SumFunction(y) = SumFunction(x) + d
  BY <1>3, <1>9, <1>10
<1>14. CountedOk' <= SumFunction(c)
  BY <1>6, <1>7, <1>9, <1>11, <1>13
<1>15. SumFunction(z) <= CountedOk' + bound
  BY <1>6, <1>7, <1>10, <1>12, <1>13
<1> QED
  BY <1>8, <1>14, <1>15

SumTypes == \A u \in Signers : Sure(u) \in Int /\ Most(u) \in Int

LEMMA SumsTyped == OrderInv /\ CountInv => SumTypes
BY LandedTypes DEF SumTypes, OrderInv, CountInv

\* Nothing of u lands, no batch of u is counted, and none comes to stray.
LEMMA ReportFrame ==
  ASSUME OrderInv, CountInv, NEW u \in Signers, UNCHANGED <<mode, run>>,
         ran'[u] = ran[u], worker'[u].chunk = worker[u].chunk,
         \A t \in pool' : t.signer = u /\ t.nonce = account'[u] /\ t.payload[1] < run =>
           t \in pool /\ t.nonce = account[u]
  PROVE  Sure(u)' = Sure(u) /\ Most(u)' <= Most(u)
<1>1. \A r, s, c : ChunkSize(r, s, c)' = ChunkSize(r, s, c)
  BY SameRuns
<1>2. Cur(u)' = Cur(u) /\ \A b : Landed(u, b)' <=> Landed(u, b)
  BY DEF Cur, Landed
<1>3. RecordsLanded(u)' = RecordsLanded(u)
  BY <1>1 DEF RecordsLanded
<1>4. Pending(u)' = Pending(u)
  BY <1>1, <1>2 DEF Pending
<1>5. Sure(u)' = Sure(u)
  BY <1>3, <1>4 DEF Sure
<1>6. Straying(u)' => Straying(u)
  BY <1>2 DEF Straying
<1>7. Sure(u) \in Int /\ BatchSize \in Nat
  BY LandedTypes DEF OrderInv, CountInv
<1> QED
  BY <1>5, <1>6, <1>7 DEF Most

LEMMA QuietReports ==
  ASSUME OrderInv, OrderInv', CountInv, CountInv', ReportInv, SumTypes',
         UNCHANGED <<mode, run, ran>>, CountedOk' = CountedOk,
         \A u \in Signers : worker'[u].chunk = worker[u].chunk,
         \A u \in Signers : \A t \in pool' :
           t.signer = u /\ t.nonce = account'[u] /\ t.payload[1] < run =>
             t \in pool /\ t.nonce = account[u]
  PROVE  ReportInv'
<1>1. \A u \in Signers : Sure(u)' = Sure(u) /\ Most(u)' <= Most(u)
  BY ReportFrame
<1>2. \A u \in Signers : Sure(u) \in Int /\ Most(u) \in Int /\ Most(u)' \in Int
  BY SumsTyped DEF SumTypes
<1>3. 0 \in Signers
  BY SignersCount
<1>4. CountedOk \in Nat
  BY CountedTypes DEF CountInv
<1>5. /\ CountedOk' = CountedOk + 0
      /\ Sure(0)' >= Sure(0) + 0 /\ Most(0)' <= Most(0) + 0
  BY <1>1, <1>2, <1>3, <1>4
<1>6. \A u \in Signers : Sure(u)' \in Int /\ Most(u)' \in Int
  BY <1>1, <1>2
<1>7. run' = run
  OBVIOUS
<1> QED
  BY <1>1, <1>3, <1>5, <1>6, <1>7, ReportMoves

\* A worker that hears of no batch in the chain.
LEMMA QuietWorkerReports ==
  ASSUME OrderInv, OrderInv', CountInv, CountInv', ReportInv, SumTypes', NEW s \in Signers,
         Acquire(s) \/ ReadNonce(s) \/ NextChunk(s) \/ ChunkErr(s)
  PROVE  ReportInv'
<1>1. BenchTypes /\ CountTypes /\ UNCHANGED <<mode, run, ran, pool, account, report>>
  BY DEF OrderInv, CountInv, Acquire, ReadNonce, NextChunk, ChunkErr, subVars
<1>2. \A u \in Signers : worker'[u].chunk = worker[u].chunk
  <2>1. CASE \E to \in Working \cup Finished \cup {"waiting"} : Move(s, to)
    BY <1>1, <2>1, MoveEffect
  <2>2. CASE worker' = [worker EXCEPT ![s] =
                          [at |-> "loop", nonce |-> account[s], chunk |-> worker[s].chunk]]
    <3> DEFINE w == [at |-> "loop", nonce |-> account[s], chunk |-> worker[s].chunk]
    <3>1. w.chunk = worker[s].chunk /\ worker' = [worker EXCEPT ![s] = w]
          /\ worker \in [Signers -> WorkerStates]
      BY <1>1, <2>2 DEF BenchTypes
    <3> HIDE DEF w
    <3> QED
      BY <3>1, UpdateOne
  <2>3. CASE Acquire(s) \/ NextChunk(s) \/ ChunkErr(s)
    BY <2>1, <2>3 DEF Acquire, NextChunk, ChunkErr, Working, Finished
  <2>4. CASE ReadNonce(s)
    BY <2>1, <2>2, <2>4 DEF ReadNonce, Working, Finished
  <2> QED
    BY <2>3, <2>4
<1>3. CountedOk' = CountedOk
  <2>1. CASE Acquire(s) \/ ReadNonce(s) \/ NextChunk(s)
    <3>1. UNCHANGED <<events, report>>
      BY <2>1 DEF Acquire, ReadNonce, NextChunk
    <3> QED
      BY <3>1 DEF CountedOk
  <2>2. CASE ChunkErr(s)
    <3> DEFINE d == Remaining(run, s, worker[s].chunk)
    <3>1. d \in Nat
      BY <1>1, RemainingIs DEF CountTypes, BenchTypes, WorkerStates
    <3>2. events' = Append(events, Chunk(0, d)) /\ report' = report
      BY <2>2 DEF ChunkErr, Emit
    <3> HIDE DEF d
    <3>3. CountedOk' = CountedOk + 0
      BY <1>1, <3>1, <3>2, EventSent
    <3>4. CountedOk \in Nat
      BY <1>1, CountedTypes
    <3> QED
      BY <3>3, <3>4
  <2> QED
    BY <2>1, <2>2
<1> QED
  BY <1>1, <1>2, <1>3, QuietReports

\* The worker hears that its batch landed, and counts it.
LEMMA ChunkOkReports ==
  ASSUME OrderInv, OrderInv', CountInv, CountInv', ReportInv, SumTypes', NEW s \in Signers,
         ChunkOk(s)
  PROVE  ReportInv'
<1> DEFINE c == worker[s].chunk
           d == ChunkSize(run, s, c)
           w == [at |-> "loop", chunk |-> c + 1,
                 nonce |-> IF worker[s].nonce = AutoNonce THEN AutoNonce
                           ELSE worker[s].nonce + 1]
<1>1. /\ BenchTypes /\ CountTypes /\ SignerInv(s)
      /\ UNCHANGED <<mode, run, ran, pool, account, report>>
      /\ worker[s].at = "calling" /\ sub[s].at = "ok" /\ worker' = [worker EXCEPT ![s] = w]
      /\ events' = Append(events, Chunk(d, 0))
      /\ worker \in [Signers -> WorkerStates]
  BY DEF OrderInv, CountInv, ChunkOk, Emit, BenchTypes
<1>2. c \in Nat \ {0} /\ run \in Nat \ {0} /\ w.chunk = c + 1
  BY <1>1 DEF BenchTypes, WorkerStates
<1> HIDE DEF w
<1>3. worker'[s].chunk = c + 1 /\ \A u \in Signers \ {s} : worker'[u] = worker[u]
  BY <1>1, <1>2, UpdateOne
<1>4. d \in Nat
  BY <1>1, <1>2, RemainingIs DEF CountTypes
<1>5. CountedOk' = CountedOk + d
  BY <1>1, <1>4, EventSent
<1>6. \A r, u, k : ChunkSize(r, u, k)' = ChunkSize(r, u, k)
  BY <1>1, SameRuns
<1>7. \A u, b : Landed(u, b)' <=> Landed(u, b)
  BY <1>1 DEF Landed
<1>8. Pending(s) = d
  <2>1. Landed(s, Cur(s))
    BY <1>1 DEF SignerInv, Calling, ChainBegun
  <2> QED
    BY <2>1 DEF Pending
<1>9. Pending(s)' = 0
  <2>1. ~Landed(s, <<run, c + 1>>)
    <3>1. SUFFICES ASSUME NEW p \in DOMAIN ran[s], ran[s][p].payload = <<run, c + 1>> PROVE FALSE
      BY DEF Landed
    <3>2. Begun(s, <<run, c + 1>>)
      BY <1>1, <3>1 DEF SignerInv, ChainBegun
    <3> QED
      BY <1>2, <3>2 DEF Begun, Earlier, Cur
  <2>2. Cur(s)' = <<run, c + 1>>
    BY <1>1, <1>3 DEF Cur
  <2> QED
    BY <1>7, <2>1, <2>2 DEF Pending
<1>10. RecordsLanded(s)' = RecordsLanded(s) /\ RecordsLanded(s) \in Nat
  BY <1>1, <1>6, LandedTypes DEF RecordsLanded
<1>11. Sure(s)' = Sure(s) + d /\ Sure(s) \in Int
  BY <1>4, <1>8, <1>9, <1>10 DEF Sure
<1>12. Straying(s)' <=> Straying(s)
  BY <1>1, <1>7 DEF Straying
<1>13. Most(s)' = Most(s) + d /\ Most(s) \in Int
  <2> DEFINE x == IF Straying(s) THEN BatchSize ELSE 0
  <2>1. x \in Int
    BY BenchAssumption
  <2>2. Most(s) = Sure(s) + x
    BY DEF Most
  <2>3. Most(s)' = Sure(s)' + x
    BY <1>12 DEF Most
  <2> HIDE DEF x
  <2> QED
    BY <1>4, <1>11, <2>1, <2>2, <2>3
<1>14. \A u \in Signers \ {s} : Sure(u)' = Sure(u) /\ Most(u)' <= Most(u)
  BY <1>1, <1>3, ReportFrame
<1>15. \A u \in Signers : Sure(u)' \in Int /\ Most(u)' \in Int
  BY DEF SumTypes
<1> HIDE DEF d
<1>16. Sure(s)' >= Sure(s) + d /\ Most(s)' <= Most(s) + d
  BY <1>4, <1>11, <1>13
<1> QED
  BY <1>1, <1>4, <1>5, <1>14, <1>15, <1>16, ReportMoves

\* The client: what it puts in the pool is of the sub-run at hand.
LEMMA ClientReports ==
  ASSUME OrderInv, OrderInv', CountInv, CountInv', ReportInv, SumTypes', NEW s \in Signers,
         ClientStep(s) \/ LoseStream(s), UNCHANGED benchVars
  PROVE  ReportInv'
<1>1. UNCHANGED <<mode, run, worker, events, report>>
  BY DEF benchVars
<1>2. UNCHANGED <<ran, account>>
  BY DEF ClientStep, Prepare, Retry, Fail, Send, LoseStream
<1>3. CountedOk' = CountedOk
  BY <1>1 DEF CountedOk
<1>4. \A t \in pool' : t \in pool \/ t.payload[1] = run
  <2>1. CASE Send(s)
    <3>1. pool' = pool \/ pool' = pool \cup {Transaction(s)}
      BY <2>1 DEF Send
    <3>2. Transaction(s).payload = sub[s].payload
      BY DEF Transaction
    <3>3. sub[s].payload = <<run, worker[s].chunk>>
      BY <2>1 DEF Send, OrderInv, SignerInv, Calling, Cur
    <3> QED
      BY <3>1, <3>2, <3>3
  <2>2. CASE ~Send(s)
    BY <2>2 DEF ClientStep, Prepare, Retry, Fail, LoseStream
  <2> QED
    BY <2>1, <2>2
<1>5. run \in Nat
  BY DEF OrderInv, BenchTypes
<1>6. \A u \in Signers : \A t \in pool' :
        t.signer = u /\ t.nonce = account'[u] /\ t.payload[1] < run =>
          t \in pool /\ t.nonce = account[u]
  BY <1>2, <1>4, <1>5
<1> QED
  BY <1>1, <1>2, <1>3, <1>6, QuietReports

\* A transaction is dropped, or somebody else uses the key.
LEMMA LossReports ==
  ASSUME OrderInv, OrderInv', CountInv, CountInv', ReportInv, SumTypes', UNCHANGED benchVars,
         (\E t \in pool : Drop(t)) \/ (\E s \in Signers : OutsideUse(s))
  PROVE  ReportInv'
<1>1. UNCHANGED <<mode, run, worker, events, report>>
  BY DEF benchVars
<1>2. ran' = ran /\ \A t \in pool' : t \in pool
  BY DEF Drop, OutsideUse
<1>3. CountedOk' = CountedOk
  BY <1>1 DEF CountedOk
<1>4. \A u \in Signers : account'[u] = account[u] \/ account'[u] = account[u] + 1
  <2>1. CASE \E t \in pool : Drop(t)
    BY <2>1 DEF Drop
  <2>2. CASE \E s \in Signers : OutsideUse(s)
    <3>1. PICK s \in Signers : account' = [account EXCEPT ![s] = account[s] + 1]
      BY <2>2 DEF OutsideUse
    <3>2. account \in [Signers -> Nat]
      BY DEF OrderInv, BenchTypes
    <3> QED
      BY <3>1, <3>2
  <2> QED
    BY <2>1, <2>2
<1>5. \A u \in Signers : \A t \in pool : t.signer = u => t.nonce # account[u] + 1
  <2>1. \A u \in Signers : account[u] \in Nat
    BY DEF OrderInv, BenchTypes
  <2>2. \A t \in pool : t.nonce \in Nat
    BY DEF OrderInv, BenchTypes, Transactions
  <2>3. \A u \in Signers : \A t \in pool : t.signer = u => t.nonce <= account[u]
    BY DEF OrderInv, SignerInv, NoncesBehind
  <2> QED
    BY <2>1, <2>2, <2>3
<1>6. \A u \in Signers : \A t \in pool' :
        t.signer = u /\ t.nonce = account'[u] /\ t.payload[1] < run =>
          t \in pool /\ t.nonce = account[u]
  BY <1>2, <1>4, <1>5
<1> QED
  BY <1>1, <1>2, <1>3, <1>6, QuietReports

\* A batch lands: the one in hand, which is pending from now on, or the one
\* that strayed.
LEMMA IncludeReports ==
  ASSUME OrderInv, OrderInv', CountInv, CountInv', ReportInv, SumTypes', UNCHANGED benchVars,
         NEW t \in pool, Include(t)
  PROVE  ReportInv'
<1> DEFINE s == t.signer
           b == t.payload
           n == Len(ran[s])
<1>1. /\ BenchTypes /\ CountTypes /\ t \in Transactions /\ s \in Signers
      /\ UNCHANGED <<mode, run, worker, events, report>>
      /\ pool' = pool \ {t} /\ t.nonce = account[s]
      /\ account' = [account EXCEPT ![s] = account[s] + 1]
  BY DEF OrderInv, CountInv, BenchTypes, Transactions, benchVars, Include
<1>2. PICK ok \in IF Landed(s, b) THEN {FALSE} ELSE BOOLEAN :
        ran' = [ran EXCEPT ![s] =
                  Append(ran[s], [payload |-> b, ok |-> ok, auto |-> t.auto])]
  BY DEF Include
<1>3. /\ ok \in BOOLEAN /\ (ok => ~Landed(s, b)) /\ b \in Batches /\ SignerInv(s) /\ Begun(s, b)
  <2>1. ok \in BOOLEAN /\ (ok => ~Landed(s, b))
    BY <1>2
  <2>2. SignerInv(s)
    BY <1>1 DEF OrderInv
  <2> QED
    BY <1>1, <2>1, <2>2 DEF Transactions, SignerInv, ChainBegun
<1> DEFINE e == [payload |-> b, ok |-> ok, auto |-> t.auto]
           d == ChunkSize(b[1], s, b[2])
<1>4. /\ ran'[s] = Append(ran[s], e) /\ ran[s] \in Seq(Entries)
      /\ \A u \in Signers \ {s} : ran'[u] = ran[u] /\ account'[u] = account[u]
      /\ account'[s] = account[s] + 1 /\ account[s] \in Nat
  <2>1. ran \in [Signers -> Seq(Entries)] /\ account \in [Signers -> Nat]
    BY <1>1 DEF BenchTypes
  <2>2. ran' = [ran EXCEPT ![s] = Append(ran[s], e)]
    BY <1>2
  <2> HIDE DEF e, s
  <2> DEFINE more == Append(ran[s], e)
  <2>3. ran'[s] = more /\ \A u \in Signers \ {s} : ran'[u] = ran[u]
    <3> HIDE DEF more
    <3>1. ran' = [ran EXCEPT ![s] = more]
      BY <2>2 DEF more
    <3> QED
      BY <1>1, <2>1, <3>1, UpdateOne
  <2> QED
    BY <1>1, <2>1, <2>3
<1>5. e.payload = b /\ e.ok = ok
  OBVIOUS
<1>6. /\ n \in Nat /\ DOMAIN ran[s] = 1..n /\ DOMAIN ran'[s] = 1..(n + 1)
      /\ ran'[s][n + 1] = e /\ \A p \in 1..n : ran'[s][p] = ran[s][p]
  <2> HIDE DEF e
  <2> QED
    BY <1>4
<1>7. d \in Nat /\ d <= BatchSize
  <2>1. b[1] \in DOMAIN SubRuns /\ b[2] \in Nat \ {0}
    BY <1>1, <1>3, EarlierRuns
  <2> QED
    BY <1>1, <2>1, RemainingIs DEF CountTypes
<1> HIDE DEF e, n, s, b
<1>8. /\ \A r, u, k : ChunkSize(r, u, k)' = ChunkSize(r, u, k)
      /\ \A u, x : Weight(u, x)' = Weight(u, x)
  BY <1>1, SameRuns DEF Weight
<1>9. Weight(s, e) = IF ok THEN d ELSE 0
  BY <1>5 DEF Weight
<1> DEFINE more == IF ok THEN d ELSE 0
<1>10. RecordsLanded(s)' = RecordsLanded(s) + more /\ RecordsLanded(s) \in Nat
  <2> DEFINE f == [p \in 1..n |-> Weight(s, ran[s][p])]
             h == [p \in 1..(n + 1) |-> Weight(s, ran'[s][p])]
  <2>1. /\ \A p \in 1..n : Weight(s, ran[s][p]) \in Nat
        /\ RecordsLanded(s) = SumFunction(f) /\ RecordsLanded(s) \in Nat
    BY <1>1, <1>3, <1>6, LandedTypes
  <2>2. RecordsLanded(s)' = SumFunction(h)
    <3>1. RecordsLanded(s)'
            = SumFunction([p \in 1..(n + 1) |-> IF ran'[s][p].ok
                             THEN ChunkSize(ran'[s][p].payload[1], s, ran'[s][p].payload[2])
                             ELSE 0])
      BY <1>6, <1>8 DEF RecordsLanded
    <3> QED
      BY <3>1 DEF Weight
  <2>3. h[n + 1] = more
    <3>1. n + 1 \in 1..(n + 1)
      BY <1>6
    <3>2. h[n + 1] = Weight(s, ran'[s][n + 1])
      BY <3>1
    <3> QED
      BY <1>6, <1>9, <3>2
  <2>4. \A p \in 1..n : h[p] = f[p]
    <3>1. \A p \in 1..n : p \in 1..(n + 1)
      BY <1>6
    <3> QED
      BY <1>6, <3>1
  <2>5. f \in [1..n -> Int] /\ h \in [1..(n + 1) -> Int]
    <3>1. \A p \in 1..(n + 1) : p \in 1..n \/ p = n + 1
      BY <1>6
    <3>2. more \in Int
      BY <1>7
    <3>3. \A p \in 1..(n + 1) : Weight(s, ran'[s][p]) \in Int
      BY <1>6, <1>9, <2>1, <3>1, <3>2
    <3> QED
      BY <2>1, <3>3
  <2> HIDE DEF f, h, more
  <2>6. SumFunction(f) \in Int /\ SumFunction(h) = SumFunction(f) + h[n + 1]
    BY <1>6, <2>4, <2>5, SumAppend
  <2> QED
    BY <2>1, <2>2, <2>3, <2>6
<1>11. \A x : Landed(s, x)' <=> Landed(s, x) \/ (x = b /\ ok)
  <2>1. \A p \in 1..(n + 1) : p \in 1..n \/ p = n + 1
    BY <1>6
  <2>2. \A p \in 1..n : p \in 1..(n + 1)
    BY <1>6
  <2>3. n + 1 \in 1..(n + 1)
    BY <1>6
  <2> QED
    BY <1>5, <1>6, <2>1, <2>2, <2>3 DEF Landed
<1>12. Cur(s)' = Cur(s) /\ Pending(s) \in Nat /\ BatchSize \in Nat /\ Sure(s) \in Int
  BY <1>1, <1>3, LandedTypes DEF Cur
<1>13. Cur(s) = <<run, worker[s].chunk>> /\ run \in Nat /\ worker[s].chunk \in Nat
  BY <1>1 DEF Cur, BenchTypes, WorkerStates
<1>14. ~Straying(s)'
  <2>1. SUFFICES ASSUME NEW u \in pool, u.signer = s, u.nonce = account[s] + 1 PROVE FALSE
    BY <1>1, <1>4 DEF Straying
  <2>2. u.nonce <= account[s] /\ u.nonce \in Nat
    BY <1>1, <1>3, <2>1 DEF SignerInv, NoncesBehind, BenchTypes, Transactions
  <2> QED
    BY <1>4, <2>1, <2>2
<1>15. Most(s)' = Sure(s)' + 0 /\ Most(s) = Sure(s) + (IF Straying(s) THEN BatchSize ELSE 0)
  BY <1>14 DEF Most
<1>16. Sure(s)' >= Sure(s) + 0 /\ Most(s)' <= Most(s) + 0
  <2>1. CASE ~ok
    <3>1. Pending(s)' = Pending(s)
      BY <1>1, <1>8, <1>11, <1>12, <2>1 DEF Pending
    <3>2. Sure(s)' = Sure(s)
      BY <1>10, <2>1, <3>1 DEF Sure
    <3> QED
      BY <1>12, <1>15, <3>2
  <2>2. CASE ok /\ b = Cur(s)
    <3>1. ~Landed(s, Cur(s)) /\ Landed(s, Cur(s))'
      <4>1. \A p \in DOMAIN ran'[s] :
              ran'[s][p].payload = Cur(s)' <=> ran'[s][p].payload = Cur(s)
        BY <1>12
      <4> QED
        BY <1>3, <1>11, <2>2, <4>1 DEF Landed
    <3>2. d = ChunkSize(run, s, worker[s].chunk)
      BY <1>13, <2>2
    <3>3. Pending(s) = 0
      BY <3>1 DEF Pending
    <3>4. Pending(s)' = d
      BY <1>1, <1>8, <1>12, <3>1, <3>2 DEF Pending
    <3> HIDE DEF d
    <3>5. Sure(s)' = Sure(s)
      BY <1>7, <1>10, <2>2, <3>3, <3>4 DEF Sure
    <3> QED
      BY <1>12, <1>15, <3>5
  <2>3. CASE ok /\ b # Cur(s)
    <3>1. Landed(s, Cur(s))' <=> Landed(s, Cur(s))
      <4>1. \A p \in DOMAIN ran'[s] :
              ran'[s][p].payload = Cur(s)' <=> ran'[s][p].payload = Cur(s)
        BY <1>12
      <4> QED
        BY <1>11, <2>3, <4>1 DEF Landed
    <3>2. Pending(s)' = Pending(s)
      BY <1>1, <1>8, <1>12, <3>1 DEF Pending
    <3> HIDE DEF d
    <3>3. Sure(s)' = Sure(s) + d
      BY <1>7, <1>10, <1>12, <2>3, <3>2 DEF Sure
    <3>4. Straying(s)
      <4>1. Earlier(b, Cur(s))
        BY <1>3, <2>3 DEF Begun
      <4>2. b[1] \in Nat \ {0} /\ b[2] \in Nat \ {0} /\ b = <<b[1], b[2]>>
        BY <1>3 DEF Batches
      <4>3. ~(b[1] = run /\ b[2] < worker[s].chunk)
        <5>1. SUFFICES ASSUME b[1] = run, b[2] < worker[s].chunk PROVE FALSE
          OBVIOUS
        <5>2. b[2] \in 1..(worker[s].chunk - 1)
          BY <1>13, <4>2, <5>1
        <5>3. Landed(s, <<run, b[2]>>)
          BY <1>3, <5>2 DEF SignerInv, ChainBegun
        <5> QED
          BY <1>3, <2>3, <4>2, <5>1, <5>3
      <4>4. b[1] < run
        BY <1>13, <4>1, <4>3 DEF Earlier
      <4> QED
        BY <1>1, <1>3, <2>3, <4>4 DEF Straying, s, b
    <3> QED
      BY <1>7, <1>12, <1>15, <3>3, <3>4
  <2> QED
    BY <1>3, <2>1, <2>2, <2>3
<1>17. \A u \in Signers \ {s} : Sure(u)' = Sure(u) /\ Most(u)' <= Most(u)
  BY <1>1, <1>4, ReportFrame
<1>18. CountedOk' = CountedOk + 0
  <2>1. CountedOk \in Nat
    BY <1>1, CountedTypes
  <2> QED
    BY <1>1, <2>1 DEF CountedOk
<1>19. \A u \in Signers : Sure(u)' \in Int /\ Most(u)' \in Int
  BY DEF SumTypes
<1> QED
  BY <1>1, <1>16, <1>17, <1>18, <1>19, ReportMoves

\* A new sub-run: what was pending no longer is, and at most one batch of each
\* signer has come to stray.
LEMMA NextSubRunReports ==
  ASSUME OrderInv, OrderInv', CountInv, CountInv', ReportInv, SumTypes', NextSubRun
  PROVE  ReportInv'
<1>1. /\ BenchTypes /\ CountTypes /\ run \in Nat \ {0} /\ run' = run + 1
      /\ UNCHANGED <<mode, events, report, ran, pool, account>>
      /\ worker' = Workers(SubRuns[run + 1])
  BY DEF OrderInv, CountInv, NextSubRun, subVars, BenchTypes
<1>2. \A s \in Signers : worker'[s].chunk = 1
  <2> DEFINE sizes == SubRuns[run + 1]
  <2> HIDE DEF sizes
  <2>1. worker' = Workers(sizes)
    BY <1>1 DEF sizes
  <2> QED
    BY <2>1, WorkersType
<1>3. /\ \A r, u, k : ChunkSize(r, u, k)' = ChunkSize(r, u, k)
      /\ \A u, b : Landed(u, b)' <=> Landed(u, b)
  BY <1>1, SameRuns DEF Landed
<1>4. ASSUME NEW s \in Signers
      PROVE  /\ Sure(s) \in Int /\ Sure(s)' \in Int /\ Most(s) \in Int /\ Most(s)' \in Int
             /\ Sure(s) <= Sure(s)' /\ Most(s)' <= Most(s) + BatchSize
  <2>1. SignerInv(s) /\ worker[s].chunk \in Nat \ {0}
    BY <1>1 DEF OrderInv, BenchTypes, WorkerStates
  <2>2. /\ RecordsLanded(s) \in Nat /\ Pending(s) \in Nat /\ Pending(s) <= BatchSize
        /\ BatchSize \in Nat /\ Sure(s) \in Int /\ Most(s) \in Int
    BY <1>1, <2>1, LandedTypes
  <2>3. RecordsLanded(s)' = RecordsLanded(s)
    BY <1>1, <1>3 DEF RecordsLanded
  <2>4. Pending(s)' = 0
    <3>1. ~Landed(s, <<run + 1, 1>>)
      <4>1. SUFFICES ASSUME NEW p \in DOMAIN ran[s], ran[s][p].payload = <<run + 1, 1>>
                     PROVE  FALSE
        BY DEF Landed
      <4>2. Begun(s, <<run + 1, 1>>)
        BY <2>1, <4>1 DEF SignerInv, ChainBegun
      <4> QED
        BY <1>1, <4>2 DEF Begun, Earlier, Cur
    <3>2. Cur(s)' = <<run + 1, 1>>
      BY <1>1, <1>2 DEF Cur
    <3> QED
      BY <1>3, <3>1, <3>2 DEF Pending
  <2>5. Straying(s)' => Straying(s) \/ Pending(s) = 0
    <3> SUFFICES ASSUME Straying(s)', Landed(s, Cur(s)) PROVE Straying(s)
      BY DEF Pending
    <3>1. PICK t \in pool : t.signer = s /\ t.nonce = account[s] /\ t.payload[1] < run + 1
                             /\ ~Landed(s, t.payload)
      BY <1>1, <1>3 DEF Straying
    <3>2. Begun(s, t.payload) /\ t.payload \in Batches
      BY <1>1, <2>1, <3>1 DEF SignerInv, ChainBegun, BenchTypes, Transactions
    <3>3. t.payload = <<t.payload[1], t.payload[2]>> /\ t.payload[1] \in Nat \ {0}
          /\ t.payload[2] \in Nat \ {0}
      BY <3>2 DEF Batches
    <3>4. t.payload # Cur(s)
      BY <3>1
    <3>5. Earlier(t.payload, Cur(s))
      BY <3>2, <3>4 DEF Begun
    <3>6. ~(t.payload[1] = run /\ t.payload[2] < worker[s].chunk)
      <4>1. SUFFICES ASSUME t.payload[1] = run, t.payload[2] < worker[s].chunk PROVE FALSE
        OBVIOUS
      <4>2. t.payload[2] \in 1..(worker[s].chunk - 1)
        BY <2>1, <3>3, <4>1
      <4>3. Landed(s, <<run, t.payload[2]>>)
        BY <2>1, <4>2 DEF SignerInv, ChainBegun
      <4> QED
        BY <3>1, <3>3, <4>1, <4>3
    <3>7. t.payload[1] < run
      BY <1>1, <3>5, <3>6 DEF Earlier, Cur
    <3> QED
      BY <3>1, <3>7 DEF Straying
  <2>6. Sure(s) = RecordsLanded(s) - Pending(s) /\ Sure(s)' = RecordsLanded(s)
    BY <2>2, <2>3, <2>4 DEF Sure
  <2>7. /\ Most(s) = Sure(s) + (IF Straying(s) THEN BatchSize ELSE 0)
        /\ Most(s)' = Sure(s)' + (IF Straying(s)' THEN BatchSize ELSE 0)
    <3>1. BatchSize' = BatchSize
      OBVIOUS
    <3> QED
      BY <3>1 DEF Most
  <2>8. Most(s)' <= Most(s) + BatchSize
    <3>1. CASE Straying(s)
      BY <2>2, <2>6, <2>7, <3>1
    <3>2. CASE ~Straying(s) /\ Straying(s)'
      BY <2>2, <2>5, <2>6, <2>7, <3>2
    <3>3. CASE ~Straying(s) /\ ~Straying(s)'
      BY <2>2, <2>6, <2>7, <3>3
    <3> QED
      BY <3>1, <3>2, <3>3
  <2>9. Sure(s)' \in Int /\ Most(s)' \in Int
    BY DEF SumTypes
  <2> QED
    BY <2>2, <2>6, <2>8, <2>9
<1> DEFINE a == [s \in Signers |-> Sure(s)]
           c == [s \in Signers |-> Sure(s)']
           x == [s \in Signers |-> Most(s)]
           e == [s \in Signers |-> BatchSize]
           y == [s \in Signers |-> Most(s) + BatchSize]
           z == [s \in Signers |-> Most(s)']
           batches == BatchSize * SignerCount
<1>5. BatchSize \in Nat /\ SignerCount \in Nat /\ batches \in Nat
  BY BenchAssumption
<1>6. /\ a \in [Signers -> Int] /\ c \in [Signers -> Int] /\ x \in [Signers -> Int]
      /\ e \in [Signers -> Int] /\ y \in [Signers -> Int] /\ z \in [Signers -> Int]
      /\ \A s \in Signers : a[s] <= c[s] /\ z[s] <= y[s] /\ y[s] = x[s] + e[s]
  BY <1>4, <1>5
<1>7. IsFiniteSet(Signers) /\ Cardinality(Signers) = SignerCount
  BY SignersCount
<1>8. SumFunction(e) = batches
  BY <1>5, <1>7, SumConst
<1>9. CountedOk \in Int /\ CountedOk' = CountedOk
  BY <1>1, CountedTypes DEF CountedOk
<1>10. /\ CountedOk <= SumFunction(a)
       /\ SumFunction(x) <= CountedOk + batches * (run - 1)
  BY DEF ReportInv
<1>11. (CountedOk' <= SumFunction(c) /\ SumFunction(z) <= CountedOk' + batches * (run' - 1))
         => ReportInv'
  BY DEF ReportInv
<1> HIDE DEF a, c, x, e, y, z, batches
<1>12. SumFunction(a) \in Int /\ SumFunction(c) \in Int /\ SumFunction(a) <= SumFunction(c)
  BY <1>6, <1>7, SumAtMost
<1>13. SumFunction(z) \in Int /\ SumFunction(y) \in Int /\ SumFunction(z) <= SumFunction(y)
  BY <1>6, <1>7, SumAtMost
<1>14. SumFunction(x) \in Int /\ SumFunction(y) = SumFunction(x) + batches
  <2>1. /\ SumFunction(x) \in Int /\ SumFunction(e) \in Int
        /\ SumFunction(y) = SumFunction(x) + SumFunction(e)
    BY <1>6, <1>7, SumPlus
  <2> QED
    BY <1>8, <2>1
<1>15. batches * (run' - 1) = batches * (run - 1) + batches /\ batches * (run - 1) \in Int
  <2>1. run' - 1 = (run - 1) + 1 /\ run - 1 \in Nat
    BY <1>1
  <2> QED
    BY <1>5, <2>1
<1>16. CountedOk' <= SumFunction(c)
  BY <1>9, <1>10, <1>12
<1>17. SumFunction(z) <= CountedOk' + batches * (run' - 1)
  <2> DEFINE before == batches * (run - 1)
             after == batches * (run' - 1)
  <2>1. after = before + batches /\ before \in Int /\ SumFunction(x) <= CountedOk + before
    BY <1>10, <1>15
  <2> HIDE DEF before, after
  <2>2. SumFunction(z) <= CountedOk' + after
    BY <1>5, <1>9, <1>13, <1>14, <2>1
  <2> QED
    BY <2>2 DEF after
<1> QED
  BY <1>11, <1>16, <1>17

\* The steps of the main task and the consumer, which touch no batch.
LEMMA OthersReport ==
  ASSUME OrderInv, OrderInv', CountInv, CountInv', ReportInv, SumTypes',
         FundBatch \/ AbortSetup \/ StartWorkers \/ Report \/ AbortReport \/ StopTimer
           \/ Consume \/ UNCHANGED vars
  PROVE  ReportInv'
<1>1. UNCHANGED <<mode, run, worker, ran, pool, account>>
  <2>1. CASE FundBatch \/ UNCHANGED vars
    BY <2>1 DEF FundBatch, vars, subVars, benchVars
  <2>2. CASE AbortSetup \/ StartWorkers \/ Report \/ AbortReport \/ StopTimer \/ Consume
    BY <2>2 DEF AbortSetup, StartWorkers, Report, AbortReport, StopTimer, Consume, subVars
  <2> QED
    BY <2>1, <2>2
<1>2. CountedOk' = CountedOk
  <2>1. CASE Consume
    BY <2>1, EventRead DEF CountInv
  <2>2. CASE ~Consume
    <3>1. UNCHANGED <<events, report>>
      <4>1. CASE FundBatch \/ UNCHANGED vars
        BY <4>1 DEF FundBatch, vars, benchVars
      <4>2. CASE AbortSetup \/ StartWorkers \/ Report \/ AbortReport \/ StopTimer
        BY <4>2 DEF AbortSetup, StartWorkers, Report, AbortReport, StopTimer
      <4> QED
        BY <2>2, <4>1, <4>2
    <3> QED
      BY <3>1 DEF CountedOk
  <2> QED
    BY <2>1, <2>2
<1> QED
  BY <1>1, <1>2, QuietReports

LEMMA InitReports == Init => ReportInv
<1> SUFFICES ASSUME Init PROVE ReportInv
  OBVIOUS
<1>1. /\ run = 1 /\ pool = {} /\ ran = [s \in Signers |-> <<>>]
      /\ events = <<>> /\ report = [ok |-> 0, failed |-> 0]
  BY DEF Init, InitSubmission
<1>2. \A s \in Signers : Sure(s) = 0 /\ Most(s) = 0
  <2> SUFFICES ASSUME NEW s \in Signers PROVE Sure(s) = 0 /\ Most(s) = 0
    OBVIOUS
  <2>1. DOMAIN ran[s] = {}
    BY <1>1
  <2>2. Pending(s) = 0 /\ ~Straying(s)
    BY <1>1, <2>1 DEF Pending, Straying, Landed
  <2>3. RecordsLanded(s) = 0
    BY <2>1, SumOfNone DEF RecordsLanded
  <2> QED
    BY <2>2, <2>3 DEF Sure, Most
<1>3. CountedOk = 0
  <2>1. DOMAIN events = {}
    BY <1>1
  <2>2. SumFunction([e \in DOMAIN events |-> events[e].ok]) = 0
    BY <2>1, SumOfNone
  <2> QED
    BY <1>1, <2>2 DEF CountedOk
<1>4. IsFiniteSet(Signers) /\ SumFunction([s \in Signers |-> 0]) = 0
  BY SignersCount, SumOfZeros
<1>5. /\ [s \in Signers |-> Sure(s)] = [s \in Signers |-> 0]
      /\ [s \in Signers |-> Most(s)] = [s \in Signers |-> 0]
  BY <1>2
<1>6. BatchSize * SignerCount * (run - 1) = 0
  <2>1. BatchSize * SignerCount \in Nat
    BY BenchAssumption
  <2> QED
    BY <1>1, <2>1
<1> QED
  BY <1>3, <1>4, <1>5, <1>6 DEF ReportInv

LEMMA ReportStep ==
  OrderInv /\ OrderInv' /\ CountInv /\ CountInv' /\ SumTypes' /\ ReportInv /\ [Next]_vars
    => ReportInv'
<1> SUFFICES ASSUME OrderInv, OrderInv', CountInv, CountInv', SumTypes', ReportInv, [Next]_vars
             PROVE  ReportInv'
  OBVIOUS
<1>1. CASE MainStep \/ Consume \/ StopTimer \/ UNCHANGED vars
  BY <1>1, NextSubRunReports, OthersReport DEF MainStep
<1>2. CASE \E s \in Signers : WorkerStep(s)
  <2>1. PICK s \in Signers : WorkerStep(s)
    BY <1>2
  <2> QED
    BY <2>1, QuietWorkerReports, ChunkOkReports, ClientReports DEF WorkerStep
<1>3. CASE NodeStep /\ UNCHANGED benchVars
  BY <1>3, IncludeReports, LossReports, ClientReports DEF NodeStep
<1> QED
  BY <1>1, <1>2, <1>3 DEF Next

LEMMA ReportAlways == Spec => []ReportInv
<1>1. OrderInv /\ CountInv => SumTypes
  BY SumsTyped
<1> QED
  BY <1>1, InitReports, ReportStep, OrderAlways, CountAlways, PTL DEF Spec

\* What a worker has reported as deposited is in the chain, and of what it has
\* not reported, or reported as failed, at most one batch a signer and sub-run
\* is: the one whose answer did not arrive (WorkerEvent::Chunk, seed.rs).
THEOREM ReportIsOfTheChain == Spec => []ReportMatchesChain
<1> DEFINE landed == [s \in Signers |-> RecordsLanded(s)]
           sure == [s \in Signers |-> Sure(s)]
           pending == [s \in Signers |-> Pending(s)]
           most == [s \in Signers |-> Most(s)]
           e == [s \in Signers |-> BatchSize]
           batches == BatchSize * SignerCount
<1>1. ASSUME OrderInv, CountInv, ReportInv
      PROVE  SumFunction(landed) - CountedOk \in 0..(batches * run)
  <2>1. ASSUME NEW s \in Signers
        PROVE  /\ RecordsLanded(s) \in Nat /\ Pending(s) \in Nat /\ Pending(s) <= BatchSize
               /\ Sure(s) \in Int /\ Most(s) \in Int /\ Sure(s) <= Most(s)
               /\ RecordsLanded(s) = Sure(s) + Pending(s)
    <3>1. /\ RecordsLanded(s) \in Nat /\ Pending(s) \in Nat /\ Pending(s) <= BatchSize
          /\ Sure(s) \in Int /\ Most(s) \in Int /\ BatchSize \in Nat
      BY <1>1, LandedTypes DEF OrderInv, CountInv
    <3> QED
      BY <3>1 DEF Sure, Most
  <2>2. BatchSize \in Nat /\ SignerCount \in Nat /\ batches \in Nat /\ run \in Nat \ {0}
    BY <1>1, BenchAssumption DEF OrderInv, BenchTypes
  <2>3. /\ landed \in [Signers -> Int] /\ sure \in [Signers -> Int] /\ pending \in [Signers -> Int]
        /\ most \in [Signers -> Int] /\ e \in [Signers -> Int] /\ pending \in [Signers -> Nat]
        /\ \A s \in Signers : /\ landed[s] = sure[s] + pending[s] /\ sure[s] <= landed[s]
                              /\ sure[s] <= most[s] /\ pending[s] <= e[s]
    BY <2>1, <2>2
  <2>4. IsFiniteSet(Signers) /\ Cardinality(Signers) = SignerCount
    BY SignersCount
  <2>5. SumFunction(e) = batches
    BY <2>2, <2>4, SumConst
  <2>6. /\ CountedOk <= SumFunction(sure)
        /\ SumFunction(most) <= CountedOk + batches * (run - 1)
    BY <1>1 DEF ReportInv
  <2>7. CountedOk \in Nat
    BY <1>1, CountedTypes DEF CountInv
  <2>8. batches * run = batches * (run - 1) + batches /\ batches * (run - 1) \in Int
        /\ batches * run \in Int
    <3>1. run = (run - 1) + 1 /\ run - 1 \in Nat
      BY <2>2
    <3> QED
      BY <2>2, <3>1
  <2> HIDE DEF landed, sure, pending, most, e, batches
  <2>9. /\ SumFunction(sure) \in Int /\ SumFunction(pending) \in Int
        /\ SumFunction(landed) = SumFunction(sure) + SumFunction(pending)
    BY <2>3, <2>4, SumPlus
  <2>10. SumFunction(sure) <= SumFunction(landed) /\ SumFunction(landed) \in Int
    BY <2>3, <2>4, SumAtMost
  <2>11. SumFunction(sure) <= SumFunction(most) /\ SumFunction(most) \in Int
    BY <2>3, <2>4, SumAtMost
  <2>12. SumFunction(pending) <= SumFunction(e)
    BY <2>3, <2>4, SumAtMost
  <2>13. SumFunction(landed) - CountedOk >= 0
    BY <2>6, <2>7, <2>9, <2>10
  <2>14. SumFunction(landed) - CountedOk <= batches * run
    BY <2>2, <2>5, <2>6, <2>7, <2>8, <2>9, <2>11, <2>12
  <2> QED
    BY <2>7, <2>8, <2>10, <2>13, <2>14
<1>2. ASSUME OrderInv, NEW s \in Signers
      PROVE  /\ \A c \in 1..(worker[s].chunk - 1) : Landed(s, <<run, c>>)
             /\ \A p \in DOMAIN ran[s] : ran[s][p].payload[1] = run =>
                  ran[s][p].payload[2] <= worker[s].chunk
  <2>1. BenchTypes /\ ChainBegun(s) /\ worker[s].chunk \in Nat \ {0} /\ run \in Nat
    BY <1>2 DEF OrderInv, SignerInv, BenchTypes, WorkerStates
  <2>2. ASSUME NEW p \in DOMAIN ran[s], ran[s][p].payload[1] = run
        PROVE  ran[s][p].payload[2] <= worker[s].chunk
    <3>1. Begun(s, ran[s][p].payload) /\ ran[s][p].payload \in Batches
      BY <2>1, EntryTypes DEF ChainBegun
    <3> QED
      BY <2>1, <2>2, <3>1 DEF Begun, Earlier, Cur, Batches
  <2> QED
    BY <2>1, <2>2 DEF ChainBegun
<1>3. OrderInv /\ CountInv /\ ReportInv => ReportMatchesChain
  BY <1>1, <1>2 DEF ReportMatchesChain
<1> QED
  BY <1>3, OrderAlways, CountAlways, ReportAlways, PTL
=============================================================================
