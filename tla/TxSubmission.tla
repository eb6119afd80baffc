---------------------------- MODULE TxSubmission ----------------------------
(***************************************************************************)
(* midds-client submitting transactions (PalletApi::submit,                *)
(* deposit_batch_inner, wait_for_in_block), and the node it submits them   *)
(* to, as the client meets it.                                             *)
(*                                                                         *)
(* One submission per signer at a time: it is prepared at the best block,  *)
(* signed under the nonce the caller gives or, without one, the account's  *)
(* nonce at that block, sent to the pool and watched.  A transient error   *)
(* starts the preparation again, and nothing tells whether it came before  *)
(* or after the pool took the transaction.  The node is external: it takes *)
(* one transaction per nonce, runs them in the order of the nonces, and    *)
(* may drop one it holds.  The best chain never goes back.                 *)
(***************************************************************************)
EXTENDS Integers, Sequences, FiniteSets

CONSTANTS
  Signers,
  AutoNonce,       \* no explicit nonce (nonce: None)
  MaxPrepRetries,  \* MAX_PREP_RETRIES
  MaxOutside       \* transactions of other programs under the same keys, for the model

ASSUME SubmissionAssumption ==
  /\ AutoNonce \notin Nat
  /\ MaxPrepRetries \in Nat /\ MaxOutside \in Nat

VARIABLES
  account,   \* each signer's nonce at the best block
  pool,      \* the transactions the node holds: records [signer, nonce, payload, auto]
  sub,       \* each signer's submission
  ran,       \* per signer: the transactions of this client in the chain, in order
  outside    \* transactions of other programs so far

subVars == <<account, pool, sub, ran, outside>>

Idle == [at |-> "idle", payload |-> <<>>, given |-> AutoNonce, nonce |-> 0, tries |-> 0]

InitSubmission ==
  /\ account = [s \in Signers |-> 0] /\ pool = {} /\ outside = 0
  /\ sub = [s \in Signers |-> Idle]
  /\ ran = [s \in Signers |-> <<>>]

Landed(s, payload) == \E p \in DOMAIN ran[s] : ran[s][p].payload = payload /\ ran[s][p].ok

-----------------------------------------------------------------------------
(* The client.                                                             *)

Begin(s, payload, given) ==
  sub' = [sub EXCEPT ![s] = [at |-> "preparing", payload |-> payload, given |-> given,
                             nonce |-> 0, tries |-> 0]]

\* The submission of s, with the same payload and the same explicit nonce.
Moved(s, at, nonce, tries) ==
  [at |-> at, payload |-> sub[s].payload, given |-> sub[s].given,
   nonce |-> nonce, tries |-> tries]

Answer(s, answer) ==
  sub' = [sub EXCEPT ![s] = Moved(s, answer, sub[s].nonce, sub[s].tries)]

\* Mutant of NonceFor: a retry looks the nonce up again.
NonceReread(s) == account[s]

NonceFor(s) == IF sub[s].given = AutoNonce THEN account[s] ELSE sub[s].given

\* at_best_block and signing.
Prepare(s) ==
  /\ sub[s].at = "preparing"
  /\ sub' = [sub EXCEPT ![s] = Moved(s, "sending", NonceFor(s), sub[s].tries)]
  /\ UNCHANGED <<account, pool, ran, outside>>

Retried(s) == Moved(s, "preparing", sub[s].nonce, sub[s].tries + 1)

\* transient_at_block_error, with the transaction still here.
Retry(s) ==
  /\ sub[s].at \in {"preparing", "sending"} /\ sub[s].tries < MaxPrepRetries
  /\ sub' = [sub EXCEPT ![s] = Retried(s)]
  /\ UNCHANGED <<account, pool, ran, outside>>

\* Any other error, one too many, or one of the first at_best_block of a batch.
Fail(s) ==
  /\ sub[s].at \in {"preparing", "sending"}
  /\ Answer(s, "err")
  /\ UNCHANGED <<account, pool, ran, outside>>

Transaction(s) ==
  [signer |-> s, nonce |-> sub[s].nonce, payload |-> sub[s].payload,
   auto |-> sub[s].given = AutoNonce]

\* "Transaction is outdated", or the pool holds one under that nonce.
Refused(s) ==
  \/ sub[s].nonce < account[s]
  \/ \E t \in pool : t.signer = s /\ t.nonce = sub[s].nonce

Send(s) ==
  /\ sub[s].at = "sending"
  /\ \/ Refused(s) /\ Answer(s, "err") /\ UNCHANGED pool
     \/ /\ ~Refused(s)
        /\ pool' = pool \cup {Transaction(s)}
        /\ \/ Answer(s, "watching")
           \/ sub[s].tries < MaxPrepRetries /\ sub' = [sub EXCEPT ![s] = Retried(s)]
           \/ Answer(s, "err")
  /\ UNCHANGED <<account, ran, outside>>

\* The status stream ends or breaks; the transaction does not.
LoseStream(s) ==
  /\ sub[s].at = "watching"
  /\ Answer(s, "err")
  /\ UNCHANGED <<account, pool, ran, outside>>

ClientStep(s) == Prepare(s) \/ Retry(s) \/ Fail(s) \/ Send(s)

-----------------------------------------------------------------------------
(* The node.                                                               *)

Watched(t) == sub[t.signer].at = "watching" /\ sub[t.signer].nonce = t.nonce

\* A batch is all or nothing; a payload that is there already is refused
\* (DuplicatePayload).  The answer can still get lost on the way back.
Include(t) ==
  /\ t.nonce = account[t.signer]
  /\ account' = [account EXCEPT ![t.signer] = @ + 1]
  /\ pool' = pool \ {t}
  /\ \E ok \in IF Landed(t.signer, t.payload) THEN {FALSE} ELSE BOOLEAN :
       /\ ran' = [ran EXCEPT ![t.signer] =
                    Append(@, [payload |-> t.payload, ok |-> ok, auto |-> t.auto])]
       /\ IF ~Watched(t) THEN UNCHANGED sub
          ELSE \E answer \in IF ok THEN {"ok", "err"} ELSE {"err"} : Answer(t.signer, answer)
  /\ UNCHANGED outside

\* Error, Invalid or Dropped.
Drop(t) ==
  /\ pool' = pool \ {t}
  /\ IF Watched(t) THEN Answer(t.signer, "err") ELSE UNCHANGED sub
  /\ UNCHANGED <<account, ran, outside>>

\* A transaction of somebody else who holds the key.
OutsideUse(s) ==
  /\ outside < MaxOutside /\ outside' = outside + 1
  /\ account' = [account EXCEPT ![s] = @ + 1]
  /\ UNCHANGED <<pool, sub, ran>>

\* The node settles what it can run and what it never can.  A transaction
\* ahead of its account's nonce it may keep for ever.
Settle(s) ==
  \E t \in pool : t.signer = s /\ t.nonce <= account[s] /\ (Include(t) \/ Drop(t))

NodeStep == \/ \E t \in pool : Include(t) \/ Drop(t)
            \/ \E s \in Signers : OutsideUse(s) \/ LoseStream(s)
=============================================================================
