------------------------------ MODULE Balances ------------------------------
(***************************************************************************)
(* The part of the currency (pallet_balances behind T::Currency) that      *)
(* pallet-midds uses: free balances, one hold reason (HoldReason::Deposit) *)
(* and the MutateHold calls.  A ledger is a record of two functions of the *)
(* account; each call has a guard and a resulting ledger.  Modelled from   *)
(* how pallet-midds uses it.                                               *)
(***************************************************************************)
EXTENDS Integers

CONSTANTS
  Users,     \* accounts that deposit, sponsor or own records
  Treasury,  \* T::TreasuryAccount
  ED         \* existential deposit

ASSUME BalancesAssumption ==
  /\ Treasury \notin Users
  /\ ED \in Nat

Accounts == Users \cup {Treasury}

Ledger == [free : [Accounts -> Nat], held : [Accounts -> Nat]]

\* What an account owns: a hold moves no money between accounts.
Wealth(b, a) == b.free[a] + b.held[a]

\* MutateHold::hold: the free balance stays above the existential deposit.
CanHold(b, a, n) == b.free[a] >= ED + n
Hold(b, a, n) ==
  [free |-> [b.free EXCEPT ![a] = @ - n],
   held |-> [b.held EXCEPT ![a] = @ + n]]

\* MutateHold::release, Precision::Exact.
CanRelease(b, a, n) == b.held[a] >= n
Release(b, a, n) ==
  [free |-> [b.free EXCEPT ![a] = @ + n],
   held |-> [b.held EXCEPT ![a] = @ - n]]

\* MutateHold::transfer_on_hold to a free balance, Precision::Exact: the
\* receiver must not be left under the existential deposit.
CanTransferOnHold(b, a, to, n) ==
  /\ b.held[a] >= n
  /\ b.free[to] + n >= ED
TransferOnHold(b, a, to, n) ==
  [free |-> [b.free EXCEPT ![to] = @ + n],
   held |-> [b.held EXCEPT ![a] = @ - n]]

\* A plain transfer by the account's owner.  An account with a hold keeps its
\* existential deposit; one without may be emptied.
CanTransfer(b, from, to, n) ==
  /\ from # to
  /\ b.free[from] >= n
  /\ b.free[from] - n >= ED \/ (b.free[from] = n /\ b.held[from] = 0)
  /\ b.free[to] + n >= ED
Transfer(b, from, to, n) ==
  [free |-> [b.free EXCEPT ![from] = @ - n, ![to] = @ + n],
   held |-> b.held]
=============================================================================
