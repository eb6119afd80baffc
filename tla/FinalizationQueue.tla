------------------------- MODULE FinalizationQueue -------------------------
(***************************************************************************)
(* The finalization queue of pallet-midds: the storage double map          *)
(* PendingFinalization (expiry block, id) and the eager sweep that          *)
(* on_initialize runs over it from the rolling cursor                       *)
(* NextFinalizationScan.  One step is one storage layer: the hook of a      *)
(* block is BeginBlock, then one ProbePrefix per iteration of its while     *)
(* loop and one FinalizeOk or FinalizeErr per id an iteration collected,    *)
(* then EndHook; extrinsics follow in the "dispatch" phase.                 *)
(*                                                                         *)
(* What a record is, and why settling it can fail, is left to MiddsPallet, *)
(* which instantiates this module for its own queue.                        *)
(***************************************************************************)
EXTENDS Integers, FiniteSets

CONSTANTS
  Ids,              \* record ids
  Window,           \* T::CommitmentWindow
  Cap,              \* T::MaxFinalizationsPerBlock
  MaxPerPrefix,     \* how many deposits one block can accept
  FirstBlock,       \* the block the pallet first runs at: 1 from genesis
  CanFail,          \* the records whose settlement may return an error
  LastDepositBlock, \* bound: no deposit after this block
  LastBlock         \* bound: no block after this one

\* A MiddsId is a machine integer: there are finitely many.
ASSUME QueueAssumption ==
  /\ IsFiniteSet(Ids)
  /\ Window \in Nat \ {0}
  /\ Cap \in Nat \ {0}
  /\ MaxPerPrefix \in Nat
  /\ FirstBlock \in Nat \ {0}
  /\ CanFail \subseteq Ids
  /\ LastDepositBlock \in Nat
  /\ LastBlock \in Nat

VARIABLES
  block,      \* frame_system's block number
  phase,      \* "hook": on_initialize runs; "dispatch": extrinsics run
  cursor,     \* NextFinalizationScan
  remaining,  \* finalizations this hook may still collect
  probes,     \* prefixes this hook may still probe
  due,        \* ids the last probe collected and not yet finalized
  pending,    \* PendingFinalization, as a set of <<expiry, id>>
  skipped     \* history: ids whose eager finalization returned an error

vars == <<block, phase, cursor, remaining, probes, due, pending, skipped>>
hookVars == <<block, phase, cursor, remaining, probes, due>>

-----------------------------------------------------------------------------
\* PendingFinalization::iter_prefix(e)
Prefix(e) == {id \in Ids : <<e, id>> \in pending}

\* iter_prefix(e).take(remaining): some `remaining` ids, in storage order,
\* or all of them when there are fewer.
Takes(e) ==
  {ids \in SUBSET Prefix(e) :
     \/ ids = Prefix(e) /\ Cardinality(ids) <= remaining
     \/ Cardinality(ids) = remaining}

\* Genesis (block 0) runs neither the hook nor a call.  A pallet added to a
\* chain later starts with the cursor's default all the same.
Init ==
  /\ block = FirstBlock
  /\ phase = "hook"
  /\ cursor = 0
  /\ remaining = Cap
  /\ probes = Cap
  /\ due = {}
  /\ pending = {}
  /\ skipped = {}

\* Mutant of BeginBlock: the finalization budget is carried over.
BeginBlockKeepingBudget ==
  /\ phase = "dispatch"
  /\ block < LastBlock
  /\ block' = block + 1
  /\ phase' = "hook"
  /\ probes' = Cap
  /\ UNCHANGED <<cursor, remaining, due, pending, skipped>>

\* The executive initializes the next block.
BeginBlock ==
  /\ phase = "dispatch"
  /\ block < LastBlock
  /\ block' = block + 1
  /\ phase' = "hook"
  /\ remaining' = Cap
  /\ probes' = Cap
  /\ UNCHANGED <<cursor, due, pending, skipped>>

\* Mutants of Scanning: the bound on the cursor is off by one.
ScanningAhead == cursor <= block + 1 /\ remaining > 0 /\ probes > 0
ScanningShort == cursor < block /\ remaining > 0 /\ probes > 0

\* The condition of the hook's while loop, between two iterations.
Scanning ==
  /\ cursor <= block
  /\ remaining > 0
  /\ probes > 0

\* Mutant of ProbePrefix: the cursor leaves a prefix the budget cut short.
ProbeAndLeave ==
  /\ phase = "hook"
  /\ due = {}
  /\ Scanning
  /\ \E ids \in Takes(cursor) :
       /\ due' = ids
       /\ remaining' = remaining - Cardinality(ids)
       /\ probes' = probes - 1
  /\ cursor' = cursor + 1
  /\ UNCHANGED <<block, phase, pending, skipped>>

\* One iteration: collect the ids due under the cursor's prefix, charge the
\* budgets, and advance the cursor if both are left.
ProbePrefix ==
  /\ phase = "hook"
  /\ due = {}
  /\ Scanning
  /\ \E ids \in Takes(cursor) :
       /\ due' = ids
       /\ remaining' = remaining - Cardinality(ids)
       /\ probes' = probes - 1
       /\ cursor' = IF remaining - Cardinality(ids) > 0 /\ probes - 1 > 0
                      THEN cursor + 1
                      ELSE cursor
  /\ UNCHANGED <<block, phase, pending, skipped>>

\* do_finalize of one collected id, committed by its storage layer.
FinalizeOk(e, id) ==
  /\ phase = "hook"
  /\ id \in due
  /\ due' = due \ {id}
  /\ pending' = pending \ {<<e, id>>}
  /\ UNCHANGED <<block, phase, cursor, remaining, probes, skipped>>

\* The same, when settling the bond fails: the layer rolls back and the loop
\* goes on.
FinalizeErr(id) ==
  /\ phase = "hook"
  /\ id \in due
  /\ due' = due \ {id}
  /\ skipped' = skipped \cup {id}
  /\ UNCHANGED <<block, phase, cursor, remaining, probes, pending>>

EndHook ==
  /\ phase = "hook"
  /\ due = {}
  /\ ~Scanning
  /\ phase' = "dispatch"
  /\ UNCHANGED <<block, cursor, remaining, probes, due, pending, skipped>>

\* do_deposit files the new record under its expiry block.
Enqueue(id) ==
  /\ phase = "dispatch"
  /\ pending' = pending \cup {<<block + Window, id>>}
  /\ UNCHANGED <<hookVars, skipped>>

\* do_finalize (by the extrinsic) and cleanup_storage drop the entry.
Dequeue(e, id) ==
  /\ phase = "dispatch"
  /\ pending' = pending \ {<<e, id>>}
  /\ UNCHANGED <<hookVars, skipped>>

\* A call that leaves the queue alone.
QueueIdle ==
  /\ phase = "dispatch"
  /\ UNCHANGED vars

-----------------------------------------------------------------------------
\* The queue on its own: any id is deposited once, and removed or finalized
\* by an extrinsic at any time.
Deposit(id) ==
  /\ block <= LastDepositBlock
  /\ \A p \in pending : p[2] # id
  /\ id \notin skipped
  /\ Cardinality(Prefix(block + Window)) < MaxPerPrefix
  /\ Enqueue(id)

Next ==
  \/ BeginBlock
  \/ ProbePrefix
  \/ \E p \in pending : FinalizeOk(p[1], p[2])
  \/ \E id \in CanFail : FinalizeErr(id)
  \/ EndHook
  \/ \E id \in Ids : Deposit(id)
  \/ \E p \in pending : Dequeue(p[1], p[2])

\* Blocks keep being produced and their hooks run to the end; nobody has to
\* deposit, remove or finalize anything.
HookStep ==
  \/ BeginBlock
  \/ ProbePrefix
  \/ \E p \in pending : FinalizeOk(p[1], p[2])
  \/ \E id \in CanFail : FinalizeErr(id)
  \/ EndHook

Spec == Init /\ [][Next]_vars
FairSpec == Spec /\ WF_vars(HookStep)

-----------------------------------------------------------------------------
TypeOK ==
  /\ block \in Nat
  /\ phase \in {"hook", "dispatch"}
  /\ cursor \in Nat
  /\ remaining \in Nat
  /\ probes \in Nat
  /\ due \in SUBSET Ids
  /\ pending \in SUBSET (Nat \X Ids)
  /\ skipped \in SUBSET Ids

\* The eager sweep never takes a record before its window has elapsed:
\* on_initialize does not check the window, it relies on the prefix it reads
\* never lying in the future (lib.rs:594).
NeverEarly ==
  \A p \in pending : p[2] \in due => p[1] <= block

\* What the cursor has passed holds only ids still being finalized or ids
\* whose settlement failed: no deposit is ever filed behind the cursor, and
\* the cursor leaves no prefix with an entry it did not try.
CursorSound ==
  \A p \in pending : p[1] < cursor => p[2] \in due \cup skipped

\* From genesis, with a budget of at least two probes and no more deposits a
\* block than finalizations a block, no record outlives its window: when the
\* extrinsics of a block run, everything due has been finalized.
PromptFinalization ==
  phase = "dispatch" => \A p \in pending : p[1] > block

\* Whatever was filed is finalized or removed in the end, unless its
\* settlement failed ("Leftover entries are picked up by subsequent blocks'
\* on_initialize", lib.rs:164): checked up to LastBlock, with the deposits
\* ending at LastDepositBlock.
Drained == {p[2] : p \in pending} \subseteq skipped
BacklogDrains == <>[]Drained
=============================================================================
