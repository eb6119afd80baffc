# TLA+ models of the MIDDS SDK

Specifications of the parts of this repository whose correctness depends on
the order of steps or on rules that many definitions share: the Substrate pallet
that stores music-industry records (`pallets/pallet-midds`), the way its records
are looked up and signed for, the client-side programs that submit to it, and the
way a record is entered, built, generated and validated. Each module is a
translation of the source it names in its header; `PROJECT.json` maps every
definition to its lines.

## 1. The system

| Component | State it keeps | Operations | Interacts with |
|---|---|---|---|
| Finalization queue (`pallet-midds/src/lib.rs`) | `PendingFinalization`, `NextFinalizationScan` | `on_initialize` sweep; filing and dropping entries | registry, currency |
| Registry and bond escrow (`lib.rs`, `impls.rs`, `types.rs`) | `NextMiddsId`, `Items`, `IdentifierClaims`, `PayloadHashes`, `DepositInfo`, `OnBehalfNonce`, `DepositBase`, `DepositPerByte` | 13 extrinsics | queue, pricing, currency |
| Dynamic pricing (`multipliers.rs`) | demand counter, 7 daily buckets, `M_fast`, `M_slow` | per-block and per-day adjustment, demand recording | read by every deposit |
| Currency (external, `pallet_balances`) | free balance and hold of each account | hold, release, transfer_on_hold | called by the registry |
| Authorizations (`impls.rs`, `types.rs`) | `OnBehalfNonce` of each instance; the messages owners have signed are out in the world | check and use up a signed message | registry, relayers |
| Lookup (`impls.rs`, runtime API, RPC) | none (reads `IdentifierClaims`) | first page, next page, count, at a block or at the best one | RPC consumers |
| Client library (`crates/midds-client`) | a submission in progress | prepare, sign, send, retry, wait for inclusion | node |
| Bench workers and funding (`crates/midds-cli`) | per-worker nonce and position, semaphore, event channel, counters, stop flag | fund, spawn, submit a batch, give up, count, report | client library |
| Types and validation (`crates/midds-types`, `midds-traits`) | none | `validate_format` of the three records | registry |
| Parsers, check digits, builders (`crates/midds-validate`) | a builder's draft | setters, `build`, parse, verify | types |
| Command line (`crates/midds-cli`, `create/`) | the answers so far | prompt, validate, enter again, write | parsers, types |
| Fixtures (`crates/midds-fixtures`) | a seeded generator | records of a batch, smallest, largest, arbitrary, spoilt | types, bench workers |
| End-to-end harness, code generator | none of interest | polling, generation | |

The pallet is single threaded but far from sequential in effect: any account,
governance and the block hook interleave at the granularity of one extrinsic
or one storage layer, and every record has up to three parties (owner,
sponsor, Treasury) whose money one party's call moves. What is hard:

* **order**: edits, cancellations and finalization compete around the expiry
  block; owner and sponsor edit the same record in any order;
* **budgets**: the sweep is bounded in finalizations and in prefixes, and must
  neither skip nor strand an entry;
* **partial failure**: a settlement may fail after its first transfer (the
  Treasury below the existential deposit), inside the hook or inside a batch;
* **redundant state**: four maps and a queue describe the same records, and
  the queue entry is found again by recomputing its key;
* **arithmetic**: saturating subtraction decides whether a layer has a
  premium, with a different path below it;
* **delivery**: a signed message can arrive late, twice or at the wrong
  instance, and a transaction whose status was lost can still get into a block;
* **stale reads**: a worker counts its own nonce, and a reader pages over claims
  that come and go;
* **two judges**: a record is checked when it is built, by parsers and bounds, and
  again by the chain, by formats and rules between fields; they must agree.

What makes each component correct:

* *queue*: nothing is finalized before its window; everything is finalized or
  removed in the end; nothing is passed over untried;
* *registry*: the maps and the queue agree; an id names one deposit for ever; a
  finalized record is permanent;
* *escrow*: an account's hold is the sum of its layers; each party loses only
  what its own layers forfeit; premiums are sticky; bases follow the formula;
* *pricing*: multipliers stay in their range and move with demand over the
  last seven days;
* *authorizations*: a signature is good once, for one call, one instance, one
  chain;
* *lookup*: pages concatenate to the whole claim set;
* *workers*: every requested record is counted once, as succeeded or failed, the
  count agrees with the chain, and the run ends;
* *record entry*: every fault of a draft is reported and nothing is lost from a
  good one; what parsers emit, builders build and the form accepts is what the
  chain accepts;
* *fixtures*: each record is judged as it was made to be, and the identifiers of
  a batch are distinct.

## 2. Modules

| Module | Models |
|---|---|
| `FinalizationQueue` | the queue and the sweep; a deposit is only an id |
| `Balances` | the currency as the pallet uses it (external) |
| `BondLayers` | pure operators on a record's two layers and a ledger: routing of an edit, settlement |
| `MiddsPallet` | one pallet instance: all extrinsics, the hook, governance |
| `DynamicPricing` | demand counters, daily buckets, the two multipliers in scaled integers |
| `OnBehalfAuth` | several instances on several chains, and the messages owners have signed |
| `ClaimLookup` | pure operators: the bounded scan of an identifier's claims, pages, the count |
| `Catalog` | `OnBehalfAuth` and `ClaimLookup` together: a reader pages while messages take effect |
| `TxSubmission` | the client's submission of one batch, and the node as the client meets it (external) |
| `BenchRun` | `seed`, `seed all`, `bench throughput` and `bench fees` over `TxSubmission` |
| `Identifiers` | characters, parsers, canonical formats and check digits of the six identifiers |
| `MiddsTypes` | the three payloads and `validate_format`, rule by rule in the code's order |
| `ClientInputs` | what a program or a user can type for each field |
| `RecordBuilders` | the three builders: setters and `build()` with its diagnostics |
| `CreateWizard` | the prompts of `midds create`, in order, and the answers each lets through |
| `Fixtures`, `FixtureStrategies` | the generated records, each with the error it is made for, or none |
| `RecordEntry` | the four sessions in which a payload comes to be: builder, form, single identifier, generator |
| `*_proofs` | theorems about the module of that name (`MiddsPallet_proofs`: also `Spec => Queue!Spec`; `Catalog_proofs`: also `ClaimLookup`; `Identifiers_proofs`: also sequences) |
| `SumLemmas` | what the proofs need of sums over finite sets and of quotients |
| `MC*` | instances for TLC |

`MiddsPallet` extends `BondLayers`, which extends `Balances`, and instantiates
`FinalizationQueue` on its own variables: the queue part of each call *is* the
corresponding action of that module (`Queue!Enqueue`, `Queue!Dequeue`,
`Queue!ProbePrefix`, ...), and the run `pallet_ledger` checks that the whole
pallet, seen through those eight variables, satisfies `Queue!Spec`.

### How code becomes actions

* **Storage layer = step.** A user extrinsic is transactional, so an action is
  the *successful* call: its guard is the conjunction of all the checks the
  call makes and of every `CanHold`, `CanRelease` and `CanTransferOnHold` met on
  the way, and a failing call is a stutter. `on_initialize` and
  `force_remove_many` do not roll back as a whole: the hook is `BeginBlock`,
  one `ProbePrefix` per iteration of its loop, one `FinalizeDue` per collected
  id, `EndHook`; the batch is `ForceRemoveMany`, then one `BatchStep` per
  request. Nothing else runs until they end (`phase`, `batch`).
* **Failing entries** are explicit: `FinalizeDue` and `BatchStep` have a
  disjunct for the entry whose settlement is refused, which changes nothing
  but the progress of the loop.
* **Data.** A payload is a record of its canonical identifier and its encoded
  size and stands for its own hash (collisions are not modelled). An owner's
  signature is membership of the authorization in the set `Signed`.
  `M_fast x M_slow` is one fraction, chosen again at each block from
  `Multipliers`; `DynamicPricing` shows that the multipliers move in the hook
  alone, one block at a time, and models how.
* **Fixed point** (`DynamicPricing`). A `FixedU128` is an integer in units of
  1/`Scale`. Products and ratios round down and the reciprocal to the nearest,
  as `sp-arithmetic` does; the u32 counters saturate at `CounterMax`. The pricing
  part of `on_initialize` is one step, since nothing in it can fail. The block
  number is kept as its place in the day (0 only at genesis), so time has no
  bound. `recent` is a history variable: the demand of each of the last days,
  which the code does not keep and the buckets must agree with.
* **Messages** (`OnBehalfAuth`). A message is a signer and a payload, with the
  genesis hash and the kind it names; a call offers one to *any* instance, and
  `Verifies` rebuilds the payload from that instance and the call's arguments, as the
  pallet does. `done` is a history of what was carried out where. Two branches
  of a fork share a genesis hash and are one chain here. An owner's own calls
  are the fixed set `OwnCalls`; a record touched by one is marked `by_hand`, since
  it then need not be what the last message said.
* **Reading** (`Catalog`). A block's calls are seen by a reader only once the
  block is imported (`sealed`). `HashRank` is the storage order of the ids, the
  order of their hashes; any injective one is allowed.
* **The node** (`TxSubmission`) is external: one transaction per nonce, run in
  the order of nonces, any of them dropped at any time. A submission is a
  small state machine per signer. Retrying happens before and after the pool has
  taken the transaction, which the client cannot tell apart.
* **Workers** (`BenchRun`) are the tokio tasks: each step is what runs between two
  awaits. The channel is a sequence, the semaphore the number of workers at work.
* **Texts** are their lengths, before and after trimming, in bytes; identifiers are
  sequences of characters, because their rules are about characters. Genres,
  roles and instruments are cut down to two or three members.
* **A build** collects diagnostics as pairs of a field and an entry of its list;
  the words of the message are left out. The constant `Parsed` is
  the table of the parsers over the identifiers that are typed (`ParsedCodes`), so that each
  is parsed once.
* **Focus** (`RecordEntry`). A session varies the fields of one set of `focus` in
  full and keeps the others at sample values (those of the test builders' records in
  the form and the generators); `MCFocuses` has every
  field alone and every pair that a rule compares. A random choice of a generator
  is any choice, a range its two ends, a weight left out.
* **Balances** are unbounded integers: the saturating operations whose
  saturation at zero matters (`SatSub`) keep it, saturation at the type's
  maximum is left out. The type invariant shows that nothing goes below zero.

## 3. Runs

| Run | Question | Result |
|---|---|---|
| `queue_prompt` | 4 records, at most 3 deposits a block, budget 3, window 2, no failure, from genesis | each record is finalized by the hook of its expiry block, never before |
| `queue_backlog` | 4 records, 3 deposits a block against a budget of 2, one settlement that may keep failing, on a chain the pallet joins at block 3 with its cursor at 0 | the cursor skips nothing untried; the backlog drains |
| `queue_cap_one` | budget 1 | **violation**: the cursor never moves |
| `pallet_ledger` | one account, two records, three valid payloads and one invalid, removals in batches of two, a Treasury that starts under the existential deposit | holds, maps and queue agree; ids are never reused; the pallet refines the queue |
| `pallet_sponsored` | one record sponsored by `bob` for `alice`, edited by both and by governance, three prices, a changing base | layers belong to their payers, keep their premium, follow the formula and settle apart; a finalized record is closed to its owner, its sponsor and the messages signed for it, and what the force origin does to it moves no money |
| `pallet_shrink` | the same at a fixed formula | **violation**: the owner's update raises the sponsor's hold |
| `pricing` | both multipliers, up to one and a half times the target a block, a window of two days of two blocks, counters saturating at 3, unbounded time | they stay in range, move with demand (`M_slow` at rollovers, by the whole window), opposite deviations cancel, each bucket holds its day, and demand that has stopped is forgotten |
| `record_entry` | every session, each field with good, odd and bad entries, lists of up to one more than the bound, six identifiers with every single slip, batches with places up to 10^8 - 1 | every fault of a draft is named and nothing is lost from a good one; the chain refuses of what was built only what `build()` leaves to it; the chain refuses a form exactly when two of its answers clash; parsers emit canonical codes; check digits catch slips; generated records are judged as meant |
| `ipi_digits` | an IPI typed with one digit that is not ASCII | **violation**: parsed to a code the pallet refuses |
| `fixture_max` | a batch with the place 1 | **violation**: the largest work cites itself |
| `catalog` | two kinds on one chain and one on another, five messages for two operators, owners' own calls, three records, a scan of two, pages of one and two | a message takes effect at most once, on its own instance, and the record is what the last one said; a listing repeats nothing, invents nothing and misses nothing that was there all along while the scan suffices; count and listing agree |
| `bench_run` | each command over two signers, five or three records in batches of two, one retry, one outside use of a key | batches land in order, reports match the chain, counts add up, every run ends |

Every property of a passing run has a mutant, an operator placed before the
definition it changes; `PROJECT.json` says which property it breaks.

### Bounds

* Blocks stop at `LastBlock` (4 to 11): the window is 1 or 2, so a record goes
  through open window, expiry block and at least one block after it. In the
  liveness runs deposits stop at `LastDepositBlock` early enough for the budget
  to catch up; that is what is claimed, a backlog drains when the load ends.
* Two records are enough for two records to share a payload, an identifier, a
  payer and a removal batch; four in the queue runs, where overflow of a
  prefix over several blocks is what matters.
* Sizes 2 and 3 with base 1 and 3 and multipliers 1/2, 1 and 3 give layers
  banked below, at and above their base, shrinks that stay in one layer and
  shrinks that overflow into the other.
* `TransferAmounts` has one amount, the existential deposit: enough for the
  Treasury to become able to receive, and for an account to run short.
* Pricing: the load reaches one and a half times the target on each side of it,
  where up and down steps are still symmetric, both ranges are reached at both
  ends, and two busy blocks pass `CounterMax`. Two days are enough for a rotation to
  come round to the first bucket; the theorem covers every number of them.
* `catalog`: the scan of two is exceeded by the three records, so that both the
  listings it promises to be complete and those it does not occur (`crowded`);
  `MCHashRank` makes storage order differ from the order of ids. The messages
  share nonces between two operators and two kinds, one is for the wrong record,
  and expiry falls inside the two blocks of the main chain.
* `bench_run`: with one permit for two workers, one waits for the other. Five
  records are a full and a partial batch for one signer and a full one for the other, so
  that batches differ in size and a retried or dropped transaction meets the next one;
  `seed all` with three records has three sub-runs. With a count of 0 the commands
  do nothing; it is left out.
* `record_entry`: the bounds of texts (3) and lists (2) are small and the entries
  reach one past them; the places of a batch are one on each side of every digit
  that `isrc_for_index` moves. From place 10^8 on its year wraps and the code of
  place 0 comes back, far past what a run deposits. The run accepts the largest work
  at the places 3 and 10 only because `ListMax` is 2 and it cites that many codes; with the
  code's bounds the places 1 to 64 fail (`fixture_max`).
* Deadlock is not checked where the system may stop: the queue, pallet and
  catalog models at `LastBlock` with nothing left to call, a bench run at its
  report, a session at its outcome. The pricing model never stops, and is
  checked for deadlock.

### Fairness

`FairSpec` is weak fairness of `HookStep`: block production goes on and the
executive runs a block's hook to its end. No extrinsic is fair: nobody has to
call `finalize`, so `BacklogDrains` is about the eager sweep alone. Likewise
`DynamicPricing` has weak fairness of `BeginBlock` only: blocks keep coming, and
`DemandForgotten` assumes nothing of users but that they have stopped.

`BenchRun!Spec` has weak fairness of each worker's step, of the consumer, of the main
task, and of the node settling (running or dropping) a signer's transactions that can
run or never will: the executor runs every task that is ready, and a pool does not sit
on a transaction whose turn it is. A transaction ahead of its account's nonce may stay
for ever, the status stream need not break, no retry succeeds by assumption, and
nobody has to stop the clock.

### What the violations say

1. `queue_cap_one`. The cursor advances only `if remaining > 0 &&
   probes_remaining > 0` *after* the probe was charged (`lib.rs:599-617`). With
   `MaxFinalizationsPerBlock = 1` it stays at prefix 0; with n it moves n - 1
   prefixes a block, so it needs n >= 2 to keep pace with the chain at all.
   The theorem `FinalizationIsPrompt` needs exactly that assumption.
2. `pallet_shrink`. A sponsor's layer banked at M < 1 has `amount < base`. An
   owner's shrink that overflows into it recomputes `amount` as the new base and
   *holds* the difference from the sponsor. `SponsorExposureBounded` is what
   does hold: never above the unmultiplied price.
3. `ipi_digits`. `\d` in the pattern of an IPI takes every decimal digit of
   Unicode, and the padding counts bytes: a two-byte digit becomes nine zeros and
   that digit, eleven bytes, which the type accepts and the chain's format does not. In ASCII,
   `ParsedIsCanonical` holds (`record_entry`).
4. `fixture_max`. The largest work has the code 0 and cites the codes from 1 on. In
   a batch its own code is replaced by that of its place, so the works at
   places 1 to 64 cite themselves and the pallet refuses them.

Other divergences came up while modelling and are not runs:

* `docs/economics.md` (5.1, 5.3) announces that a tenfold burst takes `M_fast` to 5
  to 10 times. The up step multiplies by `1 + rate * (observed - target) / target`
  (`multipliers.rs:141-144`): 1 + 0.125 * 9 = 2.125 for 1000 deposits against 100.
* `explain` has one hint for every `CrossFieldInconsistency`: "a recording appears twice in the
  tracklist" (`create/mod.rs:86-88`). A form also fails with that error when a work cites
  itself or one work twice, and when two tracks have one number. Two other lines of the file
  name failures that `FormRefusedForClashes` shows never to come out of a form, whose
  prompts ask for two sources, one creator, one track and numbers in range: "medley < 2
  sources", its first example of a failing form (60-61), and the hints for
  `OutOfBounds` and `EmptyMandatoryField` (89-92).
* An entry of the queue whose `do_finalize` failed stays behind the cursor, and only
  the `finalize` extrinsic reaches it; `CursorSound` is the statement that does hold.

## 4. Proofs

Every safety and action property of a passing run has a theorem, except two of
record entry. Each theorem holds for every value of the constants that the named
assumptions of its module allow.

`SumLemmas` serves the others. The sums of the models (`SumFunction`) are folds over a
set, which take their elements with `CHOOSE`. There is no induction rule the
provers could use, but there is well-foundedness: a statement about all subsets of a
finite set is proved by taking a least subset where it fails (`LeastSubset`). So it is shown
that the fold's recursion is well defined, and from that what sums do: `SumUpdate`
(one entry changes), `SumPlus`, `SumAppend`, `SumAtMost`, `SumShift` (a renumbering
keeps the sum), `SumConst`.

### The queue

`FinalizationQueue_proofs` proves, for every set of ids, window, budget and
load, from `QueueAssumption` alone:

* `TypeCorrect`: `Spec => []TypeOK`. The budgets stay natural numbers because
  `Takes` never has more than `remaining` members (`TakesBounded`);
* `NothingFinalizedEarly`, `CursorIsSound`: both from one inductive invariant,
  `SweepInv`. `NeverEarly` and `CursorSound` are not inductive: one needs to know that
  ids in `due` come from the prefix the cursor is at or has just left, that
  no id is filed twice, and that the cursor is at most one past the block;
* `FinalizationIsPrompt`: with `Cap >= 2`, `MaxPerPrefix <= Cap` and no failing
  settlement, `PromptFinalization` holds. The inductive invariant `PromptInv`
  adds that at the end of a hook the cursor stands at the block or just after
  it, so that the next hook has at most two prefixes to look at and enough
  budget for the one that can be full.

Type correctness of the queue is proved and not run: `NeverEarly` and `CursorSound` read
every variable it types.

### The pallet

The first part of `MiddsPallet_proofs` is about pure operators: a hold, release,
transfer or settlement whose guard holds leaves every balance a natural number;
`RouteSizeDeltaFacts` says what an edit does to a record whoever makes it (the bases
add up to the new price, payers and premiums stay, only a caller who is not the
sponsor gets an owner layer).

It then proves, for every set of accounts, payloads and signed
authorizations, every window, budget, ledger and price (`MiddsAssumption`,
`BalancesAssumption`, `NoLayerAssumption`), from one inductive invariant
`PalletInv`:

* `TypeCorrect`, `IndexesAlwaysAgree`, `QueueAlwaysMatches`,
  `NothingFinalizedEarly`, `OwnerLayerAlwaysOwners`.

These five need each other, which is why they are one invariant. That maps
agree after an edit needs the hash of the old payload to be this record's own;
that a new deposit overwrites nothing needs `Fresh` (no id from `nextId` on is in
use); that the hook finalizes no open record needs `DueElapsed` (what it has
collected came from a prefix up to the block number), which needs the queue to
match the records; that settlements stay typed needs the layers' types. The
induction has one lemma per *kind* of change to the records (`DepositStep`,
`EditStep`, `RemoveStep`, `FinalizeStep`, `IdleStep`, `HookIdle`), and `StepInv`
shows every action of `Next` to be of one of the kinds.

A second part classifies steps once more, by what they do to one
record (`StepChange`), and concludes the action properties `PremiumIsSticky`,
`AttributionIsImmutable`, `FinalizationIsPermanent` and `EditsRebase`.
`FinalizationIsPermanent` says who acts: a change of a finalized record is `ForcedOn` it, and no
`CalledOn` touches it (`ChangeIsForced`), because every other call that edits, removes or finalizes
asks for a record in its window or not finalized yet (`FinalizedIsClosed`).
`PalletImplementsQueue` is the refinement: with `RefinementInv` (the ids the hook
has met are below `nextId`) every step is a step of `FinalizationQueue` or a
stutter. Its one counting argument, `PrefixHasRoom`, is that a prefix never
holds `MaxRecords` entries while an id is left to hand out.

The money comes last, with sums over records and over accounts, for which the set of
users is finite (`FiniteUsers`):

* `HoldsAlwaysMatch`: each call moves an account's hold by what it moves that
  account's layers of the *one* record it touches (`RebalanceMoves`, `SettleLayerMoves`),
  and the sum over all records moves by the same amount. Settling two layers
  of one payer is the case that needs care, and it does not arise, since an owner layer's
  payer is not the sponsor;
* `SettlementsInsulated`: whatever leaves the live records in a step, each account loses
  exactly what its own layers forfeit, and the Treasury gains the sum of it;
* `SponsorExposureIsBounded`: the owner's update never raises the sponsor's hold over the
  larger of what it was and the unmultiplied price of the sponsor's part.

### Pricing

`DynamicPricing_proofs`, from `PricingAssumption`:

* `BucketsAlwaysHoldDays`: the invariant is inductive with `WindowType`. Under a
  deposit only the head's slot changes, and `SlotsApart` keeps the other days away
  from it; under a rotation the slot of k - 1 days ago is that of k days ago afterwards;
* `SlowReadsWholeDays`: the fold over the buckets, in whatever place the head
  is, is the sum over the last days (a renumbering), and capping each day's count first does
  not change the capped sum;
* `PricingTypes`: both steps are natural numbers whatever the demand, so that the
  clamp decides;
* `FastAlwaysReacts` is conditional: rounding must let the smallest step show at the floor
  (`StepShows`: one deposit off the target moves the floor by at least one unit). The code's
  `FixedU128` has 10^18 units to one, and with a floor of 0.1, a rate of 0.125 and a target
  of 5 (`mock.rs`) that step is of 2.5 * 10^15 units; the run, with 100 units to one, has 7.
  `AdjustmentMoves` carries it from the floor
  to every value above;
* `FastComesBack` has no such condition: `RoundTrip` measures the
  rounding of two products and a reciprocal, and that is what the proof bounds.

### Messages and readers

Both are in `Catalog_proofs`. About messages, from `AuthAssumption`: for
`MessagesTakeEffectOnce`, `SignedOnce` is not
inductive; that a message cannot be carried out again needs the nonce it was carried out under
to be below the current one. `AuthInv` says so in four parts: every message in the history
`done` was signed and addressed to that instance (`Addressed`), its nonce is below its signer's
(`BelowNonce`), no two messages of a signer have one nonce (`UsedOnce`), and every nonce below
the current one was used (`Gapless`). Every call that takes a message is one `ConsumeStep`,
every other a `PlainStep`.

`SponsoredRecordsAreAsSigned` adds what a record owes to the history: `EntrySigned` of each
entry (its signer owns the record; unless the record was touched by hand, it has the message's
item or a later message is about it), and `IdsGiven`, without which a removed record's id could
come back and a message of the old one be taken for one of the new.

About readers, it begins with the operators of the lookup: the scanned ids are closed downwards
in storage order (`FirstByIsDownClosed`) and all of them when they fit (`FirstByIsWhole`), hence
`ScanReachesAll`; `PageSkipsNothing` is the fact on which a correct `after` cursor rests.
`ListingsAreComplete` and `CountsMatchListings` are about the whole of a listing over a chain
that moves: `CatalogInv` says that what is listed and what was claimed all along agree up to the
cursor (`ListedUpToCursor`, under `~crowded` for a reader who follows the best block), and every
page moves that line up to its own last id (`PageAdvances`). For a reader who stays at one block
the listing is the scanned set itself, and the count is its cardinality. `MessagesAndReader`
carries the two theorems about messages over to the specification with a reader.

### The bench commands

`BenchRun_proofs`, from `SubmissionAssumption` and `BenchAssumption`, in three layers.

* `BatchesLandInOrder`, from `OrderInv`: no nonce, of a worker, a submission or a transaction
  in the pool, is ever ahead of the account (`NoncesBehind`), so that a transaction can run
  now or never; one that can run comes after everything in the chain (`LiveIsLast`); a batch
  sent under a nonce of the worker's own has used it up once it is in the chain (`NonceUsed`);
  and a worker goes on only after its batch has landed (`Calling`, `ChainBegun`).
* `ReportAddsUp`, from `CountInv`: at all times, what the consumer has counted, what is in the
  channel and what is left to the workers (`Left`) add up to the records of the sub-runs so far
  (`Tally`). It stands on `SharesAddUp` (the shares of the signers add up to the
  count, whatever the remainder) and `SubRunsAddUp`.
* `ReportIsOfTheChain`, from `ReportInv`: leaving aside the batch each worker has in hand, what
  is counted as deposited is in the chain; and what is in the chain beyond it is at most one
  batch per signer for each sub-run that is over, where a batch that was given up and is still in the
  pool (`Straying`) uses up that allowance before it lands.

The proof found a slip in an earlier form of the model: `StartWorkers` could happen outside the
set-up, because a guard was read as part of an implication. The run had passed, with
more behaviours than the program has.

### Record entry

`RecordEntry_proofs`, from `TypesAssumption` and `InputsAssumption`: for every bound on texts
and lists, every set of raw inputs, and any calls in any order.

* `FaultsAlwaysReported`: `build()` names every entry at fault and no other, and refuses a draft
  exactly when there is one. A part of a record `Names` a set of faults when its diagnostics are
  those and it has a value if there are none. Each entry names what is wrong with it (`Judged`);
  a list collects its entries' faults, and its own if more than `ListMax` entries are left
  (`CollectedNames`); each field's part names the field's faults, and the three builders
  put their parts together in an order that has every part which may fail (`Assembly`), so that a
  record names the union (`Assembled`).
* `EntriesAlwaysKept`: what is built has one entry for each call, with tracks' numbers and
  performers' instruments in their places. A list without faults is collected into the
  values of its entries in their order (`Values`).
* Both rest on `DraftsAlways`, the inductive invariant `DraftInv`: the entry of a builder's session
  is a draft of its kind, and an outcome is that of `build()` on *this* draft. The setters'
  cases are `CallsKeepDraft`.

What the library's `FlattenSeq` yields is proved first (`FlattenFacts`): its
recursion is shown to have a solution by induction over sets of numbers, as for
the folds. For these proofs two records of the model are written without `@@`, which the
provers do not know, and `Faults` states how its union binds.

`Identifiers_proofs` is about the parsers and check digits, for texts of any length. The
model's `Match` says of a text as a whole which characters are kept and where a separator may
stand, so that no recursion over the text is needed:

* `ParsersCanonical`: what a parser returns passes the chain's format and parses to itself. The
  characters it keeps have no separator and no space among them, so that matching them again
  keeps all of them (`PatternKeepsPlain`); a padded number is eleven digits long, which is not
  padded again (`PadKeeps`). The hypothesis, for IPI and IPN, is that the text is in ASCII: the
  finding `ipi_digits` is what happens without it;
* `IsniSlipCaught`, `UpcSlipCaught`: one character replaced, dropped or inserted leaves a
  code of the same length different in one place at most (`SlipIsOneApart`), and then
  the weighted sum differs by a number that is no multiple of ten (UPC), or the remainders
  modulo 11 stay apart to the end (ISNI, `IsniRun`).

In `RecordEntry_proofs`, `LintInv` says that a text is its base or one slip away from it, from
which `SlipsAlwaysCaught` follows without any hypothesis and `ParsedAlwaysCanonical` from
`TypedInAscii` (raw codes and typing errors are in ASCII, as `MCRecordEntry`'s are).

Two theorems tie the client to the chain's rules, both under `TypedInAscii`. A record's
`validate_format` is the first error of the results of its rules one after another; of such
a sequence two facts are enough (`OneAfterAnother`, `FirstErrorFacts`): all results are in a set
of results exactly if those of its parts are, and then so is the first error.

* `BuiltAlwaysStorable`: the chain refuses what `build()` returned exactly when something is
  wrong that `build()` leaves to it (`UncheckedByBuild`). Each part of a built
  record passes the chain's own rule for its field (`ValueStored`, `PartStored`), because the code
  in it comes from a parser (`ParsersCanonical`) and the text was trimmed and measured; the
  rules that are left are those that `UncheckedByBuild` lists. The constants' assumption
  says of source works only that they are sequences of characters: they come in
  typed, and the theorem leaves them to the chain.
* `FormsFailByClashes`: a form is judged by the answers of its own round, and refused exactly
  when two of them clash. Two conjuncts of the inductive invariant `FormInv` are what it needs:
  the answers are those of the prompts passed in this round, so that none survives
  re-entry (`FormFilled`), and each passes all that the chain asks of its field for itself
  (`FieldPasses`), whether a widget let it through (`AnswersPass`) or it is the test builder's
  value, whose codes come from the generators (`GeneratedIswc`, `GeneratedIpi`, ...).
  Of a recording it also says that a sub-genre has a genre (`GenreThenSubGenre`): a
  mutant that offers one without the other breaks it. What the chain says of a record
  whose fields pass is said once for builder and form (`WorkRuling`, `RecordingRuling`,
  `ReleaseRuling`): it is `Ok` exactly if nothing clashes (`FormJudged`).

### Model-checked only

* Liveness: `BacklogDrains`, `DemandForgotten`, `RunEnds` (temporal under fairness).
* `RecordEntry!FixturesAsIntended`: a generated record is drawn field by field with a
  fold whose step is an operator (`Vary`), and what the fold yields needs induction over the fields
  with that operator as a parameter. The codes of two places differ because decimals do, which is
  again induction over digits; and it holds only while places stay below 10^8.
* `RecordEntry!TypeOK`: it types the generated records too, for the same reason.

## 5. Plan

1. The generators: a form of `Vary` without a fold (the records that differ from the base in
   the fields in focus alone), about which `FixturesAsIntended` could be proved kind by kind.
2. An abstract escrow (each party's wealth and stake, no layers or maps) that
   `MiddsPallet` implements.

### Not modelled

* Weights, benchmarks and mock (generated code and scaffolding), the code generator,
  events, logging, rendering of reports, latencies and percentiles.
* The end-to-end harness: it polls a node until a deadline.
* The JSON-RPC transport and the SCALE encoding; the reads `get`, `deposit_info` and
  of the prices, which are one storage read each.
* The amount of the automatic funding: floating-point arithmetic over
  encoded sizes. `BenchRun` funds signers without amounts.
* Argument parsing, the prompts of the bench commands and key derivation.
* The corpus of names and the random number generator of the fixtures.
* Reorganizations: the best chain of `TxSubmission` never goes back, and a chain of
  `OnBehalfAuth` has one branch.
* Hash collisions, forged signatures, and the maxima of balances and of ids.
