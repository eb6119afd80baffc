------------------------------ MODULE BenchRun ------------------------------
(***************************************************************************)
(* The bench commands of midds-cli (`seed`, `bench throughput`,            *)
(* `bench fees`): records are dealt round-robin to derived signers, one    *)
(* worker per signer submits its share in atomic batches under a nonce it  *)
(* counts itself, at most `Concurrency` of them at a time, and a consumer  *)
(* adds up what they report.  `seed --midds-type all` is three such runs,  *)
(* one after the other, over the same signers.                             *)
(***************************************************************************)
EXTENDS TxSubmission, FiniteSetsExt

CONSTANTS
  SignerCount,
  Counts,        \* per mode: the records asked for
  Concurrency,   \* per mode: the workers at a time
  BatchSize,
  FundBatchSize,
  AutoFund

ASSUME BenchAssumption ==
  /\ SignerCount \in Nat \ {0} /\ Signers = 0..(SignerCount - 1)
  /\ BatchSize \in Nat \ {0} /\ FundBatchSize \in Nat \ {0}
  /\ AutoFund \in BOOLEAN
  /\ DOMAIN Counts \subseteq {"seed", "seed_all", "throughput", "fees"}
  /\ \A m \in DOMAIN Counts : Counts[m] \in Nat \ {0} /\ Concurrency[m] \in 1..SignerCount

VARIABLES
  mode, phase,
  run,       \* the sub-run, from 1
  funded,    \* how many signers have been funded for it
  worker,    \* one per signer
  events,    \* the channel from the workers to the consumer
  report,    \* what the consumer has added up
  stop       \* throughput: the time is over

benchVars == <<mode, phase, run, funded, worker, events, report, stop>>
vars == <<subVars, benchVars>>

-----------------------------------------------------------------------------
(* Who deposits what.                                                      *)

\* split_round_robin: the remainder goes to the earlier kinds.
SplitRoundRobin(count) ==
  [k \in 1..3 |-> (count \div 3) + (IF count % 3 >= k THEN 1 ELSE 0)]

\* A kind without records has no sub-run; only the last kinds can have none.
SubRuns ==
  IF mode = "seed_all"
  THEN [k \in 1..Min({3, Counts[mode]}) |-> SplitRoundRobin(Counts[mode])[k]]
  ELSE [k \in 1..1 |-> Counts[mode]]

\* partition_round_robin: how many of n records signer s gets.
Share(n, s) == (n + SignerCount - 1 - s) \div SignerCount

Total(r, s) == Share(SubRuns[r], s)
Chunks(r, s) == (Total(r, s) + BatchSize - 1) \div BatchSize

\* The records of the batches from `chunk` on.
Remaining(r, s, chunk) == Max({0, Total(r, s) - (chunk - 1) * BatchSize})
ChunkSize(r, s, chunk) == Remaining(r, s, chunk) - Remaining(r, s, chunk + 1)

Working == {"reading", "loop", "calling"}
Finished == {"done", "stopped", "unread"}

Workers(sizes) ==
  [s \in Signers |-> [at |-> IF Share(sizes, s) = 0 THEN "done" ELSE "waiting",
                      nonce |-> AutoNonce, chunk |-> 1]]

Init ==
  /\ InitSubmission
  /\ mode \in DOMAIN Counts /\ phase = "setup" /\ run = 1 /\ funded = 0
  /\ worker = Workers(SubRuns[1])
  /\ events = <<>> /\ report = [ok |-> 0, failed |-> 0] /\ stop = FALSE

-----------------------------------------------------------------------------
(* setup_runner.                                                           *)

\* `fees` with one signer uses the base account, which is not funded.
Funding == AutoFund /\ (mode = "fees" => SignerCount > 1)

\* fund_signers_in_batches, one batch_all after the other.
FundBatch ==
  /\ phase = "setup" /\ Funding /\ funded < SignerCount
  /\ funded' = Min({SignerCount, funded + FundBatchSize})
  /\ UNCHANGED <<subVars, mode, phase, run, worker, events, report, stop>>

\* No connection, no snapshot, or a funding batch that fails.
AbortSetup ==
  /\ phase = "setup"
  /\ phase' = "aborted"
  /\ UNCHANGED <<subVars, mode, run, funded, worker, events, report, stop>>

StartWorkers ==
  /\ phase = "setup" /\ (Funding => funded = SignerCount)
  /\ phase' = "running"
  /\ UNCHANGED <<subVars, mode, run, funded, worker, events, report, stop>>

-----------------------------------------------------------------------------
(* A worker.                                                               *)

Move(s, to) == worker' = [worker EXCEPT ![s].at = to]
Emit(event) == events' = Append(events, event)
Chunk(ok, failed) == [ok |-> ok, failed |-> failed]

\* Mutant of Permits: a permit is never given back.
PermitsKept == Concurrency[mode] - Cardinality({s \in Signers : worker[s].at \in Working \cup Finished})

Permits == Concurrency[mode] - Cardinality({s \in Signers : worker[s].at \in Working})

Acquire(s) ==
  /\ phase = "running" /\ worker[s].at = "waiting" /\ Permits > 0
  /\ Move(s, "reading")
  /\ UNCHANGED <<subVars, mode, phase, run, funded, events, report, stop>>

\* Without an answer, `fees` gives up and the others leave the nonce to subxt.
ReadNonce(s) ==
  /\ worker[s].at = "reading"
  /\ \/ worker' = [worker EXCEPT ![s] =
                       [at |-> "loop", nonce |-> account[s], chunk |-> worker[s].chunk]]
     \/ Move(s, IF mode = "fees" THEN "unread" ELSE "loop")
  /\ UNCHANGED <<subVars, mode, phase, run, funded, events, report, stop>>

\* The next batch, if there is one and the time is not over.
NextChunk(s) ==
  /\ worker[s].at = "loop"
  /\ IF worker[s].chunk > Chunks(run, s) THEN Move(s, "done") /\ UNCHANGED sub
     ELSE IF stop THEN Move(s, "stopped") /\ UNCHANGED sub
     ELSE Move(s, "calling") /\ Begin(s, <<run, worker[s].chunk>>, worker[s].nonce)
  /\ UNCHANGED <<account, pool, ran, outside, mode, phase, run, funded, events, report, stop>>

ChunkOk(s) ==
  /\ worker[s].at = "calling" /\ sub[s].at = "ok"
  /\ sub' = [sub EXCEPT ![s] = Idle]
  /\ worker' = [worker EXCEPT ![s] =
                  [at |-> "loop", chunk |-> worker[s].chunk + 1,
                   nonce |-> IF worker[s].nonce = AutoNonce THEN AutoNonce
                             ELSE worker[s].nonce + 1]]
  /\ Emit(Chunk(ChunkSize(run, s, worker[s].chunk), 0))
  /\ UNCHANGED <<account, pool, ran, outside, mode, phase, run, funded, report, stop>>

\* Mutant of ChunkErr: the worker goes on with the next batch.
ChunkErrGoingOn(s) ==
  /\ worker[s].at = "calling" /\ sub[s].at = "err"
  /\ sub' = [sub EXCEPT ![s] = Idle]
  /\ worker' = [worker EXCEPT ![s].at = "loop", ![s].chunk = @ + 1]
  /\ Emit(Chunk(0, ChunkSize(run, s, worker[s].chunk)))
  /\ UNCHANGED <<account, pool, ran, outside, mode, phase, run, funded, report, stop>>

\* Mutant of ChunkErr: only this batch counts as failed.
ChunkErrCountingOne(s) ==
  /\ worker[s].at = "calling" /\ sub[s].at = "err"
  /\ sub' = [sub EXCEPT ![s] = Idle]
  /\ Move(s, "done")
  /\ Emit(Chunk(0, ChunkSize(run, s, worker[s].chunk)))
  /\ UNCHANGED <<account, pool, ran, outside, mode, phase, run, funded, report, stop>>

\* Everything from this batch on counts as failed.
ChunkErr(s) ==
  /\ worker[s].at = "calling" /\ sub[s].at = "err"
  /\ sub' = [sub EXCEPT ![s] = Idle]
  /\ Move(s, "done")
  /\ Emit(Chunk(0, Remaining(run, s, worker[s].chunk)))
  /\ UNCHANGED <<account, pool, ran, outside, mode, phase, run, funded, report, stop>>

WorkerStep(s) ==
  \/ Acquire(s) \/ ReadNonce(s) \/ NextChunk(s) \/ ChunkOk(s) \/ ChunkErr(s)
  \/ ClientStep(s) /\ UNCHANGED benchVars

-----------------------------------------------------------------------------
(* The rest of the run.                                                    *)

StopTimer ==
  /\ mode = "throughput" /\ phase = "running" /\ ~stop
  /\ stop' = TRUE
  /\ UNCHANGED <<subVars, mode, phase, run, funded, worker, events, report>>

\* run_progress_consumer.
Consume ==
  /\ events # <<>>
  /\ report' = [ok |-> report.ok + Head(events).ok, failed |-> report.failed + Head(events).failed]
  /\ events' = Tail(events)
  /\ UNCHANGED <<subVars, mode, phase, run, funded, worker, stop>>

\* Every worker joined and, with its last sender gone, the channel drained.
Joined == phase = "running" /\ events = <<>> /\ \A s \in Signers : worker[s].at \in Finished

Report ==
  /\ Joined /\ run + 1 \notin DOMAIN SubRuns
  /\ phase' = "ended"
  /\ UNCHANGED <<subVars, mode, run, funded, worker, events, report, stop>>

\* The next kind: setup_runner again, with new workers for the same signers.
NextSubRun ==
  /\ Joined /\ run + 1 \in DOMAIN SubRuns
  /\ phase' = "setup" /\ run' = run + 1 /\ funded' = 0
  /\ worker' = Workers(SubRuns[run + 1])
  /\ UNCHANGED <<subVars, mode, events, report, stop>>

\* seed reads next_midds_id at the end, and loses its report if it cannot.
AbortReport ==
  /\ Joined /\ mode \in {"seed", "seed_all"}
  /\ phase' = "aborted"
  /\ UNCHANGED <<subVars, mode, run, funded, worker, events, report, stop>>

MainStep == FundBatch \/ AbortSetup \/ StartWorkers \/ Report \/ NextSubRun \/ AbortReport

Next ==
  \/ MainStep \/ Consume \/ StopTimer
  \/ \E s \in Signers : WorkerStep(s)
  \/ NodeStep /\ UNCHANGED benchVars

\* The executor runs every task, and the node settles every transaction that
\* can run or never will.
Fairness ==
  /\ WF_vars(MainStep) /\ WF_vars(Consume)
  /\ \A s \in Signers : WF_vars(WorkerStep(s)) /\ WF_vars(Settle(s) /\ UNCHANGED benchVars)

Spec == Init /\ [][Next]_vars /\ Fairness

-----------------------------------------------------------------------------
(* Properties.                                                             *)

Earlier(a, b) == a[1] < b[1] \/ (a[1] = b[1] /\ a[2] < b[2])

\* Whatever is retried, dropped or lost, a signer's batches get into the chain
\* in the order of its slice, each after the previous one of the sub-run has
\* landed, and a batch sent under a nonce of the worker's own gets there once
\* (deposit_batch_with_nonce; MAX_PREP_RETRIES).
LandsInOrder ==
  \A s \in Signers : \A q \in DOMAIN ran[s] :
    LET payload == ran[s][q].payload
    IN  /\ \A p \in 1..(q - 1) :
             \/ Earlier(ran[s][p].payload, payload)
             \/ ran[s][p].payload = payload /\ ran[s][p].auto
        /\ payload[2] > 1 =>
             \E p \in 1..(q - 1) : ran[s][p].payload = <<payload[1], payload[2] - 1>> /\ ran[s][p].ok

\* The records of a signer's batches in the chain, and those the workers have
\* reported as deposited, the reports not read yet included.
RecordsLanded(s) ==
  SumFunction([p \in DOMAIN ran[s] |->
    IF ran[s][p].ok THEN ChunkSize(ran[s][p].payload[1], s, ran[s][p].payload[2]) ELSE 0])
CountedOk == report.ok + SumFunction([e \in DOMAIN events |-> events[e].ok])

\* A batch counted as succeeded is in the chain, and none after the one a
\* worker is at ever is: what was counted as failed is not there (seed.rs,
\* WorkerEvent::Chunk), but for at most one batch a worker and sub-run, the one
\* it stopped waiting for.
ReportMatchesChain ==
  /\ \A s \in Signers :
       /\ \A c \in 1..(worker[s].chunk - 1) : Landed(s, <<run, c>>)
       /\ \A p \in DOMAIN ran[s] : ran[s][p].payload[1] = run => ran[s][p].payload[2] <= worker[s].chunk
  /\ SumFunction([s \in Signers |-> RecordsLanded(s)]) - CountedOk
       \in 0..(BatchSize * SignerCount * run)

\* At the end every record asked for has been counted once, as a success or as
\* a failure, but for those of workers that the stop timer ended and, in
\* `fees`, of workers that never learned their nonce.
CountsAddUp ==
  phase = "ended" =>
    LET uncounted == [s \in Signers |->
                        IF worker[s].at = "stopped" THEN Remaining(run, s, worker[s].chunk)
                        ELSE IF worker[s].at = "unread" THEN Total(run, s) ELSE 0]
    IN  report.ok + report.failed + SumFunction(uncounted) = Counts[mode]

\* Every run comes to its end: no worker waits for ever for a permit or for a
\* transaction that the pool can never run.
RunEnds == <>(phase \in {"ended", "aborted"})
=============================================================================
