----------------------------- MODULE MCBenchRun -----------------------------
\* Two signers and batches of two; each mode with as many records as it needs to
\* show its own: 5 are batches of 2 and 1 for the first signer and one of 2 for
\* the second, 3 are three sub-runs of `seed all`.
EXTENDS BenchRun

MCSigners == {0, 1}
MCCounts == [m \in {"seed", "seed_all", "throughput", "fees"} |->
               IF m \in {"seed", "throughput"} THEN 5 ELSE 3]
\* Two workers at a time in `throughput`; elsewhere one waits for the other.
MCConcurrency == [m \in DOMAIN MCCounts |-> IF m = "throughput" THEN 2 ELSE 1]
MCAutoNonce == -1
=============================================================================
