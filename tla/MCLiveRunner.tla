---------------------------- MODULE MCLiveRunner ----------------------------
(* LiveRunner on small instances: the constants the .cfg files refer to.     *)
EXTENDS LiveRunner

\* Values of `once` and `adopt`.
Never == {FALSE}
Either == {FALSE, TRUE}

\* Everything that can interfere with the accounting of fills.
AccountingFaults == {"crash", "lost_reply", "partial", "startup_fill", "other_trade",
                     "outage", "step_error"}

\* What makes a runner forget, or never learn, that it placed an order, and
\* what blocks it.
IdempotencyFaults == {"crash", "interrupt", "stale", "db", "lost_reply", "reject", "ruin"}

\* What stops trading without stopping the process, with rejected orders and
\* restarts around it.
ControlFaults == {"kill", "pause", "ruin", "crash", "reject"}

\* What blocks the runner, from inside a batch too.
BlockFaults == {"db", "stale", "ruin", "crash"}
=============================================================================
