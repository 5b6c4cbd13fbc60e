---------------------------- MODULE SequencedLog ----------------------------
(***************************************************************************)
(* What the daemon's ingestion promises: a log of numbered messages, taken *)
(* strictly in the order of their numbers, 1, 2, 3, ..., each number at    *)
(* most once.  A message may use up its number without entering the log.   *)
(***************************************************************************)
EXTENDS Naturals, Sequences

VARIABLES
    next,   \* the only number that can be consumed now
    log     \* numbers of the messages logged so far

vars == <<next, log>>

Init == next = 1 /\ log = <<>>

Consume == next' = next + 1 /\ log' \in {log, Append(log, next)}

Spec == Init /\ [][Consume]_vars

Ascending == \A i, j \in DOMAIN log : i < j => log[i] < log[j]
=============================================================================
