----------------------------- MODULE StockRound -----------------------------
(***************************************************************************)
(* What one round of the dispatcher promises its caller, the orchestrator: *)
(* every stock gets at most one outcome, a result from a worker that is    *)
(* alive or an extra; outcomes never change; run() returns once every      *)
(* stock has one, or when no worker is left; and nothing is reported after *)
(* it returned. Queue, attempts and threads are hidden.                    *)
(***************************************************************************)
EXTENDS Sequences

CONSTANTS Stocks, Workers, Nobody

VARIABLES
    results,   \* the worker whose result on_result delivered, per stock
    extras,    \* the outcomes on_extra delivered, per stock
    alive,     \* the workers not declared dead
    returned   \* run() has returned

vars == <<results, extras, alive, returned>>

Statuses   == {"failed", "timeout", "dead_skipped"}
Settled(s) == results[s] # Nobody \/ extras[s] # <<>>

Init ==
    /\ results = [s \in Stocks |-> Nobody]
    /\ extras = [s \in Stocks |-> <<>>]
    /\ alive = Workers
    /\ returned = FALSE

Complete(w, s) ==
    /\ ~returned
    /\ w \in alive
    /\ ~Settled(s)
    /\ results' = [results EXCEPT ![s] = w]
    /\ UNCHANGED <<extras, alive, returned>>

Drop(s, status) ==
    /\ ~returned
    /\ ~Settled(s)
    /\ extras' = [extras EXCEPT ![s] = <<status>>]
    /\ UNCHANGED <<results, alive, returned>>

Lose(w) ==
    /\ w \in alive
    /\ alive' = alive \ {w}
    /\ UNCHANGED <<results, extras, returned>>

Return ==
    /\ ~returned
    /\ alive = {} \/ \A s \in Stocks : Settled(s)
    /\ returned' = TRUE
    /\ UNCHANGED <<results, extras, alive>>

Next ==
    \/ \E s \in Stocks : (\E w \in Workers : Complete(w, s))
                         \/ (\E status \in Statuses : Drop(s, status))
    \/ \E w \in Workers : Lose(w)
    \/ Return

Spec == Init /\ [][Next]_vars
=============================================================================
