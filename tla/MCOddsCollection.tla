------------------------- MODULE MCOddsCollection -------------------------
(* Small instances of the odds collector for TLC. *)
EXTENDS OddsCollection, TLC

CONSTANTS w1, w2

Polling == {"normal", "degraded", "closing"}

\* Closing and final, one and two slots wide: the night window is once as
\* closing is, the day window has the shape of final.
GameDay == <<
    [kind |-> "closing", opens |-> 2, closes |-> 1, cadence |-> 0, once |-> TRUE, tiers |-> Polling],
    [kind |-> "final", opens |-> 4, closes |-> 2, cadence |-> 2, once |-> FALSE,
     tiers |-> {"normal", "degraded"}]>>

Tips == [e \in Events |-> 5 - e]

WorkerSymmetry == Permutations(Workers)

=============================================================================
