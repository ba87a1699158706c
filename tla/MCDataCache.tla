----------------------------- MODULE MCDataCache -----------------------------
(* Times in ticks: answers and messages within one, the window longer than both. *)
EXTENDS DataCache

CONSTANTS btc, eth
=============================================================================
