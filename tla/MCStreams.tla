----------------------------- MODULE MCStreams -----------------------------
(* Streams on small instances: a few disturbances of some kinds at a time.   *)
EXTENDS Streams

Budget(drops, closes, faults, switches, opens, flips) ==
    [drops |-> drops, closes |-> closes, faults |-> faults,
     switches |-> switches, opens |-> opens, flips |-> flips]

MCBudgets ==
    {Budget(2, 0, 0, 1, 0, 0),   \* reconnects around a switch
     Budget(0, 0, 2, 1, 0, 0),   \* failing calls, rollback
     Budget(0, 0, 0, 1, 1, 0),   \* a list loaded by the switch
     Budget(1, 0, 1, 0, 1, 1),   \* the plugin comes or goes
     Budget(1, 1, 0, 0, 2, 0)}   \* positions come and go
=============================================================================
