----------------------------- MODULE MCCloseRows -----------------------------
(* Two scenes: an opening fill, a closing order of two fills and one of one  *)
(* fill, with the plugin as the only source, under the names of CloseRows;   *)
(* and an opening fill and two closing orders of one fill each, with every   *)
(* disturbance but slow and failing builds.                                  *)
EXTENDS CloseRows

VARIABLE scene

MCAt == [f \in 1..N |-> f]
MCOrderOf == [f \in 2..N |-> IF f = 4 THEN 4 ELSE 2]

Kept == INSTANCE CloseRows WITH
          N <- 3, At <- [f \in 1..3 |-> f], OrderOf <- [f \in 2..3 |-> f],
          Faults <- {"late", "limited", "rest", "stream", "crash"}

In(s, A) == scene = s /\ A /\ UNCHANGED scene

ScenesInit == \/ scene = "session" /\ Init
              \/ scene = "kept" /\ Kept!Init

ScenesNext == In("session", Next) \/ In("kept", Kept!Next)

\* LiveSpec's fairness in the scene that asks for it.
ScenesSpec ==
    /\ ScenesInit /\ [][ScenesNext]_<<scene, vars>>
    /\ WF_<<scene, vars>>(In("kept", Kept!Deliver))
    /\ WF_<<scene, vars>>(In("kept", Kept!PluginSnapshot))
    /\ WF_<<scene, vars>>(In("kept", Kept!Fire))
    /\ WF_<<scene, vars>>(In("kept", Kept!Advance))
    /\ WF_<<scene, vars>>(In("kept", Kept!Backfill))

-----------------------------------------------------------------------------
(* Properties: those of CloseRows, CoveredStays in both scenes.              *)

\* No closing fill is summed up by two rows while the plugin is the only source
\* (order_manager.py, db_orders.py).
CountedOnceInSession == scene = "session" => NoDoubleCount

\* Every closing fill ends up in a row (build_final_close_row).
RecordedWhenKept ==
    \A f \in Kept!Closing : scene = "kept" /\ f <= executed ~> Covered(f)
=============================================================================
