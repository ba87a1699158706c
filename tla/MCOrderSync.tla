----------------------------- MODULE MCOrderSync -----------------------------
(* Orders whose reports are lost, in two scenes: a conditional order that is *)
(* read by the conditional-order sync while the plugin is connected, under   *)
(* the names of OrderLifecycle, and two basic orders that only REST          *)
(* snapshots tell of.                                                        *)
EXTENDS OrderLifecycle

CONSTANTS b1, b2

VARIABLE scene

Rest == INSTANCE OrderLifecycle WITH
          Basic <- {b1, b2}, Algo <- {}, SnapshotTasks <- {"rest"},
          PluginConnected <- FALSE, StrictTime <- TRUE, ExStatuses <- {"new", "canceled"},
          StaleAfter <- 1, MaxClock <- 2, MaxTouch <- 0, MaxFault <- 0, MaxStream <- 1

In(s, A) == scene = s /\ A /\ UNCHANGED scene

ScenesInit == \/ scene = "sync" /\ Init
              \/ scene = "rest" /\ Rest!Init

ScenesNext == In("sync", Next) \/ In("rest", Rest!Next)

\* OrderLifecycle's fairness in each scene; without conditional orders their
\* sync owes nothing.
ScenesFair ==
    /\ WF_<<scene, vars>>(In("rest", Rest!WsRead))
    /\ \A t \in Rest!Tasks : WF_<<scene, vars>>(In("rest", Rest!TaskStep(t)))
    /\ WF_<<scene, vars>>(In("sync", WsRead))
    /\ WF_<<scene, vars>>(In("sync", FetchAlgoOrders))
    /\ WF_<<scene, vars>>(In("sync", CancelMissingAlgo))
    /\ \A t \in Tasks : WF_<<scene, vars>>(In("sync", TaskStep(t)))

ScenesSpec == ScenesInit /\ [][ScenesNext]_<<scene, vars>> /\ ScenesFair

-----------------------------------------------------------------------------
(* Properties: those of OrderLifecycle, SweepSparesAlgo under its own name:  *)
(* nothing is swept in the other scene, where the plugin is not connected.   *)

\* A closed order whose report was lost leaves the open orders: a conditional
\* order always, a basic one as long as some other basic order stays open at the
\* exchange (an empty snapshot is not trusted, OrderManager.process_order_snapshot).
Closed(b) ==
    scene = "rest" /\ ex[b].status \in Terminal
    /\ \E c \in {b1, b2} : ex[c].status \in Active
GhostsLeave ==
    /\ \A a \in Algo :
         (scene = "sync" /\ ex[a].status \in Terminal)
           ~> (scene = "sync" => row[a].status \notin Active)
    /\ \A b \in {b1, b2} :
         <>[]Closed(b) => <>[](scene = "rest" => row[b].status \notin Active)
=============================================================================
