------------------------------- MODULE Monitor -------------------------------
(* Alerts: MonitoringService of core/monitoring.py, a task that looks at      *)
(* conditions once a minute, some of them less often, and keeps events in a   *)
(* ring buffer.                                                               *)
(*                                                                            *)
(* A cycle is one step: each check reads a condition no other check reads,    *)
(* but for the database, which the backlog's check needs too. Left out: the   *)
(* three checks that only log; the rate-limit check, whose list stays empty   *)
(* (nothing outside the tests sets the reference that                         *)
(* handle_rate_limit_error records through); and the news check, which        *)
(* returns early always: it asks a table "news", and the table's name is      *)
(* news_items (monitoring.py:331, database.py:316).                           *)
EXTENDS Naturals, Sequences, SequencesExt

CONSTANTS
    Watched,    \* the conditions of this instance
    Buffer,     \* _EVENT_BUFFER_MAX
    DbEvery,    \* cycles between two checks of the database
    BackEvery   \* cycles between two checks of the reconciler's backlog

VARIABLES
    bad,        \* the conditions that hold
    linked,     \* whether the plugin is connected
    cycle,      \* cycles run, modulo what the cadences repeat after
    ever,       \* _ever_plugin_connected
    events      \* the ring buffer

vars == <<bad, linked, cycle, ever, events>>

Kinds == {"regime_stale", "plugin_disconnected", "reconciler_backlog", "db_unreachable"} \cap Watched
\* Conditions that come and go by themselves.
Conditions == Kinds \ {"plugin_disconnected"}

Open(evs, kind) == \E i \in DOMAIN evs : evs[i].kind = kind /\ ~evs[i].resolved

Init ==
    /\ bad = {} /\ linked \in BOOLEAN /\ cycle = 0 /\ ever = FALSE /\ events = <<>>

-----------------------------------------------------------------------------

\* emit, for a condition without an open event: the oldest event makes room.
Emit(evs, kind) ==
    LET all == Append(evs, [kind |-> kind, resolved |-> FALSE])
    IN  IF Open(evs, kind) THEN evs
        ELSE SubSeq(all, IF Len(all) > Buffer THEN Len(all) - Buffer + 1 ELSE 1, Len(all))

\* (Mutant: only the newest event is looked at.)
MutResolve(evs, kind) ==
    IF evs # <<>> /\ Last(evs).kind = kind THEN [evs EXCEPT ![Len(evs)].resolved = TRUE] ELSE evs
\* resolve: every event of the kind.
Resolve(evs, kind) ==
    [i \in DOMAIN evs |-> IF evs[i].kind = kind THEN [evs[i] EXCEPT !.resolved = TRUE] ELSE evs[i]]

\* What holds when the plugin's check looks: never before it was connected.
Holds(kind) == IF kind = "plugin_disconnected" THEN ever /\ ~linked ELSE kind \in bad
\* The kinds a cycle decides: the database answers, and the cadence has come.
Decides(kind) ==
    /\ kind \in Kinds
    /\ kind = "reconciler_backlog" => "db_unreachable" \notin bad /\ cycle' % BackEvery = 0
    /\ kind = "db_unreachable" => cycle' % DbEvery = 0

Checked(evs, kind) ==
    IF ~Decides(kind) THEN evs
    ELSE IF Holds(kind) THEN Emit(evs, kind) ELSE Resolve(evs, kind)

\* run: the checks in their order.
Cycle ==
    /\ cycle' = (cycle + 1) % (DbEvery * BackEvery)
    /\ ever' = (ever \/ linked)
    /\ LET stale == Checked(events, "regime_stale")
           plugin == Checked(stale, "plugin_disconnected")
           backlog == Checked(plugin, "reconciler_backlog")
       IN  events' = Checked(backlog, "db_unreachable")
    /\ UNCHANGED <<bad, linked>>

\* The conditions change between cycles.
Changes ==
    /\ \/ \E k \in Conditions : bad' = (bad \ {k}) \cup ({k} \ bad) /\ UNCHANGED linked
       \/ linked' = ~linked /\ UNCHANGED bad
    /\ UNCHANGED <<cycle, ever, events>>

\* The engine restarts: the service is a new object.
Restart == cycle' = 0 /\ ever' = FALSE /\ events' = <<>> /\ UNCHANGED <<bad, linked>>

Next == Cycle \/ Changes \/ Restart

Spec == Init /\ [][Next]_vars

-----------------------------------------------------------------------------
(* Properties.                                                               *)

TypeOK ==
    /\ bad \subseteq Conditions /\ linked \in BOOLEAN /\ ever \in BOOLEAN
    /\ cycle \in 0 .. DbEvery * BackEvery - 1
    /\ events \in Seq([kind : Kinds, resolved : BOOLEAN]) /\ Len(events) <= Buffer

\* A condition that holds is shown: when a check has decided on it, its event is
\* open, unless it was and newer events of the same cycle pushed it out of the
\* buffer; then the next check shows it again. One that does not hold is not
\* shown (monitoring.py: emit, resolve and the checks' "not resolved" guard).
AlertsFollow ==
    [][Cycle => \A k \in Kinds : Decides(k) =>
          IF Holds(k) THEN Open(events, k) \/ Open(events', k) ELSE ~Open(events', k)]_vars
=============================================================================
