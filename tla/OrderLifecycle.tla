-------------------------- MODULE OrderLifecycle --------------------------
(* How the engine follows the exchange's orders: the orders table            *)
(* (core/db_orders.py), the open-order cache of core/order_manager.py and    *)
(* the tasks that write both: the user stream (core/ws_manager.py), the REST *)
(* and plugin order snapshots, the conditional-order sync and the staleness  *)
(* sweep (core/schedulers.py, core/platform_bridge.py).                      *)
(*                                                                           *)
(* Every `await` that lets another task run is a boundary between actions.   *)
(* A statement and the clock reading stamped on it are one step, and so are  *)
(* the cache query and the assignment of its result: the database thread     *)
(* serves the event loop first in, first out.  Of an order's columns the     *)
(* model keeps status, updated_at_ms ("at") and last_seen_ms ("seen").       *)
EXTENDS OrderStatus, Naturals, Sequences

CONSTANTS
    Basic,            \* exchange ids of basic orders
    Algo,             \* exchange ids of conditional orders ("algo:" prefix)
    SnapshotTasks,    \* who sends basic snapshots: the REST loop, the plugin
    PluginConnected,  \* platform_bridge.is_connected
    StrictTime,       \* two reports of one order never share a millisecond
    ExStatuses,       \* the statuses the exchange uses
    StaleAfter,       \* stale_threshold_ms of mark_stale_orders
    MaxClock,         \* bound on the clock
    MaxTouch,         \* bound on amendments and partial fills reported
    MaxFault,         \* bound on failed batches and crashes
    MaxStream         \* bound on reports in flight on the user stream

Orders == Basic \cup Algo
Tasks  == SnapshotTasks \cup {"ws", "algo", "stale"}

ASSUME TasksAssumption ==
    /\ Basic \cap Algo = {}
    /\ SnapshotTasks \cap {"ws", "algo", "stale"} = {}
ASSUME BoundsAssumption ==
    /\ PluginConnected \in BOOLEAN /\ StrictTime \in BOOLEAN
    /\ ExStatuses \subseteq Status
    /\ StaleAfter \in Nat /\ MaxClock \in Nat \ {0}
    /\ MaxTouch \in Nat /\ MaxFault \in Nat /\ MaxStream \in Nat

VARIABLES
    clock,     \* milliseconds: the engine's and the exchange's clocks agree
    ex,        \* the exchange's truth: status and update time of every order
    log,       \* every report the exchange ever made (history)
    stream,    \* reports in flight on the user-data stream, oldest first
    row,       \* the orders table
    cache,     \* OrderManager._open_orders
    warm,      \* the cache was filled since the engine started (history)
    task,      \* per task: where it awaits, what its snapshot held, what is
               \* still to be written
    reported,  \* per order: the last report the table accepted (history)
    listed,    \* when the exchange made the last snapshot that lists an order
               \* and was not lost (history)
    touches, faults   \* counters for MaxTouch and MaxFault

exchange == <<clock, ex, log, touches>>
vars == <<clock, ex, log, stream, row, cache, warm, task, reported,
          listed, touches, faults>>

Time    == 0 .. MaxClock
Reports == [o : Orders, status : Status, at : Time]
Stamped == [status : Status \cup {"none"}, at : Time]
Rows    == [status : Status \cup {"none"}, at : Time, seen : Time]
Awaits  == [pc : {"idle", "read", "upsert", "cancel", "refresh"},
            snap : SUBSET Reports, todo : SUBSET Reports]

Unknown == [status |-> "none", at |-> 0]
NoRow   == [status |-> "none", at |-> 0, seen |-> 0]
Idle    == [pc |-> "idle", snap |-> {}, todo |-> {}]

ActiveRows == {o \in Orders : row[o].status \in Active}

TypeOK ==
    /\ clock \in Time
    /\ ex \in [Orders -> Stamped]
    /\ log \subseteq Reports
    /\ stream \in Seq(Reports)
    /\ row \in [Orders -> Rows]
    /\ cache \subseteq Orders
    /\ warm \in {"yes", "no"}
    /\ task \in [Tasks -> Awaits]
    /\ reported \in [Orders -> Stamped]
    /\ listed \in [Orders -> Time]
    /\ touches \in 0 .. MaxTouch
    /\ faults \in 0 .. MaxFault

Init ==
    /\ clock = 1
    /\ ex = [o \in Orders |-> Unknown]
    /\ log = {}
    /\ stream = <<>>
    /\ row = [o \in Orders |-> NoRow]
    /\ cache = {}
    /\ warm = "no"
    /\ task = [t \in Tasks |-> Idle]
    /\ reported = [o \in Orders |-> Unknown]
    /\ listed = [o \in Orders |-> 0]
    /\ touches = 0
    /\ faults = 0

-----------------------------------------------------------------------------
(* The exchange.                                                             *)

\* It changes an order and puts a report of the change on the user stream.
Report(o, s) ==
    LET r == [o |-> o, status |-> s, at |-> clock] IN
    /\ StrictTime => clock > ex[o].at
    /\ Len(stream) < MaxStream
    /\ ex' = [ex EXCEPT ![o] = [status |-> s, at |-> clock]]
    /\ log' = log \cup {r}
    /\ stream' = Append(stream, r)

ExMove(o, s) ==
    /\ \/ ex[o].status = "none" /\ s = "new"
       \/ ex[o].status # "none" /\ ValidateTransition(ex[o].status, s)
    /\ Report(o, s)
    /\ UNCHANGED <<clock, row, cache, warm, task, reported, listed, touches, faults>>

\* An amendment, or one more partial fill: same status, new update time.
ExTouch(o) ==
    /\ ex[o].status \in Active
    /\ touches < MaxTouch
    /\ Report(o, ex[o].status)
    /\ touches' = touches + 1
    /\ UNCHANGED <<clock, row, cache, warm, task, reported, listed, faults>>

Tick ==
    /\ clock < MaxClock
    /\ clock' = clock + 1
    /\ UNCHANGED <<ex, log, stream, row, cache, warm, task, reported,
                   listed, touches, faults>>

\* The user stream drops: what was in flight is never delivered.
StreamDrops ==
    /\ stream # <<>>
    /\ stream' = <<>>
    /\ UNCHANGED <<exchange, row, cache, warm, task, reported, listed, faults>>

-----------------------------------------------------------------------------
(* The statements of db_orders.                                              *)

\* get_active_orders_map followed by validate_transition on one report.
Accepts(r) ==
    row[r.o].status \in Active => ValidateTransition(row[r.o].status, r.status)

\* (Mutant: the WHERE clause of the upsert dropped.)
MutUpsertAnyAge(r) ==
    /\ row' = [row EXCEPT ![r.o] = [status |-> r.status, at |-> r.at,
                                    seen |-> clock]]
    /\ reported' = [reported EXCEPT ![r.o] = [status |-> r.status, at |-> r.at]]

\* One row of upsert_order_batch: insert, or update unless the stored row is
\* newer.
Upsert(r) ==
    IF row[r.o].status = "none" \/ r.at >= row[r.o].at
      THEN /\ row' = [row EXCEPT ![r.o] = [status |-> r.status, at |-> r.at,
                                           seen |-> clock]]
           /\ reported' = [reported EXCEPT ![r.o] = [status |-> r.status,
                                                     at |-> r.at]]
      ELSE UNCHANGED <<row, reported>>

\* (Mutant: the other spelling of the status.)
MutCancelMisspelt(S) ==
    row' = [o \in Orders |->
              IF o \in S \cap ActiveRows
                THEN [status |-> "cancelled", at |-> clock, seen |-> row[o].seen]
                ELSE row[o]]

\* mark_stale_orders_canceled / mark_stale_orders: the active rows of S are
\* canceled and stamped with the engine's own clock.
Cancel(S) ==
    row' = [o \in Orders |->
              IF o \in S \cap ActiveRows
                THEN [status |-> "canceled", at |-> clock, seen |-> row[o].seen]
                ELSE row[o]]

-----------------------------------------------------------------------------
(* The tasks of the engine.                                                  *)

Goto(t, pc) == task' = [task EXCEPT ![t].pc = pc]

\* ws_manager takes the next report off the stream; process_order_update
\* reads the active orders and returns early on an invalid transition.
WsRead ==
    /\ task["ws"].pc = "idle"
    /\ stream # <<>>
    /\ stream' = Tail(stream)
    /\ IF Accepts(Head(stream))
         THEN task' = [task EXCEPT !["ws"] =
                         [pc |-> "upsert", snap |-> {}, todo |-> {Head(stream)}]]
         ELSE UNCHANGED task
    /\ UNCHANGED <<exchange, row, cache, warm, reported, listed, faults>>

\* A snapshot of the open basic (conditional) orders leaves the exchange.
OpenAt(S) == {[o |-> o, status |-> ex[o].status, at |-> ex[o].at] :
                o \in {p \in S : ex[p].status \in Active}}

ListedNow(snap) ==
    [o \in Orders |-> IF \E r \in snap : r.o = o THEN clock ELSE listed[o]]

FetchOpenOrders(t) ==
    /\ t \in SnapshotTasks
    /\ task[t].pc = "idle"
    /\ task' = [task EXCEPT ![t] =
                  [pc |-> "read", snap |-> OpenAt(Basic), todo |-> {}]]
    /\ listed' = ListedNow(OpenAt(Basic))
    /\ UNCHANGED <<exchange, stream, row, cache, warm, reported, faults>>

\* (Mutant: unchanged conditional orders skipped, as basic ones are.)
MutFetchAlgoSkipsUnchanged ==
    /\ task["algo"].pc = "idle"
    /\ task' = [task EXCEPT !["algo"] =
                  [pc |-> "upsert", snap |-> OpenAt(Algo),
                   todo |-> {r \in OpenAt(Algo) : Accepts(r)}]]
    /\ listed' = ListedNow(OpenAt(Algo))
    /\ UNCHANGED <<exchange, stream, row, cache, warm, reported, faults>>

FetchAlgoOrders ==
    /\ task["algo"].pc = "idle"
    /\ task' = [task EXCEPT !["algo"] =
                  [pc |-> "upsert", snap |-> OpenAt(Algo), todo |-> OpenAt(Algo)]]
    /\ listed' = ListedNow(OpenAt(Algo))
    /\ UNCHANGED <<exchange, stream, row, cache, warm, reported, faults>>

\* process_order_snapshot: nothing known and nothing reported ends it; the
\* reports that follow the machine are to be written.
SnapshotRead(t) ==
    /\ task[t].pc = "read"
    /\ task' = [task EXCEPT ![t] =
                  IF task[t].snap = {} /\ cache = {}
                    THEN Idle
                    ELSE [@ EXCEPT !.pc = "upsert",
                                   !.todo = {r \in task[t].snap : Accepts(r)}]]
    /\ UNCHANGED <<exchange, stream, row, cache, warm, reported, listed, faults>>

UpsertRow(t) ==
    /\ task[t].pc = "upsert"
    /\ \E r \in task[t].todo :
         /\ Upsert(r)
         /\ task' = [task EXCEPT ![t].todo = @ \ {r}]
    /\ UNCHANGED <<exchange, stream, cache, warm, listed, faults>>

\* The batch raised: upsert_order_batch logs it, drops the rest and returns.
UpsertFails(t) ==
    /\ task[t].pc = "upsert"
    /\ task[t].todo # {}
    /\ faults < MaxFault
    /\ faults' = faults + 1
    /\ task' = [task EXCEPT ![t].todo = {}]
    /\ listed' = [o \in Orders |->
                    IF \E r \in task[t].todo : r.o = o THEN 0 ELSE listed[o]]
    /\ UNCHANGED <<exchange, stream, row, cache, warm, reported>>

\* (Mutant: the user stream's path forgets refresh_cache.)
MutUpsertDoneNoRefresh(t) ==
    /\ task[t].pc = "upsert"
    /\ task[t].todo = {}
    /\ Goto(t, IF t = "ws" THEN "idle" ELSE "cancel")
    /\ UNCHANGED <<exchange, stream, row, cache, warm, reported, listed, faults>>

UpsertDone(t) ==
    /\ task[t].pc = "upsert"
    /\ task[t].todo = {}
    /\ Goto(t, IF t = "ws" THEN "refresh" ELSE "cancel")
    /\ UNCHANGED <<exchange, stream, row, cache, warm, reported, listed, faults>>

\* (Mutant: exclude_prefix swapped for only_prefix.)
MutCancelMissingWrongScope(t) ==
    /\ t \in SnapshotTasks
    /\ task[t].pc = "cancel"
    /\ LET ids == {r.o : r \in task[t].snap} IN
         IF ids = {} THEN UNCHANGED row ELSE Cancel(Algo \ ids)
    /\ Goto(t, "refresh")
    /\ UNCHANGED <<exchange, stream, cache, warm, reported, listed, faults>>

\* Basic orders missing from a basic snapshot are canceled, unless it is empty.
CancelMissing(t) ==
    /\ t \in SnapshotTasks
    /\ task[t].pc = "cancel"
    /\ LET ids == {r.o : r \in task[t].snap} IN
         IF ids = {} THEN UNCHANGED row ELSE Cancel(Basic \ ids)
    /\ Goto(t, "refresh")
    /\ UNCHANGED <<exchange, stream, cache, warm, reported, listed, faults>>

\* (Mutant: an empty sync cancels nothing, as for basic snapshots.)
MutCancelMissingAlgoNotEmpty ==
    /\ task["algo"].pc = "cancel"
    /\ LET ids == {r.o : r \in task["algo"].snap} IN
         IF ids = {} THEN UNCHANGED row ELSE Cancel(Algo \ ids)
    /\ Goto("algo", "refresh")
    /\ UNCHANGED <<exchange, stream, cache, warm, reported, listed, faults>>

\* Conditional orders missing from their sync are canceled, empty or not.
CancelMissingAlgo ==
    /\ task["algo"].pc = "cancel"
    /\ Cancel(Algo \ {r.o : r \in task["algo"].snap})
    /\ Goto("algo", "refresh")
    /\ UNCHANGED <<exchange, stream, cache, warm, reported, listed, faults>>

\* _order_staleness_loop: active rows last seen too long ago are canceled.
NotSeenLately == {o \in ActiveRows : row[o].seen + StaleAfter < clock}

StaleSweep ==
    /\ PluginConnected
    /\ task["stale"].pc = "idle"
    /\ NotSeenLately # {}
    /\ Cancel(NotSeenLately)
    /\ Goto("stale", "refresh")
    /\ UNCHANGED <<exchange, stream, cache, warm, reported, listed, faults>>

RefreshCache(t) ==
    /\ task[t].pc = "refresh"
    /\ cache' = ActiveRows
    /\ warm' = "yes"
    /\ task' = [task EXCEPT ![t] = Idle]
    /\ UNCHANGED <<exchange, stream, row, reported, listed, faults>>

\* process_fill (plugin path) adds to the filled quantity of the parent order
\* and stamps the row with the engine's clock.
PluginFill(o) ==
    /\ PluginConnected /\ o \in Basic
    /\ ex[o].status \in {"partially_filled", "filled"}
    /\ row[o].status # "none"
    /\ row' = [row EXCEPT ![o].at = clock]
    /\ UNCHANGED <<exchange, stream, cache, warm, task, reported, listed, faults>>

\* The engine stops and starts again: the table is all that is left.
Crash ==
    /\ faults < MaxFault
    /\ faults' = faults + 1
    /\ task' = [t \in Tasks |-> Idle]
    /\ cache' = {}
    /\ warm' = "no"
    /\ stream' = <<>>
    /\ listed' = [o \in Orders |-> 0]
    /\ UNCHANGED <<exchange, row, reported>>

-----------------------------------------------------------------------------
ExchangeStep == \E o \in Orders : ExTouch(o) \/ \E s \in ExStatuses : ExMove(o, s)

TaskStep(t) ==
    \/ FetchOpenOrders(t) \/ SnapshotRead(t)
    \/ UpsertRow(t) \/ UpsertDone(t)
    \/ CancelMissing(t) \/ RefreshCache(t)

Next ==
    \/ ExchangeStep \/ Tick \/ StreamDrops
    \/ WsRead \/ FetchAlgoOrders \/ CancelMissingAlgo \/ StaleSweep
    \/ \E t \in Tasks : TaskStep(t) \/ UpsertFails(t)
    \/ \E o \in Orders : PluginFill(o)
    \/ Crash

Spec == Init /\ [][Next]_vars

\* The loops are scheduled forever and each await returns; the exchange, the
\* clock, failures and the plugin owe nothing.
Fairness ==
    /\ WF_vars(WsRead) /\ WF_vars(FetchAlgoOrders) /\ WF_vars(CancelMissingAlgo)
    /\ \A t \in Tasks : WF_vars(TaskStep(t))

FairSpec == Spec /\ Fairness

-----------------------------------------------------------------------------
(* Properties.                                                               *)

\* Whenever no task is between a write to the orders table and its
\* refresh_cache, the dashboard's open orders are the table's active rows.
Settled == \A t \in Tasks : task[t].pc \notin {"upsert", "cancel", "refresh"}
CacheCoherent == warm = "yes" /\ Settled => cache = ActiveRows

\* updated_at_ms never goes back: no late report, and none of the engine's own
\* stamps, overwrites a row with something older.
StampMonotone == [][\A o \in Orders : row'[o].at >= row[o].at]_vars

\* An order's accepted reports follow VALID_TRANSITIONS, whichever task wrote
\* them and however late they arrived (repeats of one status apart): the table
\* implements OrderMachine under this mapping.
Machine == INSTANCE OrderMachine WITH status <- [o \in Orders |-> reported[o].status]
FollowsMachine == Machine!Spec

\* A row the exchange has closed, and whose closing report was stored, never
\* comes back to the open orders.
ClosedStaysClosed ==
    [][\A o \in Orders :
         reported[o].status \in Terminal => row'[o].status \notin Active]_vars

\* The staleness sweep cancels an order of S only if no snapshot listed it for
\* longer than StaleAfter ("not seen in 5+ minutes").
SyncUnderWay == \E t \in Tasks : task[t].pc \in {"read", "upsert"}
Swept(o) ==
    /\ task["stale"].pc = "idle" /\ task'["stale"].pc = "refresh"
    /\ row[o].status \in Active /\ row'[o].status = "canceled"
SweepSpares(S) ==
    \A o \in S : Swept(o) /\ ~SyncUnderWay => listed[o] + StaleAfter < clock

\* Conditional orders: process_algo_snapshot rewrites every order it lists, so
\* an order the sync still lists is never swept.
SweepSparesAlgo == [][SweepSpares(Algo)]_vars

\* Basic orders: what the docstring of _order_staleness_loop says.  It fails,
\* as process_order_snapshot skips an order whose status did not change and
\* leaves its last_seen_ms as it was.
SweepSparesBasic == [][SweepSpares(Basic)]_vars

\* A closed conditional order whose report was lost leaves the open orders in
\* the end: the next sync cancels it, even if the sync is empty.
AlgoGhostLeaves ==
    \A a \in Algo : (ex[a].status \in Terminal) ~> (row[a].status \notin Active)

\* A closed basic order whose report was lost leaves the open orders in the
\* end, as long as some other basic order stays open at the exchange.
BasicGhostLeaves ==
    \A b \in Basic :
       <>[](ex[b].status \in Terminal /\ \E c \in Basic : ex[c].status \in Active)
         => <>[](row[b].status \notin Active)
=============================================================================
