----------------------- MODULE OrderLifecycle_proofs -----------------------
(* Proofs about OrderLifecycle: types, the open-order cache, the time stamps *)
(* of the orders table, that the table implements OrderMachine, and which    *)
(* conditional orders the staleness sweep spares; and about the streams that *)
(* bring its reports (Streams): one call of start() never has two user loops. *)
EXTENDS OrderLifecycle, Streams, TLAPS

-----------------------------------------------------------------------------
(* The state machine of core/order_state.py.                                 *)

Follows(s, t) == s = t \/ ValidateTransition(s, t)

\* Skipping reports is harmless: VALID_TRANSITIONS is closed under composition.
LEMMA TransitionsCompose ==
    ASSUME NEW r \in Status, NEW s \in Status, NEW t \in Status,
           Follows(r, s), ValidateTransition(s, t)
    PROVE  ValidateTransition(r, t)
  BY DEF Follows, ValidateTransition, ValidTransitions, Status, Active, Terminal

LEMMA OpenAtReports ==
    ASSUME TypeOK, NEW S \in SUBSET Orders
    PROVE  OpenAt(S) \subseteq Reports
  BY DEF OpenAt, TypeOK, Reports, Stamped, Status

\* Type correctness.
LEMMA TypeInit == Init => TypeOK
<1> SUFFICES ASSUME Init PROVE TypeOK
    OBVIOUS
<1> USE BoundsAssumption DEF Init, Time
<1>1. ex \in [Orders -> Stamped] /\ reported \in [Orders -> Stamped]
  BY DEF Unknown, Stamped
<1>2. row \in [Orders -> Rows]
  BY DEF NoRow, Rows
<1>3. task \in [Tasks -> Awaits]
  BY DEF Idle, Awaits
<1>4. QED BY <1>1, <1>2, <1>3 DEF TypeOK

LEMMA CancelType ==
    ASSUME TypeOK, NEW S, Cancel(S)
    PROVE  row' \in [Orders -> Rows]
<1>1. ASSUME NEW o \in Orders
      PROVE  [status |-> "canceled", at |-> clock, seen |-> row[o].seen] \in Rows
  BY DEF TypeOK, Rows, Status, Terminal
<1>2. QED BY <1>1 DEF TypeOK, Cancel

LEMMA CancelEffect ==
    ASSUME TypeOK, NEW S, Cancel(S), NEW o \in Orders
    PROVE  \/ row'[o] = row[o]
           \/ /\ row[o].status \in Active
              /\ row'[o].status = "canceled" /\ row'[o].at = clock
  BY DEF Cancel, ActiveRows

LEMMA ListedType ==
    ASSUME TypeOK, NEW snap
    PROVE  ListedNow(snap) \in [Orders -> Time]
  BY DEF TypeOK, ListedNow

LEMMA UpsertType ==
    ASSUME TypeOK, NEW r \in Reports, Upsert(r)
    PROVE  row' \in [Orders -> Rows] /\ reported' \in [Orders -> Stamped]
<1>1. [status |-> r.status, at |-> r.at, seen |-> clock] \in Rows
  BY DEF TypeOK, Reports, Rows
<1>2. [status |-> r.status, at |-> r.at] \in Stamped
  BY DEF Reports, Stamped
<1>3. QED BY <1>1, <1>2 DEF TypeOK, Upsert

LEMMA GotoType ==
    ASSUME TypeOK, NEW t \in Tasks, Goto(t, "idle") \/ Goto(t, "read")
             \/ Goto(t, "upsert") \/ Goto(t, "cancel") \/ Goto(t, "refresh")
    PROVE  task' \in [Tasks -> Awaits]
  BY DEF TypeOK, Goto, Awaits

LEMMA TypeStep == TypeOK /\ [Next]_vars => TypeOK'
<1> SUFFICES ASSUME TypeOK, [Next]_vars PROVE TypeOK'
    OBVIOUS
<1> USE BoundsAssumption DEF exchange
<1>a. Idle \in Awaits
  BY DEF Idle, Awaits
<1>1. ASSUME NEW o \in Orders, NEW s \in Status, Report(o, s)
      PROVE  /\ ex' \in [Orders -> Stamped]
             /\ log' \subseteq Reports
             /\ stream' \in Seq(Reports)
  <2>1. [o |-> o, status |-> s, at |-> clock] \in Reports
    BY DEF TypeOK, Reports
  <2>2. [status |-> s, at |-> clock] \in Stamped
    BY DEF TypeOK, Stamped
  <2>3. QED BY <1>1, <2>1, <2>2 DEF Report, TypeOK
<1>2. ASSUME NEW o \in Orders, NEW s \in Status, ExMove(o, s) PROVE TypeOK'
  BY <1>1, <1>2 DEF ExMove, TypeOK
<1>3. ASSUME NEW o \in Orders, ExTouch(o) PROVE TypeOK'
  <2>1. ex[o].status \in Status
    BY <1>3 DEF ExTouch, Status
  <2>2. QED BY <1>1, <1>3, <2>1 DEF ExTouch, TypeOK
<1>4. CASE Tick
  BY <1>4 DEF Tick, TypeOK, Time
<1>5. CASE StreamDrops
  BY <1>5 DEF StreamDrops, TypeOK
<1>6. CASE WsRead
  <2>1. Head(stream) \in Reports /\ Tail(stream) \in Seq(Reports)
    BY <1>6 DEF WsRead, TypeOK
  <2>2. [pc |-> "upsert", snap |-> {}, todo |-> {Head(stream)}] \in Awaits
    BY <2>1 DEF Awaits
  <2>3. QED BY <1>6, <2>1, <2>2 DEF WsRead, Tasks, TypeOK
<1>7. CASE FetchAlgoOrders
  <2>1. OpenAt(Algo) \subseteq Reports
    BY OpenAtReports DEF Orders
  <2>2. [pc |-> "upsert", snap |-> OpenAt(Algo), todo |-> OpenAt(Algo)] \in Awaits
    BY <2>1 DEF Awaits
  <2>3. QED BY <1>7, <2>2, ListedType DEF FetchAlgoOrders, Tasks, TypeOK
<1>8. CASE CancelMissingAlgo
  BY <1>8, CancelType, GotoType DEF CancelMissingAlgo, Tasks, TypeOK
<1>9. CASE StaleSweep
  BY <1>9, CancelType, GotoType DEF StaleSweep, Tasks, TypeOK
<1>10. ASSUME NEW t \in Tasks, FetchOpenOrders(t) PROVE TypeOK'
  <2>1. OpenAt(Basic) \subseteq Reports
    BY OpenAtReports DEF Orders
  <2>2. [pc |-> "read", snap |-> OpenAt(Basic), todo |-> {}] \in Awaits
    BY <2>1 DEF Awaits
  <2>3. QED BY <1>10, <2>2, ListedType DEF FetchOpenOrders, TypeOK
<1>11. ASSUME NEW t \in Tasks, SnapshotRead(t) PROVE TypeOK'
  <2>1. [task[t] EXCEPT !.pc = "upsert",
                        !.todo = {r \in task[t].snap : Accepts(r)}] \in Awaits
    BY DEF TypeOK, Awaits
  <2>2. QED BY <1>11, <1>a, <2>1 DEF SnapshotRead, TypeOK
<1>12. ASSUME NEW t \in Tasks, UpsertRow(t) PROVE TypeOK'
  <2>1. PICK r \in task[t].todo :
          Upsert(r) /\ task' = [task EXCEPT ![t].todo = @ \ {r}]
    BY <1>12 DEF UpsertRow
  <2>2. r \in Reports
    BY <2>1 DEF TypeOK, Awaits
  <2>3. task' \in [Tasks -> Awaits]
    BY <2>1 DEF TypeOK, Awaits
  <2>4. QED BY <1>12, <2>1, <2>2, <2>3, UpsertType DEF UpsertRow, TypeOK
<1>13. ASSUME NEW t \in Tasks, UpsertDone(t) PROVE TypeOK'
  BY <1>13, GotoType DEF UpsertDone, TypeOK
<1>14. ASSUME NEW t \in Tasks, CancelMissing(t) PROVE TypeOK'
  <2>1. row' \in [Orders -> Rows]
    BY <1>14, CancelType DEF CancelMissing, TypeOK
  <2>2. QED BY <1>14, <2>1, GotoType DEF CancelMissing, TypeOK
<1>15. ASSUME NEW t \in Tasks, RefreshCache(t) PROVE TypeOK'
  BY <1>15, <1>a DEF RefreshCache, ActiveRows, TypeOK
<1>16. ASSUME NEW t \in Tasks, UpsertFails(t) PROVE TypeOK'
  <2>1. task' \in [Tasks -> Awaits]
    BY <1>16 DEF UpsertFails, TypeOK, Awaits
  <2>2. listed' \in [Orders -> Time]
    BY <1>16 DEF UpsertFails, TypeOK, Time
  <2>3. faults' \in 0 .. MaxFault
    BY <1>16 DEF UpsertFails, TypeOK
  <2>4. QED BY <1>16, <2>1, <2>2, <2>3 DEF UpsertFails, TypeOK
<1>17. ASSUME NEW o \in Orders, PluginFill(o) PROVE TypeOK'
  <2>1. row' \in [Orders -> Rows]
    BY <1>17 DEF PluginFill, TypeOK, Rows
  <2>2. QED BY <1>17, <2>1 DEF PluginFill, TypeOK
<1>18. CASE Crash
  <2>1. listed' \in [Orders -> Time]
    BY <1>18 DEF Crash, Time
  <2>2. faults' \in 0 .. MaxFault
    BY <1>18 DEF Crash, TypeOK
  <2>3. task' \in [Tasks -> Awaits]
    BY <1>18, <1>a DEF Crash
  <2>4. QED BY <1>18, <2>1, <2>2, <2>3 DEF Crash, TypeOK
<1>19. CASE UNCHANGED vars
  BY <1>19 DEF vars, TypeOK
<1>20. QED
  BY <1>2, <1>3, <1>4, <1>5, <1>6, <1>7, <1>8, <1>9, <1>10, <1>11,
     <1>12, <1>13, <1>14, <1>15, <1>16, <1>17, <1>18, <1>19
     DEF Next, ExchangeStep, TaskStep

THEOREM TypeCorrect == Spec => []TypeOK
  BY TypeInit, TypeStep, PTL DEF Spec

-----------------------------------------------------------------------------
(* The open-order cache.                                                     *)

\* The settled cache is a safe invariant as it stands: every task that writes
\* the table is unsettled until its own refresh_cache.
LEMMA CacheStep == TypeOK /\ CacheCoherent /\ [Next]_vars => CacheCoherent'
<1> SUFFICES ASSUME TypeOK, CacheCoherent, [Next]_vars PROVE CacheCoherent'
    OBVIOUS
<1> USE DEF CacheCoherent, Settled, exchange
<1>1. ASSUME UNCHANGED <<row, cache, warm, task>> PROVE CacheCoherent'
  BY <1>1 DEF ActiveRows
<1>2. ASSUME NEW t \in Tasks, task'[t].pc \in {"upsert", "cancel", "refresh"}
      PROVE  CacheCoherent'
  BY <1>2
<1>3. ASSUME NEW o \in Orders, NEW s \in Status, ExMove(o, s) PROVE CacheCoherent'
  BY <1>1, <1>3 DEF ExMove
<1>4. ASSUME NEW o \in Orders, ExTouch(o) PROVE CacheCoherent'
  BY <1>1, <1>4 DEF ExTouch
<1>5. CASE Tick \/ StreamDrops
  BY <1>1, <1>5 DEF Tick, StreamDrops
<1>6. CASE WsRead
  BY <1>1, <1>2, <1>6 DEF WsRead, Tasks, TypeOK
<1>7. CASE FetchAlgoOrders
  BY <1>2, <1>7 DEF FetchAlgoOrders, Tasks, TypeOK
<1>8. CASE CancelMissingAlgo
  BY <1>2, <1>8 DEF CancelMissingAlgo, Goto, Tasks, TypeOK, Awaits
<1>9. CASE StaleSweep
  BY <1>2, <1>9 DEF StaleSweep, Goto, Tasks, TypeOK, Awaits
<1>10. ASSUME NEW t \in Tasks, FetchOpenOrders(t) PROVE CacheCoherent'
  BY <1>10 DEF FetchOpenOrders, TypeOK, ActiveRows
<1>11. ASSUME NEW t \in Tasks, SnapshotRead(t) PROVE CacheCoherent'
  <2>1. CASE task[t].snap = {} /\ cache = {}
    BY <1>11, <2>1 DEF SnapshotRead, TypeOK, ActiveRows, Idle
  <2>2. CASE ~(task[t].snap = {} /\ cache = {})
    <3>1. task'[t].pc = "upsert"
      BY <1>11, <2>2 DEF SnapshotRead, TypeOK, Awaits
    <3>2. QED BY <1>2, <3>1
  <2>3. QED BY <2>1, <2>2
<1>12. ASSUME NEW t \in Tasks, UpsertRow(t) PROVE CacheCoherent'
  BY <1>2, <1>12 DEF UpsertRow, TypeOK, Awaits
<1>13. ASSUME NEW t \in Tasks, UpsertDone(t) PROVE CacheCoherent'
  BY <1>2, <1>13 DEF UpsertDone, Goto, TypeOK, Awaits
<1>14. ASSUME NEW t \in Tasks, CancelMissing(t) PROVE CacheCoherent'
  BY <1>2, <1>14 DEF CancelMissing, Goto, TypeOK, Awaits
<1>15. ASSUME NEW t \in Tasks, RefreshCache(t) PROVE CacheCoherent'
  BY <1>15 DEF RefreshCache, ActiveRows
<1>16. ASSUME NEW t \in Tasks, UpsertFails(t) PROVE CacheCoherent'
  BY <1>2, <1>16 DEF UpsertFails, TypeOK, Awaits
<1>17. ASSUME NEW o \in Orders, PluginFill(o) PROVE CacheCoherent'
  <2>1. \A p \in Orders : row'[p].status = row[p].status
    BY <1>17 DEF PluginFill, TypeOK, Rows
  <2>2. QED BY <1>17, <2>1 DEF PluginFill, ActiveRows
<1>18. CASE Crash
  BY <1>18 DEF Crash
<1>19. CASE UNCHANGED vars
  BY <1>1, <1>19 DEF vars
<1>20. QED
  BY <1>3, <1>4, <1>5, <1>6, <1>7, <1>8, <1>9, <1>10, <1>11, <1>12, <1>13,
     <1>14, <1>15, <1>16, <1>17, <1>18, <1>19, BoundsAssumption
     DEF Next, ExchangeStep, TaskStep

\* When no task is between a write and its refresh_cache, the dashboard's open
\* orders are the active rows of the table.
THEOREM CacheIsCoherent == Spec => []CacheCoherent
<1>1. Init => CacheCoherent
  BY DEF Init, CacheCoherent
<1>2. QED BY <1>1, CacheStep, TypeCorrect, PTL DEF Spec

-----------------------------------------------------------------------------
(* The stamps of the orders table.                                           *)

\* Whatever a task is about to write was reported by the exchange, and nothing
\* known to the engine is stamped later than the clock.
InFlight ==
    /\ stream \in Seq(log)
    /\ \A t \in Tasks : task[t].snap \subseteq log /\ task[t].todo \subseteq log
Known ==
    /\ \A o \in Orders : ex[o].status # "none" =>
                          [o |-> o, status |-> ex[o].status, at |-> ex[o].at] \in log
    /\ \A r \in log : r.at <= clock
    /\ \A o \in Orders : row[o].at <= clock
    /\ \A o \in Orders : row[o].status = "none" => row[o] = NoRow
Provenance == InFlight /\ Known

LEMMA OpenAtLog ==
    ASSUME TypeOK, Known, NEW S \in SUBSET Orders
    PROVE  OpenAt(S) \subseteq log
<1>1. ASSUME NEW o \in S, ex[o].status \in Active
      PROVE  [o |-> o, status |-> ex[o].status, at |-> ex[o].at] \in log
  BY <1>1 DEF Known, Active
<1>2. SUFFICES ASSUME NEW r \in OpenAt(S) PROVE r \in log
  OBVIOUS
<1>3. PICK o \in S : /\ ex[o].status \in Active
                     /\ r = [o |-> o, status |-> ex[o].status, at |-> ex[o].at]
  BY DEF OpenAt
<1>4. QED BY <1>1, <1>3

LEMMA InFlightStep ==
    ASSUME TypeOK, Provenance, [Next]_vars
    PROVE  InFlight'
<1> USE DEF Provenance, InFlight, TypeOK, exchange
<1>a. ASSUME UNCHANGED <<log, task>>, stream' = stream \/ stream' = <<>>
      PROVE  InFlight'
  <2>1. <<>> \in Seq(log)
    OBVIOUS
  <2>2. stream' \in Seq(log')
    BY <1>a, <2>1
  <2>3. QED BY <1>a, <2>2
<1>b. ASSUME UNCHANGED <<log, stream>>, NEW t \in Tasks, NEW a,
             task' = [task EXCEPT ![t] = a],
             a.snap \subseteq log, a.todo \subseteq log
      PROVE  InFlight'
  BY <1>b
<1>1. ASSUME NEW o \in Orders, NEW s \in Status, Report(o, s), UNCHANGED task
      PROVE  InFlight'
  BY <1>1 DEF Report
<1>2. ASSUME NEW o \in Orders, NEW s \in Status, ExMove(o, s) PROVE InFlight'
  BY <1>1, <1>2 DEF ExMove
<1>3. ASSUME NEW o \in Orders, ExTouch(o) PROVE InFlight'
  BY <1>1, <1>3 DEF ExTouch, Status
<1>4. CASE Tick \/ StreamDrops \/ \E o \in Orders : PluginFill(o)
  BY <1>a, <1>4 DEF Tick, StreamDrops, PluginFill
<1>5. CASE WsRead
  <2>1. Head(stream) \in log /\ Tail(stream) \in Seq(log)
    BY <1>5 DEF WsRead
  <2>2. QED BY <1>5, <2>1 DEF WsRead
<1>6. CASE FetchAlgoOrders
  BY <1>6, <1>b, OpenAtLog DEF FetchAlgoOrders, Orders, Tasks
<1>c. ASSUME UNCHANGED <<log, stream>>, NEW t \in Tasks, NEW p, Goto(t, p)
      PROVE  InFlight'
  BY <1>c DEF Goto, Awaits
<1>7. CASE CancelMissingAlgo \/ StaleSweep
  BY <1>7, <1>c DEF CancelMissingAlgo, StaleSweep, Tasks
<1>8. ASSUME NEW t \in Tasks, FetchOpenOrders(t) PROVE InFlight'
  BY <1>8, <1>b, OpenAtLog DEF FetchOpenOrders, Orders
<1>9. ASSUME NEW t \in Tasks, SnapshotRead(t) PROVE InFlight'
  <2>1. CASE task[t].snap = {} /\ cache = {}
    BY <1>9, <1>b, <2>1 DEF SnapshotRead, Idle
  <2>2. CASE ~(task[t].snap = {} /\ cache = {})
    BY <1>9, <2>2 DEF SnapshotRead, Awaits
  <2>3. QED BY <2>1, <2>2
<1>10. ASSUME NEW t \in Tasks, UpsertRow(t) \/ UpsertFails(t) PROVE InFlight'
  <2>1. CASE UpsertRow(t)
    BY <2>1 DEF UpsertRow, Awaits
  <2>2. CASE UpsertFails(t)
    BY <2>2 DEF UpsertFails, Awaits
  <2>3. QED BY <1>10, <2>1, <2>2
<1>11. ASSUME NEW t \in Tasks, UpsertDone(t) \/ CancelMissing(t) PROVE InFlight'
  BY <1>11, <1>c DEF UpsertDone, CancelMissing
<1>12. ASSUME NEW t \in Tasks, RefreshCache(t) PROVE InFlight'
  BY <1>12 DEF RefreshCache, Idle
<1>13. CASE Crash
  BY <1>13 DEF Crash, Idle
<1>14. CASE UNCHANGED vars
  BY <1>14, <1>a DEF vars
<1>15. QED
  BY <1>2, <1>3, <1>4, <1>5, <1>6, <1>7, <1>8, <1>9, <1>10, <1>11, <1>12,
     <1>13, <1>14, BoundsAssumption DEF Next, ExchangeStep, TaskStep

\* updated_at_ms never goes back: whoever writes a row stamps it no earlier.
LEMMA StampStep ==
    ASSUME TypeOK, Provenance, [Next]_vars, NEW o \in Orders
    PROVE  row'[o].at >= row[o].at
<1> USE DEF TypeOK, Provenance, Known, exchange
<1>a. row[o] \in Rows /\ row[o].at \in Nat /\ clock \in Nat
  BY BoundsAssumption DEF Rows, Time
<1>1. CASE UNCHANGED row
  BY <1>1, <1>a
<1>2. ASSUME NEW S, Cancel(S) PROVE row'[o].at >= row[o].at
  BY <1>2, <1>a, CancelEffect
<1>3. ASSUME NEW t \in Tasks, UpsertRow(t) PROVE row'[o].at >= row[o].at
  <2>1. PICK r \in task[t].todo : Upsert(r)
    BY <1>3 DEF UpsertRow
  <2>2. r \in log /\ r \in Reports /\ r.at \in Nat
    BY <2>1, BoundsAssumption DEF InFlight, Awaits, Reports, Time
  <2>3. CASE r.o # o
    BY <2>1, <2>3, <1>1, <1>a DEF Upsert
  <2>4. CASE r.o = o /\ row[o].status = "none"
    BY <2>1, <2>2, <2>4, <1>a DEF Upsert, NoRow
  <2>5. CASE r.o = o /\ row[o].status # "none"
    BY <2>1, <2>2, <2>5, <1>1, <1>a DEF Upsert
  <2>6. QED BY <2>3, <2>4, <2>5
<1>4. ASSUME NEW p \in Orders, PluginFill(p) PROVE row'[o].at >= row[o].at
  BY <1>4, <1>a DEF PluginFill, Rows
<1>5. ASSUME NEW t \in Tasks, CancelMissing(t) PROVE row'[o].at >= row[o].at
  BY <1>1, <1>2, <1>5 DEF CancelMissing
<1>6. CASE CancelMissingAlgo \/ StaleSweep
  BY <1>2, <1>6 DEF CancelMissingAlgo, StaleSweep
<1>7. CASE UNCHANGED vars
  BY <1>1, <1>7 DEF vars
<1>8. QED
  BY <1>1, <1>3, <1>4, <1>5, <1>6, <1>7
     DEF Next, ExchangeStep, ExMove, ExTouch, Tick, StreamDrops, WsRead,
         FetchAlgoOrders, TaskStep, FetchOpenOrders, SnapshotRead, UpsertDone,
         RefreshCache, UpsertFails, Crash

LEMMA KnownStep ==
    ASSUME TypeOK, TypeOK', Provenance, [Next]_vars
    PROVE  Known'
<1> USE BoundsAssumption DEF TypeOK, Provenance, Known, exchange, Time
<1>a. ASSUME UNCHANGED <<clock, ex, log, row>> PROVE Known'
  BY <1>a
<1>b. ASSUME UNCHANGED <<clock, ex, log>>,
             \A o \in Orders : \/ row'[o] = row[o]
                               \/ row'[o].at <= clock /\ row'[o].status # "none"
      PROVE  Known'
  BY <1>b
<1>c. ASSUME NEW S, Cancel(S), UNCHANGED <<clock, ex, log>> PROVE Known'
  BY <1>b, <1>c, CancelEffect
<1>1. ASSUME NEW o \in Orders, NEW s \in Status, Report(o, s),
             UNCHANGED <<clock, row>>
      PROVE  Known'
  <2>1. \A p \in Orders : ex'[p].status # "none" =>
          [o |-> p, status |-> ex'[p].status, at |-> ex'[p].at] \in log'
    BY <1>1 DEF Report, Stamped
  <2>2. \A r \in log' : r.at <= clock'
    BY <1>1 DEF Report
  <2>3. QED BY <1>1, <2>1, <2>2
<1>2. ASSUME NEW o \in Orders, NEW s \in Status, ExMove(o, s) PROVE Known'
  BY <1>1, <1>2 DEF ExMove
<1>3. ASSUME NEW o \in Orders, ExTouch(o) PROVE Known'
  BY <1>1, <1>3 DEF ExTouch, Status
<1>4. CASE Tick
  <2>1. \A r \in log : r.at \in Nat
    BY DEF Reports
  <2>2. \A o \in Orders : row[o].at \in Nat
    BY DEF Rows
  <2>3. QED BY <1>4, <2>1, <2>2 DEF Tick
<1>5. ASSUME NEW t \in Tasks, UpsertRow(t) PROVE Known'
  <2>1. PICK r \in task[t].todo : Upsert(r)
    BY <1>5 DEF UpsertRow
  <2>2. r \in log /\ r \in Reports /\ r.status # "none"
    BY <2>1 DEF InFlight, Awaits, Reports, Status, Active, Terminal
  <2>3. QED BY <1>5, <2>1, <2>2, <1>a, <1>b DEF UpsertRow, Upsert
<1>6. ASSUME NEW o \in Orders, PluginFill(o) PROVE Known'
  <2>1. row'[o].at <= clock /\ row'[o].status # "none"
    BY <1>6 DEF PluginFill, Rows
  <2>2. QED BY <1>6, <2>1, <1>b DEF PluginFill
<1>7. ASSUME NEW t \in Tasks, CancelMissing(t) PROVE Known'
  BY <1>7, <1>a, <1>c DEF CancelMissing
<1>8. CASE CancelMissingAlgo \/ StaleSweep
  BY <1>8, <1>c DEF CancelMissingAlgo, StaleSweep
<1>9. CASE UNCHANGED vars
  BY <1>9, <1>a DEF vars
<1>10. QED
  BY <1>2, <1>3, <1>4, <1>5, <1>6, <1>7, <1>8, <1>9, <1>a
     DEF Next, ExchangeStep, StreamDrops, WsRead, FetchAlgoOrders, TaskStep,
         FetchOpenOrders, SnapshotRead, UpsertDone, RefreshCache, UpsertFails,
         Crash

LEMMA ProvenanceInvariant == Spec => []Provenance
<1>1. Init => Provenance
  BY DEF Init, Provenance, InFlight, Known, NoRow, Unknown, Idle
<1>2. TypeOK /\ TypeOK' /\ Provenance /\ [Next]_vars => Provenance'
  BY InFlightStep, KnownStep DEF Provenance
<1>3. QED BY <1>1, <1>2, TypeCorrect, PTL DEF Spec

\* The stamp of a row never goes back, for any number of orders and tasks, with
\* lost, late and repeated reports, failing batches and restarts.
THEOREM StampsAreMonotone == Spec => StampMonotone
<1>1. TypeOK /\ Provenance /\ [Next]_vars
        => [\A o \in Orders : row'[o].at >= row[o].at]_vars
  BY StampStep
<1>2. QED BY <1>1, TypeCorrect, ProvenanceInvariant, PTL DEF Spec, StampMonotone

-----------------------------------------------------------------------------
(* The table implements OrderMachine.                                        *)

\* Any two reports of one order follow the machine in the order of their
\* stamps, and the last one accepted is no newer than its row.
Ordered ==
    /\ \A r \in log : r.at <= ex[r.o].at /\ ex[r.o].status # "none"
    /\ \A r, q \in log : r.o = q.o /\ r.at <= q.at => Follows(r.status, q.status)
Accepted ==
    \A o \in Orders : reported[o].status # "none" =>
        /\ [o |-> o, status |-> reported[o].status, at |-> reported[o].at] \in log
        /\ row[o].status # "none"
        /\ reported[o].at <= row[o].at

LEMMA OrderedStep ==
    ASSUME StrictTime, TypeOK, Provenance, Ordered, [Next]_vars
    PROVE  Ordered'
<1> USE DEF Ordered, exchange
<1>a. CASE UNCHANGED <<ex, log>>
  BY <1>a
<1>1. ASSUME NEW o \in Orders, NEW s \in Status, Report(o, s),
             \/ ex[o].status = "none"
             \/ ex[o].status = s
             \/ ex[o].status # "none" /\ ValidateTransition(ex[o].status, s)
      PROVE  Ordered'
  <2> DEFINE new == [o |-> o, status |-> s, at |-> clock]
  <2>a. /\ \A p \in Orders : ex[p].at \in Nat /\ ex[p].status \in Status \cup {"none"}
        /\ clock \in Nat /\ ex[o].at < clock
        /\ \A r \in log : r.o \in Orders /\ r.at \in Nat /\ r.status \in Status
    BY <1>1, BoundsAssumption DEF TypeOK, Stamped, Reports, Report, Time
  <2>b. /\ ex'[o].status = s /\ ex'[o].at = clock
        /\ \A p \in Orders : p # o => ex'[p] = ex[p]
        /\ log' = log \cup {new}
    BY <1>1 DEF Report, TypeOK
  <2>1. \A r \in log' : r.at <= ex'[r.o].at /\ ex'[r.o].status # "none"
    <3>1. ASSUME NEW r \in log PROVE r.at <= ex'[r.o].at /\ ex'[r.o].status # "none"
      <4>1. CASE r.o = o
        BY <2>a, <2>b, <4>1 DEF Status, Active, Terminal
      <4>2. CASE r.o # o
        BY <2>a, <2>b, <4>2
      <4>3. QED BY <4>1, <4>2
    <3>2. new.at <= ex'[new.o].at /\ ex'[new.o].status # "none"
      BY <2>a, <2>b DEF Status, Active, Terminal
    <3>3. QED BY <2>b, <3>1, <3>2
  <2>2. ASSUME NEW r \in log, r.o = o
        PROVE  r.at < clock /\ Follows(r.status, s)
    <3>1. r.at <= ex[o].at /\ ex[o].status # "none"
      BY <2>2
    <3>2. [o |-> o, status |-> ex[o].status, at |-> ex[o].at] \in log
      BY <3>1 DEF Provenance, Known
    <3>3. Follows(r.status, ex[o].status)
      BY <2>2, <3>1, <3>2
    <3>4. Follows(r.status, s)
      BY <1>1, <2>a, <3>1, <3>3, TransitionsCompose DEF Follows
    <3>5. QED BY <2>a, <3>1, <3>4
  <2>3. ASSUME NEW r \in log', NEW q \in log', r.o = q.o, r.at <= q.at
        PROVE  Follows(r.status, q.status)
    <3>1. CASE r \in log /\ q \in log
      BY <2>3, <3>1
    <3>2. CASE r \in log /\ q = new
      BY <2>2, <2>3, <3>2
    <3>3. CASE r = new /\ q \in log
      BY <2>2, <2>3, <2>a, <3>3
    <3>4. CASE r = new /\ q = new
      BY <3>4 DEF Follows
    <3>5. QED BY <2>b, <3>1, <3>2, <3>3, <3>4
  <2>4. QED BY <2>1, <2>3
<1>2. ASSUME NEW o \in Orders, NEW s \in Status, ExMove(o, s) PROVE Ordered'
  BY <1>1, <1>2 DEF ExMove
<1>3. ASSUME NEW o \in Orders, ExTouch(o) PROVE Ordered'
  BY <1>1, <1>3 DEF ExTouch, Status
<1>4. QED
  BY <1>2, <1>3, <1>a, BoundsAssumption
     DEF Next, ExchangeStep, Tick, StreamDrops, WsRead, FetchAlgoOrders,
         CancelMissingAlgo, StaleSweep, TaskStep, FetchOpenOrders, SnapshotRead,
         UpsertRow, UpsertDone, CancelMissing, RefreshCache, UpsertFails,
         PluginFill, Crash, vars

\* What a report does to the last accepted one: nothing, or a move along the
\* machine.
LEMMA AcceptStep ==
    ASSUME TypeOK, Provenance, Ordered, Accepted, NEW r \in log, Upsert(r)
    PROVE  \/ UNCHANGED reported
           \/ /\ reported' = [reported EXCEPT ![r.o] = [status |-> r.status,
                                                         at |-> r.at]]
              /\ \/ reported[r.o].status = "none"
                 \/ Follows(reported[r.o].status, r.status)
<1>1. r \in Reports
  BY DEF TypeOK
<1>2. CASE reported[r.o].status # "none" /\ r.at >= row[r.o].at
  <2> DEFINE last == [o |-> r.o, status |-> reported[r.o].status,
                      at |-> reported[r.o].at]
  <2>1. last \in log /\ reported[r.o].at <= row[r.o].at
    BY <1>1, <1>2 DEF Accepted, Reports
  <2>2. last.at <= r.at
    BY <1>1, <1>2, <2>1, BoundsAssumption
       DEF TypeOK, Stamped, Rows, Reports, Time
  <2>3. Follows(reported[r.o].status, r.status)
    BY <2>1, <2>2 DEF Ordered
  <2>4. QED BY <2>3 DEF Upsert
<1>3. CASE row[r.o].status = "none"
  BY <1>1, <1>3 DEF Accepted, Upsert, Reports
<1>4. QED BY <1>2, <1>3 DEF Upsert

LEMMA AcceptedStep ==
    ASSUME TypeOK, TypeOK', Provenance, Accepted, [Next]_vars
    PROVE  Accepted'
<1> USE DEF Accepted, exchange
<1>a. ASSUME UNCHANGED <<row, reported>>, log \subseteq log' PROVE Accepted'
  BY <1>a
<1>b. ASSUME UNCHANGED <<log, reported>>,
             \A o \in Orders : row'[o] = row[o] \/ (/\ row'[o].status # "none"
                                                   /\ row'[o].at >= row[o].at)
      PROVE  Accepted'
  <2>1. \A o \in Orders : row[o].at \in Nat /\ reported[o].at \in Nat
    BY BoundsAssumption DEF TypeOK, Rows, Stamped, Time
  <2>2. \A o \in Orders : row'[o].at \in Nat
    BY BoundsAssumption DEF TypeOK, Rows, Time
  <2>3. QED BY <1>b, <2>1, <2>2
<1>c. ASSUME NEW S, Cancel(S), UNCHANGED <<clock, log, reported>> PROVE Accepted'
  <2>1. \A o \in Orders : row[o].at <= clock
    BY DEF Provenance, Known
  <2>2. QED BY <1>b, <1>c, <2>1, CancelEffect
<1>1. ASSUME NEW t \in Tasks, UpsertRow(t) PROVE Accepted'
  <2>1. PICK r \in task[t].todo : Upsert(r)
    BY <1>1 DEF UpsertRow
  <2>2. r \in Reports /\ r \in log /\ r = [o |-> r.o, status |-> r.status, at |-> r.at]
    BY <2>1 DEF TypeOK, Awaits, Provenance, InFlight, Reports
  <2>3. r.status # "none" /\ r.at <= r.at
    BY <2>2, BoundsAssumption DEF Reports, Status, Active, Terminal, Time
  <2>4. CASE UNCHANGED <<row, reported>>
    BY <1>1, <1>a, <2>4 DEF UpsertRow
  <2>5. CASE /\ row' = [row EXCEPT ![r.o] = [status |-> r.status, at |-> r.at,
                                             seen |-> clock]]
             /\ reported' = [reported EXCEPT ![r.o] = [status |-> r.status,
                                                       at |-> r.at]]
    BY <1>1, <2>2, <2>3, <2>5 DEF UpsertRow, TypeOK
  <2>6. QED BY <2>1, <2>4, <2>5 DEF Upsert
<1>2. ASSUME NEW o \in Orders, PluginFill(o) PROVE Accepted'
  <2>1. row'[o].status # "none" /\ row'[o].at >= row[o].at
    BY <1>2, StampStep DEF PluginFill, TypeOK, Rows
  <2>2. QED BY <1>2, <2>1, <1>b DEF PluginFill, TypeOK
<1>3. ASSUME NEW t \in Tasks, CancelMissing(t) PROVE Accepted'
  BY <1>3, <1>a, <1>c DEF CancelMissing
<1>4. CASE CancelMissingAlgo \/ StaleSweep
  BY <1>4, <1>c DEF CancelMissingAlgo, StaleSweep
<1>5. QED
  BY <1>1, <1>2, <1>3, <1>4, <1>a
     DEF Next, ExchangeStep, ExMove, ExTouch, Report, Tick, StreamDrops, WsRead,
         FetchAlgoOrders, TaskStep, FetchOpenOrders, SnapshotRead, UpsertDone,
         RefreshCache, UpsertFails, Crash, vars

LEMMA OrderedInvariant == ASSUME StrictTime PROVE Spec => [](Ordered /\ Accepted)
<1>1. Init => Ordered /\ Accepted
  BY DEF Init, Ordered, Accepted, Unknown
<1>2. TypeOK /\ TypeOK' /\ Provenance /\ Ordered /\ Accepted /\ [Next]_vars
        => (Ordered /\ Accepted)'
  BY OrderedStep, AcceptedStep
<1>3. QED BY <1>1, <1>2, TypeCorrect, ProvenanceInvariant, PTL DEF Spec

LEMMA MachineStep ==
    ASSUME TypeOK, Provenance, Ordered, Accepted, [Next]_vars
    PROVE  [Machine!Next]_([o \in Orders |-> reported[o].status])
<1> DEFINE bar == [o \in Orders |-> reported[o].status]
<1>1. CASE UNCHANGED reported
  BY <1>1
<1>2. ASSUME NEW t \in Tasks, UpsertRow(t) PROVE Machine!Next \/ UNCHANGED bar
  <2>1. PICK r \in task[t].todo : Upsert(r)
    BY <1>2 DEF UpsertRow
  <2>2. r \in log /\ r.o \in Orders /\ r.status \in Status
    BY <2>1 DEF TypeOK, Awaits, Provenance, InFlight, Reports
  <2>3. CASE /\ reported' = [reported EXCEPT ![r.o] = [status |-> r.status,
                                                       at |-> r.at]]
             /\ \/ reported[r.o].status = "none"
                \/ Follows(reported[r.o].status, r.status)
    <3>1. bar' = [bar EXCEPT ![r.o] = r.status]
      BY <2>2, <2>3 DEF TypeOK
    <3>2. CASE reported[r.o].status = r.status
      BY <2>2, <3>1, <3>2
    <3>3. CASE \/ reported[r.o].status = "none"
               \/ ValidateTransition(reported[r.o].status, r.status)
      <4>1. Machine!Move(r.o, r.status)
        BY <2>2, <3>1, <3>3 DEF Machine!Move, Machine!ValidateTransition,
           Machine!ValidTransitions, ValidateTransition, ValidTransitions,
           Machine!Status, Machine!Active, Machine!Terminal,
           Status, Active, Terminal
      <4>2. QED BY <2>2, <4>1 DEF Machine!Next, Machine!Status, Machine!Active,
                                 Machine!Terminal, Status, Active, Terminal
    <3>4. QED BY <2>3, <3>2, <3>3 DEF Follows
  <2>4. QED BY <2>1, <2>2, <2>3, <1>1, AcceptStep
<1>3. QED
  BY <1>1, <1>2
     DEF Next, ExchangeStep, ExMove, ExTouch, Report, Tick, StreamDrops, WsRead,
         FetchAlgoOrders, CancelMissingAlgo, StaleSweep, TaskStep,
         FetchOpenOrders, SnapshotRead, UpsertDone, CancelMissing, RefreshCache,
         UpsertFails, PluginFill, Crash, vars

\* The accepted reports of every order follow VALID_TRANSITIONS, although only
\* active rows are checked against it: the stamps do the rest, provided no two
\* reports of one order carry the same millisecond.
THEOREM TableFollowsMachine == ASSUME StrictTime PROVE Spec => FollowsMachine
<1>1. Init => Machine!Init
  BY DEF Init, Machine!Init, Unknown
<1>2. TypeOK /\ Provenance /\ Ordered /\ Accepted /\ [Next]_vars
        => [Machine!Next]_([o \in Orders |-> reported[o].status])
  BY MachineStep
<1>3. QED
  BY <1>1, <1>2, TypeCorrect, ProvenanceInvariant, OrderedInvariant, PTL
     DEF Spec, FollowsMachine, Machine!Spec

\* A row says what the exchange last reported, unless the engine canceled it.
RowSays == \A o \in Orders : row[o].status \in {reported[o].status, "canceled"}

LEMMA RowSaysStep == TypeOK /\ Provenance /\ RowSays /\ [Next]_vars => RowSays'
<1> SUFFICES ASSUME TypeOK, Provenance, RowSays, [Next]_vars PROVE RowSays'
    OBVIOUS
<1> USE DEF RowSays
<1>1. CASE UNCHANGED <<row, reported>>
  BY <1>1
<1>2. ASSUME NEW S, Cancel(S), UNCHANGED reported PROVE RowSays'
  BY <1>2, CancelEffect
<1>3. ASSUME NEW t \in Tasks, UpsertRow(t) PROVE RowSays'
  <2>1. PICK r \in task[t].todo : Upsert(r)
    BY <1>3 DEF UpsertRow
  <2>2. r.o \in Orders
    BY <2>1 DEF TypeOK, Awaits, Reports
  <2>3. QED BY <2>1, <2>2, <1>1 DEF Upsert, TypeOK
<1>4. ASSUME NEW o \in Orders, PluginFill(o) PROVE RowSays'
  <2>1. \A p \in Orders : row'[p].status = row[p].status
    BY <1>4 DEF PluginFill, TypeOK, Rows
  <2>2. QED BY <1>4, <2>1 DEF PluginFill
<1>5. ASSUME NEW t \in Tasks, CancelMissing(t) PROVE RowSays'
  BY <1>1, <1>2, <1>5 DEF CancelMissing
<1>6. QED
  BY <1>1, <1>2, <1>3, <1>4, <1>5
     DEF Next, ExchangeStep, ExMove, ExTouch, Report, Tick, StreamDrops, WsRead,
         FetchAlgoOrders, CancelMissingAlgo, StaleSweep, TaskStep,
         FetchOpenOrders, SnapshotRead, UpsertDone, RefreshCache,
         UpsertFails, Crash, vars

\* A row whose closing report was stored never returns to the open orders.
THEOREM ClosedIsFinal == ASSUME StrictTime PROVE Spec => ClosedStaysClosed
<1>1. Init => RowSays
  BY DEF Init, RowSays, Unknown, NoRow
<1>2. ASSUME TypeOK, Provenance, Ordered, Accepted, RowSays', [Next]_vars,
             NEW o \in Orders, reported[o].status \in Terminal
      PROVE  row'[o].status \notin Active
  <2>1. reported'[o].status \in Terminal
    <3>1. CASE UNCHANGED reported
      BY <1>2, <3>1
    <3>2. ASSUME NEW t \in Tasks, UpsertRow(t) PROVE reported'[o].status \in Terminal
      <4>1. PICK r \in task[t].todo : Upsert(r)
        BY <3>2 DEF UpsertRow
      <4>2. r \in log /\ r.o \in Orders /\ r.status \in Status
        BY <1>2, <4>1 DEF TypeOK, Awaits, Provenance, InFlight, Reports
      <4>3. ASSUME NEW u \in Terminal, NEW v, Follows(u, v) PROVE v = u
        BY <4>3 DEF Follows, ValidateTransition, ValidTransitions, Terminal
      <4>4. reported[o].status # "none"
        BY <1>2 DEF Terminal
      <4>5. CASE UNCHANGED reported
        BY <1>2, <4>5
      <4>6. CASE /\ reported' = [reported EXCEPT ![r.o] = [status |-> r.status,
                                                           at |-> r.at]]
                 /\ \/ reported[r.o].status = "none"
                    \/ Follows(reported[r.o].status, r.status)
        BY <1>2, <4>2, <4>3, <4>4, <4>6 DEF TypeOK
      <4>7. QED BY <1>2, <4>1, <4>2, <4>5, <4>6, AcceptStep
    <3>3. QED
      BY <1>2, <3>1, <3>2
         DEF Next, ExchangeStep, ExMove, ExTouch, Report, Tick, StreamDrops,
             WsRead, FetchAlgoOrders, CancelMissingAlgo, StaleSweep, TaskStep,
             FetchOpenOrders, SnapshotRead, UpsertDone, CancelMissing,
             RefreshCache, UpsertFails, PluginFill, Crash, vars
  <2>2. QED BY <1>2, <2>1 DEF RowSays, Terminal, Active
<1>3. TypeOK /\ Provenance /\ Ordered /\ Accepted /\ RowSays' /\ [Next]_vars
        => [\A o \in Orders : reported[o].status \in Terminal
                               => row'[o].status \notin Active]_vars
  BY <1>2
<1>4. QED
  BY <1>1, <1>3, RowSaysStep, TypeCorrect, ProvenanceInvariant, OrderedInvariant,
     PTL DEF Spec, ClosedStaysClosed
-----------------------------------------------------------------------------
(* The staleness sweep and the conditional-order sync.                       *)

Unread(o) == task["algo"].pc = "upsert" /\ \E r \in task["algo"].todo : r.o = o

\* The sync writes conditional orders only, of each what it listed.
AlgoTask ==
    /\ task["algo"].pc # "read"
    /\ \A r \in task["algo"].todo : r.o \in Algo

\* The exchange's state is the last report, and no listing is of the future.
Latest ==
    /\ \A r \in log : r.at <= ex[r.o].at
    /\ \A o \in Orders : ex[o].at <= clock /\ listed[o] <= clock

\* A report newer than what the sync is about to write was made after the
\* listing: a row that is too new to be rewritten has been seen since.
NoneSince ==
    \A r \in task["algo"].todo : \A l \in log :
        l.o = r.o /\ l.at > r.at => l.at >= listed[r.o]

\* The row of an open conditional order shows a report, was seen when that was
\* made or later, and since the last listing, which else is still to be written.
Sighted ==
    \A o \in Algo : row[o].status \in Active =>
        /\ row[o].at <= row[o].seen
        /\ \E l \in log : l.o = o /\ l.at = row[o].at
        /\ row[o].seen >= listed[o] \/ Unread(o)

SyncOnTime == AlgoTask /\ Latest /\ NoneSince /\ Sighted

LEMMA AlgoTaskStep == TypeOK /\ AlgoTask /\ [Next]_vars => AlgoTask'
<1> SUFFICES ASSUME TypeOK, AlgoTask, [Next]_vars PROVE AlgoTask'
    OBVIOUS
<1> USE DEF AlgoTask, exchange
<1>a. "algo" \in Tasks /\ "algo" # "ws" /\ "algo" # "stale" /\ "algo" \notin SnapshotTasks
  BY TasksAssumption DEF Tasks
<1>b. task \in [Tasks -> Awaits] /\ \A t \in Tasks : task[t] \in Awaits
  BY DEF TypeOK
<1>1. CASE UNCHANGED task
  BY <1>1
<1>2. ASSUME NEW t \in Tasks, t # "algo", NEW a, task' = [task EXCEPT ![t] = a]
      PROVE  AlgoTask'
  BY <1>2, <1>a, <1>b
<1>3. ASSUME NEW t \in Tasks, NEW p, Goto(t, p), p # "read" PROVE AlgoTask'
  BY <1>3, <1>a, <1>b DEF Goto, Awaits
<1>4. CASE FetchAlgoOrders
  BY <1>4, <1>a, <1>b DEF FetchAlgoOrders, OpenAt
<1>5. CASE WsRead
  BY <1>5, <1>1, <1>2 DEF WsRead, Tasks
<1>6. CASE CancelMissingAlgo \/ StaleSweep
  BY <1>6, <1>3 DEF CancelMissingAlgo, StaleSweep, Tasks
<1>7. ASSUME NEW t \in Tasks, FetchOpenOrders(t) PROVE AlgoTask'
  BY <1>7, <1>2, <1>a DEF FetchOpenOrders
<1>8. ASSUME NEW t \in Tasks, SnapshotRead(t) PROVE AlgoTask'
  <2>1. t # "algo"
    BY <1>8 DEF SnapshotRead
  <2>2. QED BY <1>8, <1>a, <1>b, <2>1 DEF SnapshotRead
<1>9. ASSUME NEW t \in Tasks, UpsertRow(t) PROVE AlgoTask'
  BY <1>9, <1>a, <1>b DEF UpsertRow, Awaits
<1>10. ASSUME NEW t \in Tasks, UpsertFails(t) PROVE AlgoTask'
  BY <1>10, <1>a, <1>b DEF UpsertFails, Awaits
<1>11. ASSUME NEW t \in Tasks, UpsertDone(t) \/ CancelMissing(t) PROVE AlgoTask'
  BY <1>11, <1>3 DEF UpsertDone, CancelMissing
<1>12. ASSUME NEW t \in Tasks, RefreshCache(t) PROVE AlgoTask'
  BY <1>12, <1>a, <1>b DEF RefreshCache, Idle
<1>13. CASE Crash
  BY <1>13, <1>a DEF Crash, Idle
<1>14. QED
  BY <1>1, <1>4, <1>5, <1>6, <1>7, <1>8, <1>9, <1>10, <1>11, <1>12, <1>13
     DEF Next, ExchangeStep, ExMove, ExTouch, Report, Tick, StreamDrops, TaskStep,
         PluginFill, vars

\* What listed may become.
LEMMA ListedEffect ==
    ASSUME TypeOK, [Next]_vars, NEW o \in Orders
    PROVE  \/ listed'[o] = listed[o]
           \/ listed'[o] = 0
           \/ /\ listed'[o] = clock
              /\ o \in Algo => FetchAlgoOrders
<1> USE DEF TypeOK, exchange
<1>1. CASE UNCHANGED listed
  BY <1>1
<1>2. CASE FetchAlgoOrders
  BY <1>2 DEF FetchAlgoOrders, ListedNow
<1>3. ASSUME NEW t \in Tasks, FetchOpenOrders(t)
      PROVE  listed'[o] = listed[o] \/ (listed'[o] = clock /\ o \notin Algo)
  BY <1>3, TasksAssumption DEF FetchOpenOrders, ListedNow, OpenAt
<1>4. ASSUME NEW t \in Tasks, UpsertFails(t)
      PROVE  listed'[o] = listed[o] \/ listed'[o] = 0
  BY <1>4 DEF UpsertFails
<1>5. CASE Crash
  BY <1>5 DEF Crash
<1>6. QED
  BY <1>1, <1>2, <1>3, <1>4, <1>5
     DEF Next, ExchangeStep, ExMove, ExTouch, Report, Tick, StreamDrops, WsRead,
         CancelMissingAlgo, StaleSweep, TaskStep, SnapshotRead, UpsertRow,
         UpsertDone, CancelMissing, RefreshCache, PluginFill, vars

\* What the exchange may do: nothing, or one report stamped with the clock.
LEMMA ExchangeEffect ==
    ASSUME TypeOK, [Next]_vars
    PROVE  \/ UNCHANGED <<log, ex, clock>>
           \/ UNCHANGED <<log, ex>> /\ clock' = clock + 1 /\ Tick
           \/ /\ UNCHANGED <<clock, task, row, listed>>
              /\ \E o \in Orders, s \in Status :
                   /\ ex' = [ex EXCEPT ![o] = [status |-> s, at |-> clock]]
                   /\ log' = log \cup {[o |-> o, status |-> s, at |-> clock]}
<1> USE DEF exchange
<1>1. ASSUME NEW o \in Orders, NEW s \in ExStatuses, ExMove(o, s)
      PROVE  /\ UNCHANGED <<clock, task, row, listed>> /\ s \in Status
             /\ ex' = [ex EXCEPT ![o] = [status |-> s, at |-> clock]]
             /\ log' = log \cup {[o |-> o, status |-> s, at |-> clock]}
  BY <1>1, BoundsAssumption DEF ExMove, Report
<1>2. ASSUME NEW o \in Orders, ExTouch(o)
      PROVE  /\ UNCHANGED <<clock, task, row, listed>> /\ ex[o].status \in Status
             /\ ex' = [ex EXCEPT ![o] = [status |-> ex[o].status, at |-> clock]]
             /\ log' = log \cup {[o |-> o, status |-> ex[o].status, at |-> clock]}
  BY <1>2 DEF ExTouch, Report, Status
<1>3. CASE ExchangeStep
  BY <1>1, <1>2, <1>3 DEF ExchangeStep
<1>4. CASE Tick
  BY <1>4 DEF Tick
<1>5. QED
  BY <1>3, <1>4
     DEF Next, StreamDrops, WsRead, FetchAlgoOrders, CancelMissingAlgo, StaleSweep,
         TaskStep, FetchOpenOrders, SnapshotRead, UpsertRow, UpsertDone,
         CancelMissing, RefreshCache, UpsertFails, PluginFill, Crash, vars

LEMMA LatestStep == TypeOK /\ Latest /\ [Next]_vars => Latest'
<1> SUFFICES ASSUME TypeOK, Latest, [Next]_vars PROVE Latest'
    OBVIOUS
<1> USE DEF Latest
<1>a. /\ clock \in Nat /\ clock' \in Nat /\ clock' >= clock
      /\ \A o \in Orders : listed[o] \in Nat /\ ex[o].at \in Nat
      /\ \A r \in log : r.at \in Nat /\ r.o \in Orders
  BY ExchangeEffect, BoundsAssumption DEF TypeOK, Time, Reports, Stamped
<1>1. \A o \in Orders : listed'[o] <= clock'
  BY <1>a, ListedEffect
<1>2. CASE UNCHANGED <<log, ex>>
  BY <1>1, <1>2, <1>a
<1>3. ASSUME UNCHANGED clock, NEW o \in Orders, NEW s \in Status,
             ex' = [ex EXCEPT ![o] = [status |-> s, at |-> clock]],
             log' = log \cup {[o |-> o, status |-> s, at |-> clock]}
      PROVE  Latest'
  <2>1. \A p \in Orders : ex'[p].at \in {ex[p].at, clock} /\ ex'[p].at >= ex[p].at
    BY <1>3, <1>a DEF TypeOK
  <2>2. ex'[o].at = clock
    BY <1>3 DEF TypeOK
  <2>3. \A r \in log' : r.at <= ex'[r.o].at
    BY <1>3, <1>a, <2>1, <2>2
  <2>4. QED BY <1>1, <1>3, <1>a, <2>1, <2>3
<1>4. QED BY <1>2, <1>3, ExchangeEffect

\* What the sync's task holds is what it listed, or what it held before.
LEMMA TodoEffect ==
    ASSUME TypeOK, AlgoTask, [Next]_vars
    PROVE  \/ FetchAlgoOrders
           \/ task'["algo"].todo \subseteq task["algo"].todo
<1> USE DEF exchange
<1>a. "algo" \in Tasks /\ "algo" # "ws" /\ "algo" # "stale" /\ "algo" \notin SnapshotTasks
  BY TasksAssumption DEF Tasks
<1>b. task \in [Tasks -> Awaits] /\ \A t \in Tasks : task[t] \in Awaits
  BY DEF TypeOK
<1>3. ASSUME NEW t \in Tasks, NEW p, Goto(t, p)
      PROVE  task'["algo"].todo \subseteq task["algo"].todo
  BY <1>3, <1>a, <1>b DEF Goto, Awaits
<1>5. CASE WsRead
  BY <1>5, <1>a, <1>b DEF WsRead
<1>6. CASE CancelMissingAlgo \/ StaleSweep
  BY <1>6, <1>3 DEF CancelMissingAlgo, StaleSweep, Tasks
<1>7. ASSUME NEW t \in Tasks, FetchOpenOrders(t) \/ SnapshotRead(t)
      PROVE  task'["algo"].todo \subseteq task["algo"].todo
  <2>1. t # "algo"
    BY <1>7, <1>a DEF SnapshotRead, FetchOpenOrders, AlgoTask
  <2>2. QED BY <1>7, <1>a, <1>b, <2>1 DEF SnapshotRead, FetchOpenOrders
<1>9. ASSUME NEW t \in Tasks, UpsertRow(t) \/ UpsertFails(t)
      PROVE  task'["algo"].todo \subseteq task["algo"].todo
  BY <1>9, <1>a, <1>b DEF UpsertRow, UpsertFails, Awaits
<1>11. ASSUME NEW t \in Tasks, UpsertDone(t) \/ CancelMissing(t)
      PROVE  task'["algo"].todo \subseteq task["algo"].todo
  BY <1>11, <1>3 DEF UpsertDone, CancelMissing
<1>12. ASSUME NEW t \in Tasks, RefreshCache(t)
      PROVE  task'["algo"].todo \subseteq task["algo"].todo
  BY <1>12, <1>a, <1>b DEF RefreshCache, Idle
<1>13. CASE Crash
  BY <1>13, <1>a DEF Crash, Idle
<1>14. QED
  BY <1>5, <1>6, <1>7, <1>9, <1>11, <1>12, <1>13
     DEF Next, ExchangeStep, ExMove, ExTouch, Report, Tick, StreamDrops, TaskStep,
         PluginFill, vars

LEMMA NoneSinceStep ==
    ASSUME TypeOK, TypeOK', Provenance, AlgoTask, Latest, NoneSince, [Next]_vars
    PROVE  NoneSince'
<1>a. /\ clock \in Nat
      /\ \A o \in Orders : listed[o] \in Nat /\ listed'[o] \in Nat
      /\ \A r \in log : r.at \in Nat /\ r.o \in Orders
      /\ \A r \in log' : r.at \in Nat /\ r.o \in Orders
      /\ \A r \in task["algo"].todo : r.o \in Algo /\ r.o \in Orders /\ r \in log
  BY BoundsAssumption
     DEF TypeOK, Time, Reports, AlgoTask, Orders, Provenance, InFlight, Tasks
<1>1. CASE FetchAlgoOrders
  <2>1. UNCHANGED <<log, ex>> /\ task'["algo"].todo = OpenAt(Algo)
    BY <1>1 DEF FetchAlgoOrders, exchange, TypeOK, Tasks
  <2>2. \A r \in OpenAt(Algo) : r.at = ex[r.o].at
    BY DEF OpenAt
  <2>3. ASSUME NEW r \in OpenAt(Algo), NEW l \in log, l.o = r.o PROVE ~(l.at > r.at)
    <3>1. l.at <= r.at
      BY <2>2, <2>3 DEF Latest
    <3>2. r.at \in Nat /\ l.at \in Nat
      BY <1>a, OpenAtReports, BoundsAssumption DEF Reports, Time, Orders
    <3>3. QED BY <3>1, <3>2
  <2>4. QED BY <2>1, <2>3 DEF NoneSince
<1>2. CASE ~FetchAlgoOrders
  <2>1. task'["algo"].todo \subseteq task["algo"].todo
    BY <1>2, TodoEffect
  <2>2. ASSUME NEW r \in task'["algo"].todo, NEW l \in log', l.o = r.o, l.at > r.at
        PROVE  l.at >= listed'[r.o]
    <3>1. r \in task["algo"].todo /\ r.o \in Algo /\ r.o \in Orders
      BY <2>1, <1>a
    <3>2. listed'[r.o] <= listed[r.o]
      BY <1>2, <1>a, <3>1, ListedEffect
    <3>3. CASE l \in log
      BY <1>a, <2>2, <3>1, <3>2, <3>3 DEF NoneSince
    <3>4. CASE l \notin log
      <4>1. l.at = clock
        BY <2>2, <3>4, ExchangeEffect
      <4>2. listed[r.o] <= clock
        BY <3>1 DEF Latest
      <4>3. QED BY <1>a, <3>1, <3>2, <4>1, <4>2
    <3>5. QED BY <3>3, <3>4
  <2>3. QED BY <2>2 DEF NoneSince
<1>3. QED BY <1>1, <1>2
\* What may become of the row of a conditional order.
LEMMA AlgoRowEffect ==
    ASSUME TypeOK, Provenance, [Next]_vars, NEW o \in Algo
    PROVE  \/ row'[o] = row[o]
           \/ row'[o].status \notin Active
           \/ /\ row'[o].seen = clock /\ UNCHANGED <<clock, listed>>
              /\ \E r \in log : r.o = o /\ r.at = row'[o].at
<1> USE DEF exchange
<1>a. o \in Orders
  BY DEF Orders
<1>1. CASE UNCHANGED row
  BY <1>1
<1>2. ASSUME NEW S, Cancel(S) PROVE row'[o] = row[o] \/ row'[o].status \notin Active
  BY <1>2, <1>a, CancelEffect DEF Active
<1>3. ASSUME NEW t \in Tasks, UpsertRow(t)
      PROVE  \/ row'[o] = row[o]
             \/ /\ row'[o].seen = clock /\ UNCHANGED <<clock, listed>>
                /\ \E r \in log : r.o = o /\ r.at = row'[o].at
  <2>1. PICK r \in task[t].todo : Upsert(r)
    BY <1>3 DEF UpsertRow
  <2>2. r \in log
    BY <2>1 DEF Provenance, InFlight
  <2>3. CASE r.o # o
    BY <2>1, <2>3, <1>a DEF Upsert, TypeOK
  <2>4. CASE r.o = o
    BY <1>3, <2>1, <2>2, <2>4, <1>a DEF Upsert, TypeOK, UpsertRow
  <2>5. QED BY <2>3, <2>4
<1>4. ASSUME NEW p \in Orders, PluginFill(p) PROVE row'[o] = row[o]
  BY <1>4, <1>a, TasksAssumption DEF PluginFill, TypeOK
<1>5. ASSUME NEW t \in Tasks, CancelMissing(t)
      PROVE  row'[o] = row[o] \/ row'[o].status \notin Active
  BY <1>1, <1>2, <1>5 DEF CancelMissing
<1>6. CASE CancelMissingAlgo \/ StaleSweep
  BY <1>2, <1>6 DEF CancelMissingAlgo, StaleSweep
<1>7. QED
  BY <1>1, <1>3, <1>4, <1>5, <1>6
     DEF Next, ExchangeStep, ExMove, ExTouch, Report, Tick, StreamDrops, WsRead,
         FetchAlgoOrders, TaskStep, FetchOpenOrders, SnapshotRead, UpsertDone,
         RefreshCache, UpsertFails, Crash, vars

\* A listed order stays to be written until it is, or the listing is lost.
LEMMA UnreadStep ==
    ASSUME TypeOK, [Next]_vars, NEW o \in Algo, Unread(o)
    PROVE  \/ Unread(o)'
           \/ listed'[o] = 0
           \/ /\ UNCHANGED <<clock, listed>>
              /\ \E r \in task["algo"].todo : r.o = o /\ Upsert(r)
<1> USE DEF exchange, Unread
<1>a. /\ "algo" \in Tasks /\ "algo" # "ws" /\ "algo" # "stale"
      /\ "algo" \notin SnapshotTasks /\ o \in Orders
  BY TasksAssumption DEF Tasks, Orders
<1>b. task \in [Tasks -> Awaits] /\ \A t \in Tasks : task[t] \in Awaits
  BY DEF TypeOK
<1>1. CASE task'["algo"] = task["algo"]
  BY <1>1
<1>2. CASE WsRead
  BY <1>2, <1>1, <1>a, <1>b DEF WsRead
<1>3. CASE StaleSweep
  BY <1>3, <1>1, <1>a, <1>b DEF StaleSweep, Goto
<1>4. ASSUME NEW t \in Tasks, t # "algo",
             TaskStep(t) \/ UpsertFails(t)
      PROVE  task'["algo"] = task["algo"]
  BY <1>4, <1>a, <1>b
     DEF TaskStep, FetchOpenOrders, SnapshotRead, UpsertRow, UpsertDone,
         CancelMissing, RefreshCache, UpsertFails, Goto
<1>5. CASE UpsertRow("algo")
  <2>1. PICK r \in task["algo"].todo :
          Upsert(r) /\ task' = [task EXCEPT !["algo"].todo = @ \ {r}]
    BY <1>5 DEF UpsertRow
  <2>2. CASE r.o = o
    BY <1>5, <2>1, <2>2 DEF UpsertRow
  <2>3. CASE r.o # o
    <3>1. PICK q \in task["algo"].todo : q.o = o
      OBVIOUS
    <3>2. task'["algo"].pc = "upsert" /\ q \in task'["algo"].todo
      BY <2>1, <2>3, <3>1, <1>a, <1>b DEF Awaits
    <3>3. QED BY <3>1, <3>2
  <2>4. QED BY <2>2, <2>3
<1>6. CASE UpsertFails("algo")
  BY <1>6, <1>a DEF UpsertFails
<1>7. CASE Crash
  BY <1>7, <1>a DEF Crash
<1>8. ~ TaskStep("algo") \/ UpsertRow("algo")
  BY <1>a DEF TaskStep, FetchOpenOrders, SnapshotRead, UpsertDone, CancelMissing,
              RefreshCache
<1>9. ~ FetchAlgoOrders /\ ~ CancelMissingAlgo
  BY DEF FetchAlgoOrders, CancelMissingAlgo
<1>10. QED
  BY <1>1, <1>2, <1>3, <1>4, <1>5, <1>6, <1>7, <1>8, <1>9
     DEF Next, ExchangeStep, ExMove, ExTouch, Report, Tick, StreamDrops,
         PluginFill, vars

LEMMA SightedStep ==
    ASSUME TypeOK, TypeOK', Provenance, SyncOnTime, [Next]_vars
    PROVE  Sighted'
<1> SUFFICES ASSUME NEW o \in Algo, row'[o].status \in Active
             PROVE  /\ row'[o].at <= row'[o].seen
                    /\ \E l \in log' : l.o = o /\ l.at = row'[o].at
                    /\ row'[o].seen >= listed'[o] \/ Unread(o)'
  BY DEF Sighted, Unread
<1> USE DEF SyncOnTime
<1>a. /\ o \in Orders /\ clock \in Nat /\ listed[o] \in Nat /\ listed'[o] \in Nat
      /\ row[o].at \in Nat /\ row[o].seen \in Nat /\ listed[o] <= clock
      /\ \A r \in log : r.at \in Nat /\ r.at <= clock
      /\ \A r \in task["algo"].todo : r \in log
  BY BoundsAssumption
     DEF TypeOK, Time, Rows, Reports, Orders, Latest, Provenance, InFlight, Known, Tasks
<1>b. log \subseteq log'
  BY ExchangeEffect
<1>1. CASE /\ row'[o].seen = clock /\ UNCHANGED <<clock, listed>>
           /\ \E r \in log : r.o = o /\ r.at = row'[o].at
  BY <1>1, <1>a, <1>b
<1>2. CASE row'[o] = row[o]
  <2>1. /\ row[o].at <= row[o].seen
        /\ \E l \in log : l.o = o /\ l.at = row[o].at
        /\ row[o].seen >= listed[o] \/ Unread(o)
    BY <1>2 DEF Sighted
  <2>2. row'[o].seen >= listed'[o] \/ Unread(o)'
    <3>1. CASE FetchAlgoOrders
      <4>1. row[o].seen >= listed[o]
        BY <2>1, <3>1 DEF FetchAlgoOrders, Unread
      <4>2. CASE \E r \in OpenAt(Algo) : r.o = o
        BY <3>1, <4>2 DEF FetchAlgoOrders, Unread, TypeOK, Tasks
      <4>3. CASE ~ \E r \in OpenAt(Algo) : r.o = o
        BY <1>2, <1>a, <3>1, <4>1, <4>3 DEF FetchAlgoOrders, ListedNow
      <4>4. QED BY <4>2, <4>3
    <3>2. CASE ~ FetchAlgoOrders /\ row[o].seen >= listed[o]
      BY <1>2, <1>a, <3>2, ListedEffect
    <3>3. CASE Unread(o)
      <4>1. CASE listed'[o] = 0
        BY <1>2, <1>a, <4>1
      <4>2. CASE /\ UNCHANGED <<clock, listed>>
                 /\ \E r \in task["algo"].todo : r.o = o /\ Upsert(r)
        <5>1. PICK r \in task["algo"].todo : r.o = o /\ Upsert(r)
          BY <4>2
        <5>2. CASE row[o].status = "none" \/ r.at >= row[o].at
          <6>1. row'[o].seen = clock
            BY <5>1, <5>2, <1>a DEF Upsert, TypeOK
          <6>2. QED BY <6>1, <4>2, <1>a
        <5>3. CASE row[o].status # "none" /\ ~(r.at >= row[o].at)
          <6>1. PICK l \in log : l.o = o /\ l.at = row[o].at
            BY <2>1
          <6>2. l.at >= listed[o]
            BY <5>1, <5>3, <6>1, <1>a DEF NoneSince
          <6>3. QED BY <6>1, <6>2, <4>2, <2>1, <1>2, <1>a
        <5>4. QED BY <5>2, <5>3
      <4>3. QED BY <3>3, <4>1, <4>2, UnreadStep
    <3>4. QED BY <2>1, <3>1, <3>2, <3>3
  <2>3. QED BY <2>1, <2>2, <1>2, <1>b
<1>3. QED BY <1>1, <1>2, AlgoRowEffect

LEMMA SyncInvariant == Spec => []SyncOnTime
<1>1. Init => SyncOnTime
  <2> SUFFICES ASSUME Init PROVE SyncOnTime
      OBVIOUS
  <2>1. task["algo"].todo = {} /\ task["algo"].pc = "idle"
    BY DEF Init, Idle, Tasks
  <2>2. \A o \in Orders : ex[o].at <= clock /\ listed[o] <= clock
    BY DEF Init, Unknown
  <2>3. \A o \in Algo : row[o].status \notin Active
    BY DEF Init, NoRow, Active, Orders
  <2>4. QED
    BY <2>1, <2>2, <2>3
       DEF Init, SyncOnTime, AlgoTask, Latest, NoneSince, Sighted
<1>2. TypeOK /\ TypeOK' /\ Provenance /\ SyncOnTime /\ [Next]_vars => SyncOnTime'
  BY AlgoTaskStep, LatestStep, NoneSinceStep, SightedStep DEF SyncOnTime
<1>3. QED BY <1>1, <1>2, TypeCorrect, ProvenanceInvariant, PTL DEF Spec

\* Only the sweep takes the sweep's task from idle to its refresh.
LEMMA SweptBySweep ==
    ASSUME TypeOK, [Next]_vars, NEW o \in Orders, Swept(o)
    PROVE  StaleSweep
<1> USE DEF Swept, exchange
<1>a. /\ "stale" \in Tasks /\ "stale" # "ws" /\ "stale" # "algo"
      /\ "stale" \notin SnapshotTasks
  BY TasksAssumption DEF Tasks
<1>b. task \in [Tasks -> Awaits]
  BY DEF TypeOK
<1>1. task'["stale"] # task["stale"]
  OBVIOUS
<1>2. ~ WsRead /\ ~ FetchAlgoOrders /\ ~ CancelMissingAlgo
  BY <1>1, <1>a, <1>b DEF WsRead, FetchAlgoOrders, CancelMissingAlgo, Goto
<1>3. ASSUME NEW t \in Tasks, TaskStep(t) \/ UpsertFails(t) PROVE FALSE
  <2>1. t = "stale"
    BY <1>1, <1>3, <1>a, <1>b
       DEF TaskStep, FetchOpenOrders, SnapshotRead, UpsertRow, UpsertDone,
           CancelMissing, RefreshCache, UpsertFails, Goto
  <2>2. QED
    BY <1>3, <2>1, <1>a
       DEF TaskStep, FetchOpenOrders, SnapshotRead, UpsertRow, UpsertDone,
           CancelMissing, RefreshCache, UpsertFails
<1>4. ~ Crash
  BY <1>a DEF Crash, Idle
<1>5. QED
  BY <1>1, <1>2, <1>3, <1>4
     DEF Next, ExchangeStep, ExMove, ExTouch, Report, Tick, StreamDrops, PluginFill,
         vars

\* A conditional order the sync still lists is never swept, whatever the order in
\* which sync, sweep and user stream run: what they last saw is no older than the
\* last listing that was not lost.
THEOREM SweptIsUnlisted == Spec => SweepSparesAlgo
<1>1. ASSUME TypeOK, SyncOnTime, [Next]_vars, NEW o \in Algo, Swept(o), ~SyncUnderWay
      PROVE  listed[o] + StaleAfter < clock
  <2>1. o \in Orders /\ "algo" \in Tasks
    BY DEF Orders, Tasks
  <2>2. StaleSweep
    BY <1>1, <2>1, SweptBySweep
  <2>3. o \in NotSeenLately
    BY <1>1, <2>1, <2>2 DEF StaleSweep, Cancel, Swept, Active
  <2>4. row[o].seen + StaleAfter < clock
    BY <2>3 DEF NotSeenLately
  <2>5. row[o].seen >= listed[o]
    BY <1>1, <2>1 DEF SyncOnTime, Sighted, Unread, Swept, SyncUnderWay
  <2>6. /\ row[o].seen \in Nat /\ listed[o] \in Nat /\ StaleAfter \in Nat
        /\ clock \in Nat
    BY <1>1, <2>1, BoundsAssumption DEF TypeOK, Rows, Time
  <2>7. QED BY <2>4, <2>5, <2>6
<1>2. TypeOK /\ SyncOnTime /\ [Next]_vars => [SweepSpares(Algo)]_vars
  BY <1>1 DEF SweepSpares
<1>3. QED BY <1>2, TypeCorrect, SyncInvariant, PTL DEF Spec, SweepSparesAlgo

-----------------------------------------------------------------------------
(* Streams: one call of start() never has two user loops, for any accounts,    *)
(* symbols and disturbances, any cap on the attempts and any number of slots.  *)

(* The tasks of the user loop, whatever the number of their attempt. *)
Pcs == {"start", "standby", "dial", "up", "backoff", "key"}
Loops == [pc : Pcs, tracked : BOOLEAN, mine : BOOLEAN, account : Accounts,
          attempt : Nat, born : Nat]

(* What the slots hold: loops of calls of start() that have been made, at most *)
(* one of each call.                                                           *)
Shaped ==
    /\ active \in Accounts /\ switch \in [pc : {"none", "down", "rollback"}, old : Accounts]
    /\ starts \in Nat
    /\ user \in [Slots -> Loops \cup {NoTask}]
    /\ \A s \in Slots : user[s] # NoTask => user[s].born <= starts

Chains == Shaped /\ OneChain

LEMMA LoopFacts ==
  /\ \A t \in Loops : t.pc # "none" /\ t # NoTask
  /\ NoTask.pc = "none" /\ NoTask.tracked = FALSE
<1>1. NoTask.pc = "none" /\ NoTask.tracked = FALSE
  BY DEF NoTask
<1>2. \A t \in Loops : t.pc # "none"
  BY DEF Loops, Pcs
<1>3. QED
  BY <1>1, <1>2

LEMMA LiveLoops ==
  ASSUME Shaped
  PROVE  /\ Live(user) = {s \in Slots : user[s] # NoTask}
         /\ \A s \in Live(user) : user[s] \in Loops
<1>1. \A s \in Slots : user[s] \in Loops \/ user[s] = NoTask
  BY DEF Shaped
<1>2. QED
  BY <1>1, LoopFacts DEF Live

(* A step after which every loop is one that was there, as it was born. *)
Kept ==
    /\ user' \in [Slots -> Loops \cup {NoTask}]
    /\ \A s \in Slots : user'[s] # NoTask => user[s] # NoTask /\ user'[s].born = user[s].born

LEMMA KeptIsEnough ==
  ASSUME Chains, Kept, starts' = starts, active' \in Accounts,
         switch' \in [pc : {"none", "down", "rollback"}, old : Accounts]
  PROVE  Chains'
<1>1. Shaped'
  BY DEF Chains, Shaped, Kept
<1>2. Live(user') = {s \in Slots : user'[s] # NoTask}
  <2>1. \A s \in Slots : user'[s] \in Loops \/ user'[s] = NoTask
    BY DEF Kept
  <2>2. QED
    BY <2>1, LoopFacts DEF Live
<1>3. \A s \in Live(user') : s \in Live(user) /\ user'[s].born = user[s].born
  BY <1>2, LiveLoops DEF Chains, Kept
<1>4. OneChain'
  BY <1>3 DEF Chains, OneChain
<1>5. QED
  BY <1>1, <1>4 DEF Chains

(* Changing one slot. *)
LEMMA OneSlot ==
  ASSUME Shaped, NEW s \in Slots, NEW t, user' = [user EXCEPT ![s] = t],
         t = NoTask \/ (t \in Loops /\ user[s] # NoTask /\ t.born = user[s].born)
  PROVE  Kept
  BY DEF Shaped, Kept

(* Cancelling, losing the references to, or replacing the status of tasks. *)
LEMMA Cancelling ==
  ASSUME NEW tasks \in [Slots -> Loops \cup {NoTask}]
  PROVE  /\ Cancelled(tasks) \in [Slots -> Loops \cup {NoTask}]
         /\ \A s \in Slots : Cancelled(tasks)[s] \in {tasks[s], NoTask}
  BY DEF Cancelled

LEMMA Forgetting ==
  ASSUME NEW tasks \in [Slots -> Loops \cup {NoTask}]
  PROVE  /\ Forgotten(tasks) \in [Slots -> Loops \cup {NoTask}]
         /\ \A s \in Slots : Forgotten(tasks)[s] # NoTask =>
                tasks[s] # NoTask /\ Forgotten(tasks)[s].born = tasks[s].born
<1> SUFFICES ASSUME NEW s \in Slots
             PROVE  /\ [tasks[s] EXCEPT !.tracked = FALSE] \in Loops \cup {NoTask}
                    /\ [tasks[s] EXCEPT !.tracked = FALSE] # NoTask =>
                         tasks[s] # NoTask /\ [tasks[s] EXCEPT !.tracked = FALSE].born = tasks[s].born
  BY DEF Forgotten
<1>1. CASE tasks[s] \in Loops
  BY <1>1, LoopFacts DEF Loops
<1>2. CASE tasks[s] = NoTask
  <2>1. NoTask \in [pc : {"none"}, tracked : {FALSE}]
    BY DEF NoTask
  <2>2. [NoTask EXCEPT !.tracked = FALSE] \in [pc : {"none"}, tracked : {FALSE}]
    BY <2>1
  <2>3. [NoTask EXCEPT !.tracked = FALSE] = NoTask
    BY <2>1, <2>2
  <2>4. QED
    BY <1>2, <2>3
<1>3. QED
  BY <1>1, <1>2

(* A reset of the state for another account: whatever is left lives on. *)
LEMMA Resetting ==
  ASSUME Shaped, NEW a \in Accounts, NEW users \in [Slots -> Loops \cup {NoTask}], NEW markets,
         \A s \in Slots : users[s] \in {user[s], NoTask},
         Reset(a, users, markets)
  PROVE  Kept /\ starts' = starts /\ active' \in Accounts
<1>1. /\ user' = [s \in Slots |-> IF users[s] = NoTask THEN NoTask
                                  ELSE [users[s] EXCEPT !.mine = FALSE]]
      /\ active' = a /\ starts' = starts
  BY DEF Reset
<1>2. ASSUME NEW s \in Slots
      PROVE  /\ user'[s] \in Loops \cup {NoTask}
             /\ user'[s] # NoTask => user[s] # NoTask /\ user'[s].born = user[s].born
  <2>1. CASE users[s] = NoTask
    BY <1>1, <2>1
  <2>2. CASE users[s] # NoTask
    <3>1. users[s] \in Loops /\ users[s] = user[s] /\ user'[s] = [user[s] EXCEPT !.mine = FALSE]
      BY <1>1, <2>2
    <3>2. QED
      BY <2>2, <3>1 DEF Loops
  <2>3. QED
    BY <2>1, <2>2
<1>3. QED
  BY <1>1, <1>2 DEF Kept

(* Where an attempt fails, it ends or waits for the next one. *)
LEMMA Retrying ==
  ASSUME NEW t \in Loops
  PROVE  Retry(t) = NoTask \/ (Retry(t) \in Loops /\ Retry(t).born = t.born)
  BY DEF Retry, Loops, Pcs

LEMMA ChainsUser ==
  ASSUME Chains, NEW s \in Slots,
         \/ UserBegins(s) \/ StandbyEnds(s) \/ UserUp(s) \/ UserEvent(s)
         \/ UserLost(s) \/ UserCloses(s) \/ BackoffEnds(s) \/ KeyFails(s) \/ KeyArrives(s)
         \/ \E P \in SUBSET Symbols : PositionEvent(s, P)
  PROVE  Chains'
<1>1. UNCHANGED <<active, switch, starts>>
  BY DEF UserBegins, StandbyEnds, UserUp, UserEvent, UserLost, UserCloses, BackoffEnds,
         KeyFails, KeyArrives, PositionEvent, UserOnly
<1>2. /\ user \in [Slots -> Loops \cup {NoTask}] /\ active \in Accounts
      /\ switch \in [pc : {"none", "down", "rollback"}, old : Accounts] /\ Shaped
  BY DEF Chains, Shaped
<1>3. user[s].pc # "none" => user[s] \in Loops /\ user[s] # NoTask
  BY <1>2, LoopFacts
<1>4. CASE UserBegins(s)
  <2>1. \/ user' = [user EXCEPT ![s].pc = "standby"]
        \/ user' = [user EXCEPT ![s].pc = "dial", ![s].mine = TRUE]
    BY <1>4 DEF UserBegins
  <2>2. user[s] \in Loops /\ user[s] # NoTask
    BY <1>3, <1>4 DEF UserBegins
  <2>3. \/ user' = [user EXCEPT ![s] = [user[s] EXCEPT !.pc = "standby"]]
        \/ user' = [user EXCEPT ![s] = [user[s] EXCEPT !.pc = "dial", !.mine = TRUE]]
    BY <1>2, <2>1, <2>2 DEF Loops
  <2>4. Kept
    BY <1>2, <2>2, <2>3, OneSlot DEF Loops, Pcs
  <2>5. QED
    BY <1>1, <1>2, <2>4, KeptIsEnough
<1>5. CASE StandbyEnds(s)
  <2>1. \/ user' = [user EXCEPT ![s] = NoTask]
        \/ user' = [user EXCEPT ![s].pc = "start", ![s].attempt = 0, ![s].tracked = FALSE]
    BY <1>5 DEF StandbyEnds
  <2>2. user[s] \in Loops /\ user[s] # NoTask
    BY <1>3, <1>5 DEF StandbyEnds
  <2>3. \/ user' = [user EXCEPT ![s] = NoTask]
        \/ user' = [user EXCEPT ![s] = [user[s] EXCEPT !.pc = "start", !.attempt = 0,
                                                       !.tracked = FALSE]]
    BY <1>2, <2>1, <2>2 DEF Loops
  <2>4. Kept
    BY <1>2, <2>2, <2>3, OneSlot DEF Loops, Pcs
  <2>5. QED
    BY <1>1, <1>2, <2>4, KeptIsEnough
<1>6. CASE UserUp(s)
  <2>2. user[s] \in Loops /\ user[s] # NoTask
    BY <1>3, <1>6 DEF UserUp
  <2>3. user' = [user EXCEPT ![s] = [user[s] EXCEPT !.pc = "up"]]
    BY <1>2, <1>6, <2>2 DEF UserUp, Loops
  <2>4. Kept
    BY <1>2, <2>2, <2>3, OneSlot DEF Loops, Pcs
  <2>5. QED
    BY <1>1, <1>2, <2>4, KeptIsEnough
<1>7. CASE UserEvent(s) \/ \E P \in SUBSET Symbols : PositionEvent(s, P)
  <2>1. user' = user
    BY <1>7 DEF UserEvent, PositionEvent
  <2>2. Kept
    BY <1>2, <2>1 DEF Kept
  <2>3. QED
    BY <1>1, <1>2, <2>2, KeptIsEnough
<1>8. CASE UserLost(s)
  <2>1. user[s] \in Loops /\ user[s] # NoTask
    BY <1>3, <1>8 DEF UserLost
  <2>2. user' = [user EXCEPT ![s] = Retry(user[s])]
    BY <1>8 DEF UserLost
  <2>3. Kept
    BY <1>2, <2>1, <2>2, Retrying, OneSlot
  <2>4. QED
    BY <1>1, <1>2, <2>3, KeptIsEnough
<1>9. CASE UserCloses(s)
  <2>1. Kept
    BY <1>2, <1>9, OneSlot DEF UserCloses
  <2>2. QED
    BY <1>1, <1>2, <2>1, KeptIsEnough
<1>10. CASE BackoffEnds(s)
  <2>1. \/ user' = [user EXCEPT ![s] = NoTask]
        \/ user' = [user EXCEPT ![s].pc = "key", ![s].account = active]
    BY <1>10 DEF BackoffEnds
  <2>2. user[s] \in Loops /\ user[s] # NoTask
    BY <1>3, <1>10 DEF BackoffEnds
  <2> DEFINE t == [user[s] EXCEPT !.pc = "key", !.account = active]
  <2>3. user' = [user EXCEPT ![s] = NoTask] \/ user' = [user EXCEPT ![s] = t]
    BY <1>2, <2>1, <2>2 DEF Loops
  <2>4. t \in Loops /\ t.born = user[s].born
    BY <1>2, <2>2 DEF Loops, Pcs
  <2> HIDE DEF t
  <2>5. Kept
    BY <1>2, <2>2, <2>3, <2>4, OneSlot
  <2>6. QED
    BY <1>1, <1>2, <2>5, KeptIsEnough
<1>11. CASE KeyFails(s)
  <2> DEFINE t == [user[s] EXCEPT !.attempt = @ + 1]
  <2>1. user[s] \in Loops /\ user[s] # NoTask
    BY <1>3, <1>11 DEF KeyFails
  <2>2. user' = [user EXCEPT ![s] = Retry(t)]
    BY <1>11 DEF KeyFails
  <2>3. t \in Loops /\ t.born = user[s].born
    BY <2>1 DEF Loops
  <2> HIDE DEF t
  <2>4. Kept
    BY <1>2, <2>1, <2>2, <2>3, Retrying, OneSlot
  <2>5. QED
    BY <1>1, <1>2, <2>4, KeptIsEnough
<1>12. CASE KeyArrives(s)
  <2>1. \/ user' = [user EXCEPT ![s] = NoTask]
        \/ user' = [user EXCEPT ![s].pc = "start", ![s].tracked = FALSE, ![s].attempt = @ + 1]
    BY <1>12 DEF KeyArrives
  <2>2. user[s] \in Loops /\ user[s] # NoTask
    BY <1>3, <1>12 DEF KeyArrives
  <2> DEFINE n == user[s].attempt + 1
             t == [user[s] EXCEPT !.pc = "start", !.tracked = FALSE, !.attempt = n]
  <2>3. user' = [user EXCEPT ![s] = NoTask] \/ user' = [user EXCEPT ![s] = t]
    BY <1>2, <2>1, <2>2 DEF Loops
  <2>4. n \in Nat
    BY <2>2 DEF Loops
  <2> HIDE DEF n
  <2>5. t \in Loops /\ t.born = user[s].born
    BY <1>2, <2>2, <2>4 DEF Loops, Pcs
  <2> HIDE DEF t
  <2>6. Kept
    BY <1>2, <2>2, <2>3, <2>5, OneSlot
  <2>7. QED
    BY <1>1, <1>2, <2>6, KeptIsEnough
<1>13. QED
  BY <1>4, <1>5, <1>6, <1>7, <1>8, <1>9, <1>10, <1>11, <1>12

LEMMA ChainsOthers ==
  ASSUME Chains, MarketNext \/ RestNext \/ \E P \in SUBSET Symbols : SwitchLoads(P)
  PROVE  Chains'
<1>1. UNCHANGED <<active, switch, starts, user>>
  <2>1. CASE MarketNext
    BY <2>1 DEF MarketNext, MarketBegins, IdleEnds, MarketUp, MarketEvent, MarketLost,
       MarketCloses, MarketWakes, MarketOnly
  <2>2. CASE RestNext
    BY <2>2 DEF RestNext, RefreshStarts, RefreshAnswered, FallbackPolls, PluginList,
       RefreshFails, FallbackFails, LimitEnds, GoesStale, PluginFlips, KeysUpdated, RestOnly
  <2>3. CASE \E P \in SUBSET Symbols : SwitchLoads(P)
    BY <2>3 DEF SwitchLoads
  <2>4. QED
    BY <2>1, <2>2, <2>3
<1>2. QED
  BY <1>1 DEF Chains, Shaped, OneChain, Live

(* A new call of start() gets the one loop that is born with it. *)
LEMMA ChainsStart == ASSUME Chains, SwitchEnds PROVE Chains'
<1> DEFINE new == UserTask(active, starts + 1)
           old == Forgotten(user)
           slot == FreeSlot(old)
<1>1. /\ user \in [Slots -> Loops \cup {NoTask}] /\ starts \in Nat /\ active \in Accounts
      /\ \A s \in Slots : user[s] # NoTask => user[s].born <= starts
      /\ switch \in [pc : {"none", "down", "rollback"}, old : Accounts]
  BY DEF Chains, Shaped
<1>2. /\ user' = [old EXCEPT ![slot] = new] /\ starts' = starts + 1 /\ active' = active
      /\ switch' = [switch EXCEPT !.pc = "none"]
  BY DEF SwitchEnds, Spawn
<1>3. new \in Loops /\ new.born = starts + 1
  BY <1>1 DEF UserTask, Loops, Pcs
<1>4. /\ old \in [Slots -> Loops \cup {NoTask}]
      /\ \A s \in Slots : old[s] # NoTask => user[s] # NoTask /\ old[s].born = user[s].born
  BY <1>1, Forgetting
<1>5. \A s \in Slots : user'[s] = IF s = slot THEN new ELSE old[s]
  <2> HIDE DEF old, new, slot
  <2>1. QED
    BY <1>2, <1>4
<1> HIDE DEF new, old, slot
<1>6. \A s \in Slots : user[s] # NoTask => user[s] \in Loops
  BY <1>1
<1>7. Shaped'
  <2>1. user' \in [Slots -> Loops \cup {NoTask}]
    BY <1>2, <1>3, <1>4
  <2>2. ASSUME NEW s \in Slots, user'[s] # NoTask
        PROVE  user'[s].born <= starts + 1
    <3>1. CASE s = slot
      BY <1>1, <1>3, <1>5, <3>1
    <3>2. CASE s # slot
      <4>1. user[s] \in Loops /\ user'[s].born = user[s].born /\ user[s].born <= starts
        BY <1>1, <1>4, <1>5, <1>6, <2>2, <3>2
      <4>2. user[s].born \in Nat
        BY <4>1 DEF Loops
      <4>3. QED
        BY <1>1, <4>1, <4>2
    <3>3. QED
      BY <3>1, <3>2
  <2>3. switch' \in [pc : {"none", "down", "rollback"}, old : Accounts]
    BY <1>1, <1>2
  <2>4. QED
    BY <1>1, <1>2, <2>1, <2>2, <2>3 DEF Shaped
<1>8. ASSUME NEW s \in Live(user'), NEW t \in Live(user'), user'[s].born = user'[t].born
      PROVE  s = t
  <2>1. ASSUME NEW x \in Live(user'), x # slot
        PROVE  /\ x \in Live(user) /\ user'[x].born = user[x].born
               /\ user[x].born \in Nat /\ user[x].born <= starts
    <3>1. x \in Slots /\ user'[x].pc # "none" /\ user'[x] = old[x]
      BY <1>5, <2>1 DEF Live
    <3>2. old[x] # NoTask
      BY <3>1, LoopFacts
    <3>3. user[x] \in Loops /\ old[x].born = user[x].born /\ user[x].born <= starts
      BY <1>1, <1>4, <1>6, <3>1, <3>2
    <3>4. user[x].pc # "none" /\ user[x].born \in Nat
      BY <3>3, LoopFacts DEF Loops
    <3>5. QED
      BY <3>1, <3>3, <3>4 DEF Live
  <2>2. ASSUME slot \in Live(user')
        PROVE  user'[slot].born = starts + 1
    BY <1>3, <1>5, <2>2 DEF Live
  <2>3. CASE s # slot /\ t # slot
    BY <1>8, <2>1, <2>3 DEF Chains, OneChain
  <2>4. CASE s = slot /\ t # slot
    BY <1>1, <1>8, <2>1, <2>2, <2>4
  <2>5. CASE t = slot /\ s # slot
    BY <1>1, <1>8, <2>1, <2>2, <2>5
  <2>6. QED
    BY <2>3, <2>4, <2>5
<1>9. QED
  BY <1>7, <1>8 DEF Chains, OneChain

LEMMA ChainsSwitch ==
  ASSUME Chains, SwitchFails \/ \E a \in Accounts : SwitchStarts(a)
  PROVE  Chains'
<1>1. /\ user \in [Slots -> Loops \cup {NoTask}] /\ active \in Accounts /\ Shaped
      /\ switch \in [pc : {"none", "down", "rollback"}, old : Accounts]
  BY DEF Chains, Shaped
<1>2. ASSUME NEW a \in Accounts, SwitchStarts(a) PROVE Chains'
  <2>1. Reset(a, Cancelled(user), Cancelled(market))
        /\ switch' = [pc |-> "down", old |-> active]
    BY <1>2 DEF SwitchStarts
  <2>2. Kept /\ starts' = starts /\ active' \in Accounts
    BY <1>1, <2>1, Cancelling, Resetting
  <2>3. switch' \in [pc : {"none", "down", "rollback"}, old : Accounts]
    BY <1>1, <2>1
  <2>4. QED
    BY <2>2, <2>3, KeptIsEnough
<1>3. CASE SwitchFails
  <2>1. CASE switch' = [switch EXCEPT !.pc = "rollback"] /\ Reset(switch.old, user, market)
    <3>1. switch.old \in Accounts /\ switch' \in [pc : {"none", "down", "rollback"}, old : Accounts]
      BY <1>1, <2>1
    <3>2. Kept /\ starts' = starts /\ active' \in Accounts
      BY <1>1, <2>1, <3>1, Resetting
    <3>3. QED
      BY <3>1, <3>2, KeptIsEnough
  <2>2. CASE switch' = [switch EXCEPT !.pc = "none"] /\ UNCHANGED <<active, user, starts>>
    <3>1. switch' \in [pc : {"none", "down", "rollback"}, old : Accounts]
      BY <1>1, <2>2
    <3>2. Kept
      BY <1>1, <2>2 DEF Kept
    <3>3. QED
      BY <1>1, <2>2, <3>1, <3>2, KeptIsEnough
  <2>3. QED
    BY <1>3, <2>1, <2>2 DEF SwitchFails
<1>4. QED
  BY <1>2, <1>3

LEMMA ChainsInit == StreamsInit => Chains
<1> SUFFICES ASSUME StreamsInit PROVE Chains
  OBVIOUS
<1> DEFINE none == [s \in Slots |-> NoTask]
           slot == FreeSlot(none)
           new == UserTask(active, 1)
<1>1. /\ active = First /\ user = [none EXCEPT ![slot] = new] /\ starts = 1
      /\ switch = [pc |-> "none", old |-> active]
  BY DEF StreamsInit, Spawn
<1>2. active \in Accounts
  BY <1>1, StreamsAssumption
<1>3. new \in Loops /\ new.born = 1
  BY <1>2 DEF UserTask, Loops, Pcs
<1>4. \A s \in Slots : user[s] = IF s = slot THEN new ELSE NoTask
  <2> HIDE DEF slot, new
  <2>1. QED
    BY <1>1
<1> HIDE DEF slot, new
<1>5. user \in [Slots -> Loops \cup {NoTask}]
  BY <1>1, <1>3
<1>6. Shaped
  BY <1>1, <1>2, <1>3, <1>4, <1>5 DEF Shaped
<1>7. \A s \in Live(user) : s = slot
  BY <1>4, LoopFacts DEF Live
<1>8. QED
  BY <1>6, <1>7 DEF Chains, OneChain

(* One call of start() never has two user loops. *)
THEOREM ChainsNeverFork == StreamsSpec => []OneChain
<1>1. StreamsInit => Chains
  BY ChainsInit
<1>2. Chains /\ [StreamsNext]_streams => Chains'
  <2>1. Chains /\ StreamsNext => Chains'
    BY ChainsUser, ChainsOthers, ChainsStart, ChainsSwitch DEF StreamsNext, UserNext, SwitchNext
  <2>2. Chains /\ UNCHANGED streams => Chains'
    BY DEF streams, Chains, Shaped, OneChain, Live
  <2>3. QED
    BY <2>1, <2>2
<1>3. Chains => OneChain
  BY DEF Chains
<1>4. QED
  BY <1>1, <1>2, <1>3, PTL DEF StreamsSpec
=============================================================================
