------------------------------ MODULE CloseRows ------------------------------
(***************************************************************************)
(* From fills to closed_positions: OrderManager.process_fill stores a fill  *)
(* and, two seconds later, builds a close row; PlatformBridge's position    *)
(* snapshot schedules a safety net when a position disappears; the REST     *)
(* fill sync and the exchange stream store the same fills again; the        *)
(* startup back-fill writes rows of its own.                                *)
(*                                                                         *)
(* One position: fill 1 opens it, the others close it and execute in order. *)
(* Prices, quantities and fees are left out: a row is the position id it    *)
(* carries, its window [entry, exit] and the closing fills it sums up.      *)
(***************************************************************************)
EXTENDS CloseFills

Fills == 1..N
Closing == 2..N
FillsOf(o) == {f \in Closing : OrderOf[f] = o}
Times == {At[f] : f \in Fills}
Last(S) == CHOOSE t \in {At[f] : f \in S} : \A f \in S : At[f] <= t

VARIABLES
  executed,  \* exchange: how many fills have happened
  outbox,    \* fills the plugin has yet to deliver
  table,     \* fills: its terminal_position_id, "blank", or "absent"
  held,      \* app_state.positions: the position's id, "blank", or "gone"
  rows,      \* closed_positions
  timers,    \* call_later(2.0, ...): close rows for a fill, or the final check
  builds,    \* _build_close_row_for_fill calls in progress
  phase      \* "up"; "starting" after a crash, until the startup back-fill

vars == <<executed, outbox, table, held, rows, timers, builds, phase>>

Init ==
  /\ executed = 0 /\ outbox = {}
  /\ table = [f \in Fills |-> "absent"]
  /\ held = "gone"
  /\ rows = {} /\ timers = {} /\ builds = {}
  /\ phase = "up"

OpenAtExchange == executed \in 1..(N - 1)

(* Without "slow" a build ends before anything else reaches the engine; without *)
(* "late" what was executed is delivered, and an order executed whole, before a *)
(* two-second timer fires.                                                      *)
Quick == "slow" \in Faults \/ builds = {}
Settled(S) == "late" \in Faults \/ (outbox = {} /\ \A f \in S : f <= executed)

-----------------------------------------------------------------------------
(* The exchange, and the three ways a fill reaches the table *)

Execute ==
  /\ executed < N /\ Quick
  /\ executed' = executed + 1
  /\ outbox' = IF phase = "up" THEN outbox \union {executed + 1} ELSE outbox
  /\ UNCHANGED <<table, held, rows, timers, builds, phase>>

(* fetch_positions(force=True) after a fill; REST knows no position id, so the *)
(* id already held is kept.  Skipped while rate-limited.                       *)
RefreshAfterFill ==
  \/ held' = IF ~OpenAtExchange THEN "gone" ELSE IF held = "gone" THEN "blank" ELSE held
  \/ "limited" \in Faults /\ held' = held

(* (Mutant: a fill that the table has already starts no timer.) *)
MutPluginFillKnown(f) ==
  /\ f \in outbox /\ phase = "up" /\ Quick
  /\ outbox' = outbox \ {f}
  /\ table' = [table EXCEPT ![f] = "P"]
  /\ timers' = IF f \in Closing /\ table[f] = "absent"
               THEN timers \union {[kind |-> "fill", fill |-> f, pid |-> "P"]} ELSE timers
  /\ RefreshAfterFill
  /\ UNCHANGED <<executed, rows, builds, phase>>

(* PlatformBridge._handle_fill: process_fill, then the forced refresh. *)
PluginFill(f) ==
  /\ f \in outbox /\ phase = "up" /\ Quick
  /\ outbox' = outbox \ {f}
  /\ table' = [table EXCEPT ![f] = "P"]
  /\ timers' = IF f \in Closing
               THEN timers \union {[kind |-> "fill", fill |-> f, pid |-> "P"]} ELSE timers
  /\ RefreshAfterFill
  /\ UNCHANGED <<executed, rows, builds, phase>>

(* upsert_fill of a fill without a terminal position id overwrites the id. *)
UpsertBlank(f) ==
  /\ f <= executed /\ phase = "up" /\ Quick
  /\ table' = [table EXCEPT ![f] = "blank"]
  /\ UNCHANGED <<executed, outbox, held, rows, timers, builds, phase>>

(* _account_refresh_loop: user trades of the symbols held. *)
RestSync(f) == "rest" \in Faults /\ held # "gone" /\ UpsertBlank(f)

(* _create_fill_from_ws, while the plugin's socket is down. *)
StreamFill(f) == "stream" \in Faults /\ UpsertBlank(f)

(* _handle_position_snapshot: the plugin's list replaces the engine's, and a    *)
(* position that was held and is not listed gets the final check.               *)
PluginSnapshot ==
  /\ phase = "up" /\ Quick
  /\ held' = IF OpenAtExchange THEN "P" ELSE "gone"
  /\ timers' = IF held # "gone" /\ ~OpenAtExchange
               THEN timers \union {[kind |-> "final", fill |-> 1, pid |-> held]}
               ELSE timers
  /\ UNCHANGED <<executed, outbox, table, rows, builds, phase>>

-----------------------------------------------------------------------------
(* _build_close_row_for_fill: read the opening fills, read the order's closing *)
(* fills, write the row; the engine may do anything between two reads.         *)

Build(f, pid) == [at |-> "opens", fill |-> f, pid |-> pid, entry |-> 0, closes |-> {}]

StartBuild(t) ==
  /\ t \in timers /\ t.kind = "fill" /\ Settled(FillsOf(OrderOf[t.fill]))
  /\ timers' = timers \ {t}
  /\ builds' = builds \union {Build(t.fill, t.pid)}
  /\ UNCHANGED <<executed, outbox, table, held, rows, phase>>

(* get_position_fills(is_close=False): by position id, or blank. *)
Opening(pid) == {f \in Fills \ Closing : table[f] \in {pid, "blank"}}

(* (Mutant: no opening fill leaves the entry time unset.) *)
MutReadOpensUnset(b) ==
  /\ b \in builds /\ b.at = "opens"
  /\ \E e \in (IF Opening(b.pid) = {} THEN {-1} ELSE {At[1]}) :
       builds' = (builds \ {b}) \union {[b EXCEPT !.at = "closes", !.entry = e]}
  /\ UNCHANGED <<executed, outbox, table, held, rows, timers, phase>>

ReadOpens(b) ==
  /\ b \in builds /\ b.at = "opens"
  /\ \E e \in (IF Opening(b.pid) = {} THEN {0} ELSE {At[1]}) :
       builds' = (builds \ {b}) \union {[b EXCEPT !.at = "closes", !.entry = e]}
  /\ UNCHANGED <<executed, outbox, table, held, rows, timers, phase>>

(* get_fills_by_order *)
ReadCloses(b) ==
  /\ b \in builds /\ b.at = "closes"
  /\ builds' = (builds \ {b}) \union
       {[b EXCEPT !.at = "write",
                  !.closes = {f \in FillsOf(OrderOf[b.fill]) : table[f] # "absent"}]}
  /\ UNCHANGED <<executed, outbox, table, held, rows, timers, phase>>

Row(pid, entry, exit, covers) ==
  [pid |-> pid, entry |-> entry, exit |-> exit, covers |-> covers]

(* (Mutant: one row per position.) *)
MutReplaceByPosition(row) == {r \in rows : r.pid # row.pid} \union {row}

(* INSERT OR REPLACE under UNIQUE(account, position id, exit time). *)
Replace(row) == {r \in rows : r.pid # row.pid \/ r.exit # row.exit} \union {row}

(* (Mutant: the row carries the time of the fill it was built for.) *)
MutWriteRowOwnTime(b) ==
  /\ b \in builds /\ b.at = "write"
  /\ builds' = builds \ {b}
  /\ rows' = Replace(Row(b.pid, b.entry, At[b.fill], b.closes))
  /\ UNCHANGED <<executed, outbox, table, held, timers, phase>>

(* insert_closed_position *)
WriteRow(b) ==
  /\ b \in builds /\ b.at = "write"
  /\ builds' = builds \ {b}
  /\ rows' = Replace(Row(b.pid, b.entry, Last(b.closes), b.closes))
  /\ UNCHANGED <<executed, outbox, table, held, timers, phase>>

(* A read or the insert raises: logged, nobody retries. *)
BuildFails(b) ==
  /\ "fail" \in Faults
  /\ b \in builds
  /\ builds' = builds \ {b}
  /\ UNCHANGED <<executed, outbox, table, held, rows, timers, phase>>

(* get_unrecorded_closing_fills: no row of the same id whose window holds the fill *)
Unrecorded(pid) ==
  {f \in Closing : /\ table[f] \in {pid, "blank"}
                   /\ ~\E r \in rows : r.pid = table[f] /\ r.entry <= At[f] /\ At[f] <= r.exit}

(* build_final_close_row: one build per order, for its first unrecorded fill. *)
FinalCheck(t) ==
  /\ t \in timers /\ t.kind = "final" /\ Settled({})
  /\ timers' = timers \ {t}
  /\ builds' = builds \union
       {Build(f, table[f]) : f \in {g \in Unrecorded(t.pid) :
          \A h \in Unrecorded(t.pid) : OrderOf[h] = OrderOf[g] => g <= h}}
  /\ UNCHANGED <<executed, outbox, table, held, rows, phase>>

-----------------------------------------------------------------------------
(* The process dies: timers and builds go, the plugin's messages find no one. *)
Crash ==
  /\ "crash" \in Faults
  /\ phase = "up"
  /\ phase' = "starting"
  /\ outbox' = {} /\ held' = "gone" /\ timers' = {} /\ builds' = {}
  /\ UNCHANGED <<executed, table, rows>>

(* _startup_fetch: positions from REST, then backfill_fills_from_exchange_history: *)
(* closing fills are matched to the table and one row per open time is written.  *)
Backfill ==
  LET closed == {f \in Closing : f <= executed}
  IN /\ phase = "starting"
     /\ phase' = "up"
     /\ held' = IF OpenAtExchange THEN "blank" ELSE "gone"
     /\ table' = [f \in Fills |-> IF f <= executed /\ table[f] = "absent"
                                  THEN "blank" ELSE table[f]]
     /\ rows' = IF closed = {} THEN rows
                ELSE Replace(Row("bf", At[1], Last(closed), closed))
     /\ UNCHANGED <<executed, outbox, timers, builds>>

Next ==
  \/ Execute \/ PluginSnapshot \/ Crash \/ Backfill
  \/ \E f \in Fills : PluginFill(f) \/ RestSync(f) \/ StreamFill(f)
  \/ \E t \in timers : StartBuild(t) \/ FinalCheck(t)
  \/ \E b \in builds : ReadOpens(b) \/ ReadCloses(b) \/ WriteRow(b) \/ BuildFails(b)

Spec == Init /\ [][Next]_vars

Deliver == \E f \in Fills : PluginFill(f)
Fire == \E t \in timers : StartBuild(t) \/ FinalCheck(t)
Advance == \E b \in builds : ReadOpens(b) \/ ReadCloses(b) \/ WriteRow(b)

(* The plugin delivers and sends snapshots, timers fire, builds progress, and a *)
(* restarted engine starts up.                                                 *)
LiveSpec ==
  /\ Spec
  /\ WF_vars(Deliver) /\ WF_vars(PluginSnapshot)
  /\ WF_vars(Fire) /\ WF_vars(Advance) /\ WF_vars(Backfill)

-----------------------------------------------------------------------------
Ids == {"P", "blank"}
RowTypes == [pid : {"P", "blank", "bf"}, entry : Times \union {0}, exit : Times,
             covers : SUBSET Closing]
TimerTypes == [kind : {"fill", "final"}, fill : Fills, pid : Ids]
BuildTypes == [at : {"opens", "closes", "write"}, fill : Closing, pid : Ids,
               entry : Times \union {0}, closes : SUBSET Closing]

(* TypeOK: the domain of every variable. *)
TypeOK ==
  /\ executed \in 0..N
  /\ outbox \subseteq Fills
  /\ table \in [Fills -> Ids \union {"absent"}]
  /\ held \in Ids \union {"gone"}
  /\ rows \subseteq RowTypes
  /\ timers \subseteq TimerTypes
  /\ builds \subseteq BuildTypes
  /\ phase \in {"up", "starting"}

Covered(f) == \E r \in rows : f \in r.covers

(* NoDoubleCount: no closing fill is summed up by two rows, so the realized PnL *)
(* of closed_positions counts it once (order_manager.py, db_orders.py).         *)
NoDoubleCount ==
  \A r, s \in rows : r.covers \intersect s.covers # {} => r = s

(* CoveredStays: rewriting rows never loses a closing fill a row already had   *)
(* (insert_closed_position's REPLACE).                                         *)
CoveredStays == [][\A f \in Closing : Covered(f) => Covered(f)']_vars

(* Recorded: every closing fill ends up in a row (build_final_close_row).      *)
Recorded == \A f \in Closing : f <= executed ~> Covered(f)
=============================================================================
