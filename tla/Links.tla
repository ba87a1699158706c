------------------------------- MODULE Links -------------------------------
(* Which calculation an order follows: the trigger prices an entry order gets *)
(* from its exits, the calculation found by its prices, the calculation of    *)
(* its fills, and links set by hand (core/order_enrichment.py,                *)
(* calc_correlation.py, order_manager.py, api/routes_admin.py).               *)
(*                                                                            *)
(* One symbol.  The program compares the side of a calculation (long, short)  *)
(* with that of an order (BUY, SELL) and the ratio effective_entry with its   *)
(* price, so only links set by hand come about; OrderSide and Price are     *)
(* constants, the rest being modelled for whatever they are, as in the tests. *)
(* A number of a plan, an order or a position is 0 when there is none; ids of *)
(* calculations are their places in plans, in the order of their timestamps.  *)
(* Messages are of any source: between the row's upsert, which awaits, and    *)
(* the enrichment, which does not, other messages are handled.                *)
EXTENDS Integers, Sequences, FiniteSets

CONSTANTS
    Plans,      \* calculations a user may save: side, entry, tp and sl
    Entries,    \* entry orders
    Market,     \* those that are market orders
    OrderSide,  \* the side of an entry order
    Price,      \* the price of an entry order
    Exits,      \* stop and take-profit orders
    Kind,       \* "tp" or "sl"
    Triggers,   \* the trigger prices an exit may have
    Positions,  \* position ids, from 1
    Executions, \* fills of entries and exits
    OrderOf,    \* a fill's order
    Tick,       \* tick_size
    MaxPlans, MaxTasks, MaxUpdates   \* bounds

VARIABLES
    plans,     \* pre_trade_log
    aged,      \* how many of plans are older than _MATCH_WINDOW_HOURS
    entries,   \* rows of entry orders: position id, trigger prices, calc_id
    exits,     \* rows of exit orders: trigger price, position id
    filled,    \* rows of fills: calc_id, fill_type
    tasks,     \* messages between upsert and enrichment
    updates    \* counts messages (bound)

vars == <<plans, aged, entries, exits, filled, tasks, updates>>

PlanIds == 1 .. Len(plans)
NoRow == [known |-> FALSE, pos |-> 0, tp |-> 0, sl |-> 0, calc |-> 0]
NoExit == [known |-> FALSE, pos |-> 0, price |-> 0]
NoFill == [known |-> FALSE, calc |-> 0, type |-> ""]

Init ==
    /\ plans = <<>> /\ aged = 0
    /\ entries = [o \in Entries |-> NoRow]
    /\ exits = [x \in Exits |-> NoExit]
    /\ filled = [f \in Executions |-> NoFill]
    /\ tasks = {} /\ updates = 0

-----------------------------------------------------------------------------
(* Enrichment.                                                               *)

\* _populate_tp_sl_trigger_prices: the trigger of any exit row of the position,
\* open or not (the last row read wins; the query has no order), else the old one.
TriggersOf(kind, pos, old) ==
    LET found == {exits[x].price : x \in {y \in Exits : exits[y].known /\ exits[y].pos = pos
                                                       /\ Kind[y] = kind}}
    IN  IF pos = 0 \/ found = {} THEN {old} ELSE found

Near(a, b) == a - b \in -Tick .. Tick

\* correlate_order_to_calc: of the calculations in the window whose side and
\* prices are the order's, and which no order has yet, the newest.
Matching(o, tp, sl) ==
    {c \in aged + 1 .. Len(plans) :
        /\ plans[c].side = OrderSide[o] /\ Near(plans[c].tp, tp) /\ Near(plans[c].sl, sl)
        /\ o \in Market \/ (Price[o] # 0 /\ Near(plans[c].entry, Price[o]))
        /\ \A p \in Entries : entries[p].calc # c}

\* (Mutant: a calculation may be found twice.)
MutCorrelated(o, row) ==
    LET found == {c \in aged + 1 .. Len(plans) : /\ plans[c].side = OrderSide[o]
                                                 /\ Near(plans[c].tp, row.tp) /\ Near(plans[c].sl, row.sl)}
    IN  IF row.calc # 0 \/ row.tp = 0 \/ row.sl = 0 \/ found = {} THEN row.calc
        ELSE CHOOSE c \in found : \A d \in found : d <= c
\* _try_correlate.
Correlated(o, row) ==
    LET found == Matching(o, row.tp, row.sl)
    IN  IF row.calc # 0 \/ row.tp = 0 \/ row.sl = 0 \/ found = {} THEN row.calc
        ELSE CHOOSE c \in found : \A d \in found : d <= c

\* enrich_order of an entry, with the position id it was handed.
Enriched(o, pos) ==
    \E tp \in TriggersOf("tp", pos, entries[o].tp), sl \in TriggersOf("sl", pos, entries[o].sl) :
        LET row == [entries[o] EXCEPT !.tp = tp, !.sl = sl]
        IN  entries' = [entries EXCEPT ![o] = [row EXCEPT !.calc = Correlated(o, row)]]

\* (Mutant: the fill's own calculation is looked up again each time.)
MutPropagated(f) == IF OrderOf[f] \in Entries THEN Len(plans) ELSE 0
\* _propagate_calc_id_to_fill.
Propagated(f) ==
    IF filled[f].calc # 0 \/ OrderOf[f] \notin Entries THEN filled[f].calc
    ELSE entries[OrderOf[f]].calc

\* classify_fill_type: by the order's row when there is one; is_close otherwise.
Classified(f) ==
    IF OrderOf[f] \in Entries THEN "entry"
    ELSE IF exits[OrderOf[f]].known THEN Kind[OrderOf[f]] ELSE "manual"

-----------------------------------------------------------------------------

\* A calculation is saved (insert_pre_trade_log).
Save(p) ==
    /\ Len(plans) < MaxPlans
    /\ plans' = Append(plans, p)
    /\ UNCHANGED <<aged, entries, exits, filled, tasks, updates>>

\* The oldest calculation leaves the window.
Age ==
    /\ aged < Len(plans) /\ aged' = aged + 1
    /\ UNCHANGED <<plans, entries, exits, filled, tasks, updates>>

Message(task) ==
    /\ updates < MaxUpdates /\ Cardinality(tasks) < MaxTasks
    /\ tasks' = tasks \cup {task} /\ updates' = updates + 1

\* process_order_update of an entry: upsert_order_batch stores the position id,
\* also an empty one, unless the row is newer.
UpsertEntry(o, pos) ==
    /\ Message(<<"entry", o, pos>>)
    /\ \E newer \in {entries[o].known, FALSE} :
          entries' = [entries EXCEPT ![o] = IF newer THEN @ ELSE [@ EXCEPT !.known = TRUE, !.pos = pos]]
    /\ UNCHANGED <<plans, aged, exits, filled>>

EnrichEntry(t) ==
    /\ t \in tasks /\ t[1] = "entry"
    /\ Enriched(t[2], t[3])
    /\ tasks' = tasks \ {t}
    /\ UNCHANGED <<plans, aged, exits, filled, updates>>

\* process_order_update of an exit.
UpsertExit(x, price, pos) ==
    /\ Message(<<"exit", x, pos>>)
    /\ \E newer \in {exits[x].known, FALSE} :
          exits' = [exits EXCEPT ![x] = IF newer THEN @ ELSE [known |-> TRUE, price |-> price, pos |-> pos]]
    /\ UNCHANGED <<plans, aged, entries, filled>>

\* _re_enrich_parent_on_child_arrival: one entry of the exit's position (LIMIT 1,
\* without an order), if there is one.
EnrichParent(t) ==
    LET parents == {o \in Entries : entries[o].known /\ entries[o].pos = t[3]}
    IN  /\ t \in tasks /\ t[1] = "exit"
        /\ IF t[3] = 0 \/ parents = {} THEN UNCHANGED entries
           ELSE \E o \in parents : Enriched(o, t[3])
        /\ tasks' = tasks \ {t}
        /\ UNCHANGED <<plans, aged, exits, filled, updates>>

\* A snapshot stores rows and enriches nothing (process_order_snapshot).
SnapshotEntry(o, pos) ==
    /\ updates < MaxUpdates /\ updates' = updates + 1
    /\ entries' = [entries EXCEPT ![o].known = TRUE, ![o].pos = pos]
    /\ UNCHANGED <<plans, aged, exits, filled, tasks>>

SnapshotExit(x, price, pos) ==
    /\ updates < MaxUpdates /\ updates' = updates + 1
    /\ exits' = [exits EXCEPT ![x] = [known |-> TRUE, price |-> price, pos |-> pos]]
    /\ UNCHANGED <<plans, aged, entries, filled, tasks>>

\* process_fill: a row that is there keeps its calculation.
UpsertFill(f) ==
    /\ Message(<<"fill", f, 0>>)
    /\ filled' = [filled EXCEPT ![f].known = TRUE]
    /\ UNCHANGED <<plans, aged, entries, exits>>

\* enrich_fill.
EnrichFill(t) ==
    /\ t \in tasks /\ t[1] = "fill"
    /\ filled' = [filled EXCEPT ![t[2]].calc = Propagated(t[2]), ![t[2]].type = Classified(t[2])]
    /\ tasks' = tasks \ {t}
    /\ UNCHANGED <<plans, aged, entries, exits, updates>>

\* (Mutant: the fills keep what they have.)
MutConfirm(o, c) ==
    /\ entries[o].known /\ entries[o].calc = 0
    /\ entries' = [entries EXCEPT ![o].calc = c]
    /\ UNCHANGED <<plans, aged, exits, filled, tasks, updates>>
\* calc_link_confirm, of an order and a calculation the page listed before: both
\* are looked at again.
Confirm(o, c) ==
    /\ entries[o].known /\ entries[o].calc = 0
    /\ \A p \in Entries : entries[p].calc # c
    /\ entries' = [entries EXCEPT ![o].calc = c]
    /\ filled' = [f \in Executions |->
                    IF filled[f].known /\ OrderOf[f] = o THEN [filled[f] EXCEPT !.calc = c] ELSE filled[f]]
    /\ UNCHANGED <<plans, aged, exits, tasks, updates>>

Next ==
    \/ \E p \in Plans : Save(p)
    \/ Age
    \/ \E o \in Entries, pos \in Positions \cup {0} : UpsertEntry(o, pos) \/ SnapshotEntry(o, pos)
    \/ \E x \in Exits, price \in Triggers, pos \in Positions \cup {0} :
         UpsertExit(x, price, pos) \/ SnapshotExit(x, price, pos)
    \/ \E f \in Executions : UpsertFill(f)
    \/ \E t \in tasks : EnrichEntry(t) \/ EnrichParent(t) \/ EnrichFill(t)
    \/ \E o \in Entries, c \in PlanIds : Confirm(o, c)

Spec == Init /\ [][Next]_vars

-----------------------------------------------------------------------------
(* Properties.                                                               *)

\* A calculation is the plan of one order: its result is not counted twice
\* (calc_correlation.py, calc_link_confirm).
OneOrderEach ==
    \A o, p \in Entries : entries[o].calc # 0 /\ entries[o].calc = entries[p].calc => o = p

\* A fill that has a calculation has its order's, however messages, retries and
\* links by hand fall, and no exit's fill has one (_propagate_calc_id_to_fill).
FillsFollow ==
    \A f \in Executions : filled[f].calc # 0 =>
        OrderOf[f] \in Entries /\ entries[OrderOf[f]].calc = filled[f].calc

\* An order's calculation stays (_try_correlate).
LinksStay ==
    [][\A o \in Entries : entries[o].calc # 0 => entries'[o].calc = entries[o].calc]_vars

\* It is one that was saved (_try_correlate, calc_link_confirm).
LinksSaved == \A o \in Entries : entries[o].calc \in PlanIds \cup {0}
=============================================================================
