------------------------------ MODULE Dispatch ------------------------------
(* The event bus (core/event_bus.py) and what runs on it beside the other    *)
(* trade-event tasks: handlers are awaited one after the other, and the      *)
(* reconciler's (core/reconciler.py) sleep, wait for trade_event_sem and     *)
(* call the exchange, so they hold up every event behind them.               *)
(*                                                                           *)
(* _HL_SEM and the semaphore of backfill_all are taken inside trade_event_sem *)
(* and have no fewer permits, so nobody ever waits for them: they are left   *)
(* out.  A trade's row goes from "none" to "closing" (closed, its income not *)
(* yet published), "settled" (published), "open" (in exchange_history without *)
(* MFE/MAE) and "done" (backfill_completed).                                 *)
EXTENDS Naturals, FiniteSets, Sequences, SequencesExt

CONSTANTS
    Trades,       \* trades that close
    SymbolOf,     \* the ticker of each
    Permits,      \* of trade_event_sem
    Callers,      \* the other tasks that take it: fallback loop, fill refresh
    MaxLight,     \* bound on events whose handlers call nobody
    MaxFaults,    \* bound on failing and rate limited calls
    MaxCalls      \* bound on calls of the Callers

Symbols == {SymbolOf[t] : t \in Trades}
Tasks == {"bus"} \cup Symbols \cup Callers

ASSUME DispatchAssumption ==
    /\ Permits \in Nat \ {0} /\ {MaxLight, MaxFaults, MaxCalls} \subseteq Nat
    /\ "bus" \notin Symbols /\ Symbols \cap Callers = {} /\ "bus" \notin Callers

VARIABLES
    published,  \* every event published (history)
    queue,      \* EventBus._queue
    current,    \* the event run() is dispatching, as a sequence
    handled,    \* events dispatched (history)
    pc,         \* per task: where it awaits (Symbols: the workers of backfill_all)
    todo,       \* per task: rows its query returned and it has not tried yet
    permits,    \* of trade_event_sem
    paused,     \* ws_status.is_rate_limited
    row,        \* per trade: its row
    backfill,   \* where backfill_all is
    missed,     \* rows backfill_all had before it (history)
    disturbed,  \* a pause, a failing call or a late income entry (history)
    budget      \* counters for the bounds

vars == <<published, queue, current, handled, pc, todo, permits, paused, row,
          backfill, missed, disturbed, budget>>

Events == [kind : {"light", "trade"}, trade : Trades]
Spend(b) == budget[b] > 0 /\ budget' = [budget EXCEPT ![b] = @ - 1]

\* get_uncalculated_exchange_rows
Uncalculated(s) == {t \in Trades : SymbolOf[t] = s /\ row[t] = "open"}
Holding == {p \in Tasks : pc[p] \in {"history", "rows", "call"}}

TypeOK ==
    /\ {queue, current, handled, published} \subseteq Seq(Events)
    /\ pc \in [Tasks -> {"idle", "settle", "wait", "history", "rows", "call"}]
    /\ todo \in [Tasks -> SUBSET Trades]
    /\ paused \in BOOLEAN /\ disturbed \in BOOLEAN
    /\ row \in [Trades -> {"none", "closing", "settled", "open", "done"}]
    /\ backfill \in {"history", "workers", "done"}
    /\ missed \subseteq Trades
    /\ permits \in 0 .. Permits

\* Rows of earlier sessions may wait; backfill_all and run() start together.
Init ==
    /\ published = <<>> /\ queue = <<>> /\ current = <<>> /\ handled = <<>>
    /\ pc = [p \in Tasks |-> "idle"]
    /\ todo = [p \in Tasks |-> {}]
    /\ permits = Permits
    /\ paused = FALSE
    /\ row \in [Trades -> {"none", "open"}]
    /\ backfill = "history"
    /\ missed = {t \in Trades : row[t] = "open"}
    /\ disturbed = FALSE
    /\ budget = [light |-> MaxLight, faults |-> MaxFaults, calls |-> MaxCalls]

-----------------------------------------------------------------------------
(* Publishing and dispatching.                                               *)

Publish(e) == published' = Append(published, e) /\ queue' = Append(queue, e)

\* account_updated, positions_refreshed, params_updated, risk_calculated.
LightEvent(t) ==
    /\ Spend("light")
    /\ Publish([kind |-> "light", trade |-> t])
    /\ UNCHANGED <<current, handled, pc, todo, permits, paused, row, backfill,
                   missed, disturbed>>

\* The position cache sees a position gone.
TradeCloses(t) ==
    /\ row[t] = "none"
    /\ row' = [row EXCEPT ![t] = "closing"]
    /\ Publish([kind |-> "trade", trade |-> t])
    /\ UNCHANGED <<current, handled, pc, todo, permits, paused, backfill,
                   missed, disturbed, budget>>

\* The exchange finalises the income entry.
Settles(t) ==
    /\ row[t] = "closing"
    /\ row' = [row EXCEPT ![t] = "settled"]
    /\ UNCHANGED <<published, queue, current, handled, pc, todo, permits, paused,
                   backfill, missed, disturbed, budget>>

\* (Mutant: during a pause the event is put back at the end.)
MutDispatch ==
    /\ pc["bus"] = "idle" /\ queue # <<>>
    /\ LET e == Head(queue)
       IN  IF e.kind = "trade"
           THEN /\ pc' = [pc EXCEPT !["bus"] = IF paused THEN "idle" ELSE "settle"]
                /\ queue' = IF paused THEN Append(Tail(queue), e) ELSE Tail(queue)
                /\ current' = IF paused THEN <<>> ELSE <<e>>
                /\ UNCHANGED handled
           ELSE /\ queue' = Tail(queue) /\ handled' = Append(handled, e)
                /\ UNCHANGED <<pc, current>>
    /\ UNCHANGED <<published, todo, permits, paused, row, backfill, missed, disturbed, budget>>

\* run() takes an event.  on_trade_closed gives up at once during a pause.
Dispatch ==
    /\ pc["bus"] = "idle" /\ queue # <<>>
    /\ LET e == Head(queue)
           long == e.kind = "trade" /\ ~paused
       IN  /\ queue' = Tail(queue)
           /\ pc' = [pc EXCEPT !["bus"] = IF long THEN "settle" ELSE "idle"]
           /\ current' = IF long THEN <<e>> ELSE <<>>
           /\ handled' = IF long THEN handled ELSE Append(handled, e)
           /\ disturbed' = (disturbed \/ (e.kind = "trade" /\ paused))
    /\ UNCHANGED <<published, todo, permits, paused, row, backfill, missed, budget>>

\* (Mutant: the handler waits until the entry is there.)
MutSettleEnds ==
    /\ pc["bus"] = "settle" /\ row[current[1].trade] # "closing"
    /\ pc' = [pc EXCEPT !["bus"] = "wait"]
    /\ UNCHANGED <<published, queue, current, handled, todo, permits, paused, row,
                   backfill, missed, disturbed, budget>>

\* _SETTLE_DELAY is over, whether or not the entry is there.
SettleEnds ==
    /\ pc["bus"] = "settle"
    /\ pc' = [pc EXCEPT !["bus"] = "wait"]
    /\ disturbed' = (disturbed \/ row[current[1].trade] = "closing")
    /\ UNCHANGED <<published, queue, current, handled, todo, permits, paused, row,
                   backfill, missed, budget>>

-----------------------------------------------------------------------------
(* trade_event_sem.                                                          *)

Acquire(p) ==
    /\ pc[p] = "wait" /\ permits > 0
    /\ permits' = permits - 1
    /\ pc' = [pc EXCEPT ![p] = IF p = "bus" THEN "history"
                               ELSE IF p \in Symbols THEN "rows" ELSE "call"]
    /\ todo' = [todo EXCEPT ![p] = IF p \in Symbols THEN Uncalculated(p) ELSE {}]
    /\ UNCHANGED <<published, queue, current, handled, paused, row, backfill,
                   missed, disturbed, budget>>

\* `async with` gives the permit back however its block ends; the bus then
\* takes the next event.
Release(p) ==
    /\ permits' = permits + 1
    /\ pc' = [pc EXCEPT ![p] = "idle"]
    /\ IF p = "bus" THEN handled' = handled \o current /\ current' = <<>>
                    ELSE UNCHANGED <<handled, current>>

\* (Mutant: an error skips the release.)
MutReleaseOnError(p) ==
    /\ pc' = [pc EXCEPT ![p] = "idle"]
    /\ permits' = permits
    /\ IF p = "bus" THEN handled' = handled \o current /\ current' = <<>>
                    ELSE UNCHANGED <<handled, current>>
ReleaseOnError(p) == Release(p)

-----------------------------------------------------------------------------
(* The reconciler.                                                           *)

\* fetch_exchange_trade_history: every published entry gets a row.
Fetched == [t \in Trades |-> IF row[t] = "settled" THEN "open" ELSE row[t]]

\* (Mutant: the rows are read before the history is fetched.)
MutHistory ==
    /\ pc["bus"] = "history"
    /\ pc' = [pc EXCEPT !["bus"] = "rows"]
    /\ \/ row' = Fetched /\ UNCHANGED <<disturbed, budget>>
       \/ Spend("faults") /\ disturbed' = TRUE /\ UNCHANGED row
    /\ todo' = [todo EXCEPT !["bus"] = Uncalculated(SymbolOf[current[1].trade])]
    /\ UNCHANGED <<published, queue, current, handled, permits, paused, backfill, missed>>

\* It swallows its own errors, a rate limit too: nothing is paused and the
\* handler goes on with the rows there are.
History ==
    /\ pc["bus"] = "history"
    /\ pc' = [pc EXCEPT !["bus"] = "rows"]
    /\ \/ row' = Fetched /\ UNCHANGED <<disturbed, budget>>
       \/ Spend("faults") /\ disturbed' = TRUE /\ UNCHANGED row
    /\ LET s == SymbolOf[current[1].trade]
       IN  todo' = [todo EXCEPT !["bus"] =
                       {t \in Trades : SymbolOf[t] = s /\ row'[t] = "open"}]
    /\ UNCHANGED <<published, queue, current, handled, permits, paused, backfill, missed>>

\* One round of _reconcile_symbol.  fetch_hl_for_trade turns a rate limit into
\* a pause and no data, and another error into no data.
RowDone(p, t) ==
    /\ pc[p] = "rows" /\ ~paused /\ t \in todo[p]
    /\ todo' = [todo EXCEPT ![p] = @ \ {t}]
    /\ row' = [row EXCEPT ![t] = "done"]
    /\ UNCHANGED <<published, queue, current, handled, pc, permits, paused,
                   backfill, missed, disturbed, budget>>

RowFails(p, t, limited) ==
    /\ pc[p] = "rows" /\ ~paused /\ t \in todo[p]
    /\ Spend("faults")
    /\ todo' = [todo EXCEPT ![p] = @ \ {t}]
    /\ paused' = limited
    /\ disturbed' = TRUE
    /\ UNCHANGED <<published, queue, current, handled, pc, permits, row, backfill, missed>>

\* No rows left, or a pause: the rest is given up.
RowsEnd(p) ==
    /\ pc[p] = "rows" /\ (todo[p] = {} \/ paused)
    /\ todo' = [todo EXCEPT ![p] = {}]
    /\ disturbed' = (disturbed \/ todo[p] # {})
    /\ Release(p)
    /\ UNCHANGED <<published, queue, paused, row, backfill, missed, budget>>

\* The database raises: the handler, or the worker, logs it.
RowsRaise(p) ==
    /\ pc[p] = "rows"
    /\ Spend("faults")
    /\ todo' = [todo EXCEPT ![p] = {}]
    /\ disturbed' = TRUE
    /\ ReleaseOnError(p)
    /\ UNCHANGED <<published, queue, paused, row, backfill, missed>>

\* backfill_all: one refresh of the history, then a worker per symbol that has
\* rows to calculate; a worker gives up at once during a pause.
BackfillStarts ==
    /\ backfill = "history"
    /\ backfill' = "workers"
    /\ \/ row' = Fetched /\ UNCHANGED <<disturbed, budget>>
       \/ Spend("faults") /\ disturbed' = TRUE /\ UNCHANGED row
    /\ pc' = [p \in Tasks |->
                IF p \in Symbols /\ ~paused
                   /\ \E t \in Trades : SymbolOf[t] = p /\ row'[t] = "open"
                THEN "wait" ELSE pc[p]]
    /\ UNCHANGED <<published, queue, current, handled, todo, permits, paused, missed>>

\* (Mutant: the workers are not awaited.)
MutBackfillEnds ==
    /\ backfill = "workers"
    /\ backfill' = "done"
    /\ UNCHANGED <<published, queue, current, handled, pc, todo, permits, paused,
                   row, missed, disturbed, budget>>

\* gather is over.
BackfillEnds ==
    /\ backfill = "workers"
    /\ \A s \in Symbols : pc[s] = "idle"
    /\ backfill' = "done"
    /\ UNCHANGED <<published, queue, current, handled, pc, todo, permits, paused,
                   row, missed, disturbed, budget>>

-----------------------------------------------------------------------------
(* The fallback loop, the refresh after a fill and _on_new_position: they     *)
(* look for a pause, then wait for the semaphore, then call.                  *)

CallStarts(c) ==
    /\ pc[c] = "idle" /\ ~paused
    /\ Spend("calls")
    /\ pc' = [pc EXCEPT ![c] = "wait"]
    /\ UNCHANGED <<published, queue, current, handled, todo, permits, paused, row,
                   backfill, missed, disturbed>>

\* (Mutant: the permit is given back inside the block and again at its end.)
MutCallEnds(c) ==
    /\ pc[c] = "call"
    /\ permits' = permits + 2
    /\ pc' = [pc EXCEPT ![c] = "idle"]
    /\ UNCHANGED <<published, queue, current, handled, todo, paused, row, backfill,
                   missed, disturbed, budget>>

CallEnds(c) ==
    /\ pc[c] = "call"
    /\ Release(c)
    /\ UNCHANGED <<published, queue, todo, paused, row, backfill, missed, disturbed, budget>>

CallFails(c, limited) ==
    /\ pc[c] = "call"
    /\ Spend("faults")
    /\ paused' = (paused \/ limited)
    /\ disturbed' = (disturbed \/ limited)
    /\ ReleaseOnError(c)
    /\ UNCHANGED <<published, queue, todo, row, backfill, missed>>

PauseEnds ==
    /\ paused
    /\ paused' = FALSE
    /\ UNCHANGED <<published, queue, current, handled, pc, todo, permits, row,
                   backfill, missed, disturbed, budget>>

BusStep == Dispatch \/ SettleEnds \/ History
RowStep(p) == RowsEnd(p) \/ \E t \in Trades : RowDone(p, t)

Next ==
    \/ \E t \in Trades : LightEvent(t) \/ TradeCloses(t) \/ Settles(t)
    \/ BusStep
    \/ \E p \in Tasks :
         \/ Acquire(p) \/ RowStep(p) \/ RowsRaise(p)
         \/ \E t \in Trades, limited \in BOOLEAN : RowFails(p, t, limited)
    \/ BackfillStarts \/ BackfillEnds
    \/ \E c \in Callers :
         \/ CallStarts(c) \/ CallEnds(c)
         \/ \E limited \in BOOLEAN : CallFails(c, limited)
    \/ PauseEnds

Spec == Init /\ [][Next]_vars

\* The event loop runs what is ready, sleeps and calls end, pauses run out and
\* asyncio.Semaphore wakes its waiters first in, first out.
Fairness ==
    /\ WF_vars(BusStep) /\ WF_vars(BackfillStarts) /\ WF_vars(BackfillEnds)
    /\ WF_vars(PauseEnds)
    /\ \A p \in Tasks : SF_vars(Acquire(p)) /\ WF_vars(RowStep(p))
    /\ \A c \in Callers : WF_vars(CallEnds(c))

LiveSpec == Spec /\ Fairness

-----------------------------------------------------------------------------
(* Properties.                                                               *)

\* trade_event_sem stays balanced through every error, pause and early return
\* of the tasks that share it: a permit is free or has exactly one holder.
Balanced == permits + Cardinality(Holding) = Permits

\* The bus loses, repeats and reorders nothing, whatever its handlers do.
InOrder == handled \o current \o queue = published

\* An event behind a handler that sleeps, waits for the semaphore and calls the
\* exchange is late, never stuck: the queue drains in the end.
Drains == []<>(queue = <<>> /\ pc["bus"] = "idle")

\* The startup backfill leaves no row of an earlier session without MFE/MAE,
\* with close events, workers and callers running beside it, unless a pause or
\* a failing call came between.
BackfillComplete ==
    backfill = "done" /\ ~disturbed => \A t \in missed : row[t] = "done"

\* A trade that closes gets its MFE/MAE unless its income entry was late or a
\* pause or a failing call came between.
Calculated == \A t \in Trades : (row[t] = "closing") ~> (row[t] = "done" \/ disturbed)

\* "work is idempotent, _history_refresh_loop covers": a row whose handler gave
\* up because of a pause is calculated later all the same.  It is not: that
\* loop only fetches the history again.
PausedIsCovered == \A t \in Trades : (row[t] = "open") ~> (row[t] = "done")
=============================================================================
