------------------------------ MODULE Backtest ------------------------------
(* A back-test: core/backtest_runner.py scans the candles of its symbols,    *)
(* opens and closes hypothetical positions, and stores what it found; the    *)
(* routes start and delete sessions (routes_backtest.py, db_backtest.py).    *)
(*                                                                           *)
(* The scan walks events: one candle of one symbol, by time and, at the same *)
(* time, in the symbols' order. A candle's prices appear as what they do:    *)
(* whether the position ends at its stop or at its target. (One that reaches  *)
(* both counts as either, by side and close.) Money is in whole units; a     *)
(* position is its size, what its stop loses (its target wins Reward times   *)
(* that) and its event.                                                      *)
EXTENDS Integers, FiniteSets, Functions

CONSTANTS
    Symbols,        \* 1..n, in the order of the configuration
    Bars,           \* candles of each symbol (bound)
    Initial,        \* initial_equity
    RiskDen,        \* the risk of a trade: equity \div RiskDen
    Reward,         \* atr_tp_mult over atr_sl_mult
    Sizes,          \* size over what the stop loses: one for each stop distance
    FeeDen,         \* fees of a trade: size \div FeeDen
    MaxCount,       \* max_position_count
    MaxExposure     \* max_exposure, times equity

VARIABLES
    stage,      \* of the task: "idle", "load", "scan", "trades", "curve", "finish"
    event,      \* of the scan: events handled
    book,       \* of the scan: open positions, equity, closed trades
    status,     \* of the session's row: "none", "running", "completed", "failed"
    stored      \* the session's other rows: trades and points of the curve

vars == <<stage, event, book, status, stored>>

Flat == [size |-> 0, loss |-> 0, since |-> 0]
Empty == [open |-> [s \in Symbols |-> Flat], equity |-> Initial, trades |-> {}]
Nothing == [trades |-> 0, curve |-> 0]

Events == Bars * Cardinality(Symbols)
\* The symbol whose candle comes next.
Turn == (event % Cardinality(Symbols)) + 1

Init == stage = "idle" /\ event = 0 /\ book = Empty /\ status = "none" /\ stored = Nothing

-----------------------------------------------------------------------------
(* The scan.                                                                 *)

Closed(b, s, reason, gross) ==
    LET net == gross - (b.open[s].size \div FeeDen)
    IN  [open |-> [b.open EXCEPT ![s] = Flat], equity |-> b.equity + net,
         trades |-> b.trades \cup {[symbol |-> s, entry |-> b.open[s].since,
                                    exit |-> event, reason |-> reason]}]

\* The symbol's position against the candle's range.
Settled(b, s, exit) ==
    LET loss == b.open[s].loss
    IN  IF b.open[s] = Flat \/ exit = "none" THEN b
        ELSE Closed(b, s, exit, IF exit = "tp" THEN Reward * loss ELSE -loss)

\* (Mutant: the percentage is not divided by a hundred.)
MutRisk(b) == b.equity
\* _size_position: what the stop may lose; a calm market and slippage take less.
Risk(b) == b.equity \div RiskDen

\* The sizes of what is open.
Exposure(b) == FoldFunction(LAMBDA p, sum : p.size + sum, 0, b.open)

\* What a signal at the candle's close may open, past the guards.
Offers(b, s) ==
    {pos \in {[size |-> k * l, loss |-> l, since |-> event] : k \in Sizes, l \in {1, Risk(b)}} :
       /\ b.open[s] = Flat
       /\ Cardinality({o \in Symbols : b.open[o] # Flat}) < MaxCount
       /\ b.equity > 0 /\ pos.loss \in 1..Risk(b)
       /\ Exposure(b) + pos.size <= MaxExposure * b.equity}
Opened(b, s) == {b} \cup {[b EXCEPT !.open[s] = pos] : pos \in Offers(b, s)}

\* (Mutant: it opens first, and settles what it opened.)
MutCandle ==
    /\ stage = "scan" /\ event < Events
    /\ \E exit \in {"none", "sl", "tp"}, b \in Opened(book, Turn) : book' = Settled(b, Turn, exit)
    /\ event' = event + 1 /\ UNCHANGED <<stage, status, stored>>
\* One candle: it settles the symbol's position, then may open another.
Candle ==
    /\ stage = "scan" /\ event < Events
    /\ \E exit \in {"none", "sl", "tp"} : book' \in Opened(Settled(book, Turn, exit), Turn)
    /\ event' = event + 1 /\ UNCHANGED <<stage, status, stored>>

\* After the last candle: what is open closes at the last price, between its
\* stop and its target. (The scan's own equity no longer follows.)
ForceClose ==
    /\ stage = "scan" /\ event = Events
    /\ \/ \E s \in Symbols :
            /\ book.open[s] # Flat
            /\ \E gross \in {-book.open[s].loss, 0, Reward * book.open[s].loss} :
                 book' = [Closed(book, s, "end_of_data", gross) EXCEPT !.equity = book.equity]
            /\ UNCHANGED stage
       \/ book.open = Empty.open /\ stage' = "trades" /\ UNCHANGED book
    /\ UNCHANGED <<event, status, stored>>

-----------------------------------------------------------------------------
(* The session.                                                              *)

\* api_backtest_run: the row, and the task.
Run ==
    /\ stage = "idle" /\ status = "none"
    /\ stage' = "load" /\ status' = "running" /\ event' = 0 /\ book' = Empty
    /\ UNCHANGED stored

\* Candles of some symbol are there: the scan, which never awaits; or none.
Loads ==
    /\ stage = "load"
    /\ \/ stage' = "scan" /\ UNCHANGED status
       \/ stage' = "idle" /\ status' = "failed"
    /\ UNCHANGED <<event, book, stored>>

StoresTrades ==
    /\ stage = "trades" /\ stage' = "curve"
    /\ stored' = [stored EXCEPT !.trades = Cardinality(book.trades)]
    /\ UNCHANGED <<event, book, status>>

StoresCurve ==
    /\ stage = "curve" /\ stage' = "finish"
    /\ stored' = [stored EXCEPT !.curve = Cardinality(book.trades)]
    /\ UNCHANGED <<event, book, status>>

\* (Mutant: completed without looking at what the inserts did.)
MutEnds ==
    /\ stage \in {"load", "trades", "curve", "finish"}
    /\ stage' = "idle" /\ status' = IF stage = "load" THEN "failed" ELSE "completed"
    /\ UNCHANGED <<event, book, stored>>
\* finish_backtest_session: completed after the inserts, or failed when one of
\* the awaited calls raises.
Ends ==
    /\ stage \in {"load", "trades", "curve", "finish"}
    /\ stage' = "idle"
    /\ status' \in (IF stage = "finish" THEN {"completed", "failed"} ELSE {"failed"})
    /\ UNCHANGED <<event, book, stored>>

\* api_backtest_session_delete: cancels the task, which is at an await, and
\* deletes the row with the rows that refer to it.
Delete ==
    /\ status # "none" /\ stage # "scan"
    /\ stage' = "idle" /\ status' = "none" /\ stored' = Nothing
    /\ UNCHANGED <<event, book>>

\* The engine dies: the task is gone, the rows stay.
Crash == stage # "idle" /\ stage' = "idle" /\ UNCHANGED <<event, book, status, stored>>

Next ==
    \/ Candle \/ ForceClose
    \/ Run \/ Loads \/ StoresTrades \/ StoresCurve \/ Ends \/ Delete \/ Crash

Spec == Init /\ [][Next]_vars

-----------------------------------------------------------------------------
(* Properties.                                                               *)

TypeOK ==
    /\ stage \in {"idle", "load", "scan", "trades", "curve", "finish"}
    /\ event \in 0..Events /\ book.equity \in Int
    /\ \A s \in Symbols : book.open[s].size \in Nat /\ book.open[s].since \in 0..event
    /\ status \in {"none", "running", "completed", "failed"}
    /\ stored.trades \in Nat /\ stored.curve \in Nat

\* A position opened at a candle's close is not judged by that candle's range:
\* a trade that hit its stop or its target left after the candle of its entry,
\* and one symbol's trades follow each other (the order of the two halves of
\* the loop's body, backtest_runner.py:300-348 and 350-427).
NoLookAhead ==
    \A t \in book.trades :
        /\ t.reason # "end_of_data" => t.entry < t.exit
        /\ \A u \in book.trades : t.symbol = u.symbol /\ t # u =>
              t.exit <= u.entry \/ u.exit <= t.entry

\* The lives of the session's positions, closed or open: from the event of the
\* entry to that of the exit.
Lives ==
    {<<t.symbol, t.entry, t.exit>> : t \in book.trades}
      \cup {<<s, book.open[s].since, event>> : s \in {o \in Symbols : book.open[o] # Flat}}
Alone == \A x, y \in Lives : x # y => x[3] <= y[2] \/ y[3] <= x[2]

\* A position risks a share of the equity there is: as long as no two were open
\* at a time, no run of stops, with their fees, takes all of it. (With two, the
\* losses of one shrink the equity the other was sized by.)
\* (backtest_runner.py:_size_position).
Solvent == Alone => book.equity > 0

\* A completed session has its trades and its curve, also when the engine died
\* or a call failed in between (backtest_runner.py:487-490).
CompletedIsWhole ==
    status = "completed" =>
        stored = [trades |-> Cardinality(book.trades), curve |-> Cardinality(book.trades)]

\* A running session has a task. (A restart leaves one without.)
RunningIsAlive == status = "running" => stage # "idle"
=============================================================================
