------------------------------ MODULE History ------------------------------
(* The trades of one symbol as rows of exchange_history (core/db_exchange.py *)
(* upsert_exchange_history): those the plugin sends at each of its starts    *)
(* (RiskEnginePlugin.cs BackfillHistoricalTradesAsync, core/platform_bridge  *)
(* _handle_historical_fill), those fetched from the exchange while the       *)
(* plugin is away (core/exchange_income.py fetch_exchange_trade_history),    *)
(* and the trades calculated by the reconciler.                              *)
(*                                                                           *)
(* One-way mode, trades of one contract, several of which may fall in one    *)
(* millisecond; every closing trade earns 1.  Other accounts are left out:   *)
(* the engine's account does not change.                                     *)
EXTENDS Integers, Sequences, SequencesExt, FiniteSetsExt

CONSTANTS
    MaxTime,    \* bound on time
    MaxTrades,  \* bound on trades
    MaxStarts   \* bound on the plugin's starts

VARIABLES
    now,
    trades,     \* at the exchange: time, side and the quantity held before
    plugin,     \* the plugin is connected
    sending,    \* indices of trades still to be sent
    handling,   \* _handle_historical_fill between its store and its look-up
    fetching,   \* fetch_exchange_trade_history: rows read and not yet stored
    rows,       \* exchange_history
    starts, fetched

vars == <<now, trades, plugin, sending, handling, fetching, rows, starts, fetched>>

Row == [key : {"qt"} \X (1 .. MaxTrades) \cup {"rest"} \X (1 .. MaxTime),
        time : 1 .. MaxTime, pnl : BOOLEAN, income : Nat,
        dir : {"LONG", "SHORT"}, open : 0 .. MaxTime, done : 0 .. MaxTime]

TypeOK ==
    /\ now \in 1 .. MaxTime /\ Len(trades) <= MaxTrades /\ plugin \in BOOLEAN
    /\ \A i \in DOMAIN trades : trades[i].time <= now
    /\ sending \in Seq(DOMAIN trades) /\ handling \subseteq DOMAIN trades
    /\ {rows, fetching.rows} \subseteq SUBSET Row
    /\ \A r, s \in rows : r.key = s.key => r = s
    /\ starts \in 0 .. MaxStarts

Init ==
    /\ now = 1 /\ trades = <<>> /\ plugin = FALSE /\ sending = <<>> /\ handling = {}
    /\ fetching = [on |-> FALSE, rows |-> {}] /\ rows = {}
    /\ starts = 0 /\ fetched = FALSE

Signed(t) == IF t.side = "BUY" THEN 1 ELSE -1
Held == IF trades = <<>> THEN 0 ELSE Last(trades).held + Signed(Last(trades))
Closes(t) == IF t.side = "BUY" THEN t.held < 0 ELSE t.held > 0

\* Time passes and the account trades.
Passes ==
    /\ now < MaxTime /\ now' = now + 1
    /\ UNCHANGED <<trades, plugin, sending, handling, fetching, rows, starts, fetched>>

Trades(side) ==
    /\ Len(trades) < MaxTrades
    /\ trades' = Append(trades, [time |-> now, side |-> side, held |-> Held])
    /\ UNCHANGED <<now, plugin, sending, handling, fetching, rows, starts, fetched>>

-----------------------------------------------------------------------------
(* The plugin.                                                               *)

\* OnRun and ConnectAndIntroduceAsync: all trades of the last days.
PluginStarts ==
    /\ ~plugin /\ starts < MaxStarts /\ starts' = starts + 1
    /\ plugin' = TRUE /\ sending' = [i \in DOMAIN trades |-> i]
    /\ UNCHANGED <<now, trades, handling, fetching, rows, fetched>>

\* The socket closes; what was not sent is not sent again.
PluginStops ==
    /\ plugin /\ plugin' = FALSE /\ sending' = <<>>
    /\ UNCHANGED <<now, trades, handling, fetching, rows, starts, fetched>>

Dir(t) == IF t.side = "BUY" THEN "LONG" ELSE "SHORT"
QtRow(i) == LET t == trades[i]
            IN  [key |-> <<"qt", i>>, time |-> t.time, pnl |-> Closes(t),
                 income |-> IF Closes(t) THEN 1 ELSE 0, dir |-> Dir(t),
                 open |-> IF Closes(t) THEN 0 ELSE t.time, done |-> 0]

\* upsert_exchange_history, for rows of different keys: a row that exists keeps
\* its time and type, and what the reconciler wrote.
Upsert(table, new) ==
    {x \in table : \A r \in new : r.key # x.key} \cup {r \in new : \A x \in table : x.key # r.key}
      \cup {[p[1] EXCEPT !.income = p[2].income, !.dir = p[2].dir, !.open = p[2].open] :
               p \in {q \in table \X new : q[1].key = q[2].key}}

\* The row a closing fill is added to: any of its time and direction.
Mergeable(i) ==
    {r \in rows : Closes(trades[i]) /\ r.pnl /\ r.time = trades[i].time /\ r.dir = Dir(trades[i])}

\* (Mutant: a fill added to a row is inserted as well.)
MutStored(i, r) ==
    Upsert((rows \ {r}) \cup {[r EXCEPT !.income = @ + 1]}, {QtRow(i)})
Stored(i, r) == (rows \ {r}) \cup {[r EXCEPT !.income = @ + 1]}

\* _handle_historical_fill up to its first commit; the messages of a connection
\* are handled one by one.
HandlesFill ==
    /\ sending # <<>> /\ handling = {}
    /\ LET i == Head(sending)
       IN  /\ IF Mergeable(i) = {} THEN rows' = Upsert(rows, {QtRow(i)})
              ELSE \E r \in Mergeable(i) : rows' = Stored(i, r)
           /\ handling' = IF Closes(trades[i]) THEN {i} ELSE {}
    /\ sending' = Tail(sending)
    /\ UNCHANGED <<now, trades, plugin, fetching, starts, fetched>>

\* The nearest opening fill of the symbol before the close, or else the first;
\* none at the same time.
OpenOf(t) ==
    LET opens == {r.time : r \in {x \in rows : ~x.pnl}}
        before == {o \in opens : o <= t}
    IN  IF before # {} /\ Max(before) # t THEN Max(before)
        ELSE IF opens # {} /\ Min(opens) # t THEN Min(opens) ELSE 0

\* (Mutant: the opening time is written over one found before.)
MutResolvable(r, i) == r.key = <<"qt", i>> /\ OpenOf(trades[i].time) # 0
\* The row under the fill's own key, if it has no opening time.
Resolvable(r, i) == /\ r.key = <<"qt", i>> /\ r.open \in {0, trades[i].time}
                    /\ OpenOf(trades[i].time) # 0

ResolvesOpen(i) ==
    /\ i \in handling /\ handling' = {}
    /\ rows' = {IF Resolvable(r, i) THEN [r EXCEPT !.open = OpenOf(trades[i].time)] ELSE r
                : r \in rows}
    /\ UNCHANGED <<now, trades, plugin, sending, fetching, starts, fetched>>

-----------------------------------------------------------------------------
(* The exchange's own history.                                               *)

\* (Mutant: the exit's side is taken for the position's.)
MutRestDir(t) == Dir(t)
RestDir(t) == IF t.side = "SELL" THEN "LONG" ELSE "SHORT"

\* The head of the first-in-first-out queue of the fills on the opening side
\* when the trade of number i comes; closing fills of the other direction are
\* on that side too.
FifoOpen(i) ==
    LET Step(queue, t) == IF t.side # trades[i].side THEN Append(queue, t.time)
                          ELSE IF queue = <<>> THEN <<>> ELSE Tail(queue)
        queue == FoldLeft(Step, <<>>, SubSeq(trades, 1, i - 1))
    IN  IF queue = <<>> THEN 0 ELSE Head(queue)

\* Of several in one millisecond, the last one's row stays: they share a key.
RestRows ==
    LET closing == {i \in DOMAIN trades : Closes(trades[i])}
        last == {i \in closing : \A j \in closing : trades[j].time = trades[i].time => j <= i}
    IN  {[key |-> <<"rest", trades[i].time>>, time |-> trades[i].time, pnl |-> TRUE,
          income |-> 1, dir |-> RestDir(trades[i]), open |-> FifoOpen(i), done |-> 0] : i \in last}

\* Not while the plugin is connected.
FetchStarts ==
    /\ ~plugin /\ ~fetching.on
    /\ fetching' = [on |-> TRUE, rows |-> RestRows]
    /\ UNCHANGED <<now, trades, plugin, sending, handling, rows, starts, fetched>>

\* An answer lost with an error stores nothing.
FetchEnds ==
    /\ fetching.on /\ fetching' = [on |-> FALSE, rows |-> {}]
    /\ \/ rows' = Upsert(rows, fetching.rows)
          /\ fetched' = TRUE
       \/ UNCHANGED <<rows, fetched>>
    /\ UNCHANGED <<now, trades, plugin, sending, handling, starts>>

\* update_exchange_mfe_mae: a row with an opening time, from then to its close.
Reconciles(r) ==
    /\ r \in rows /\ r.open > 0 /\ r.done = 0
    /\ rows' = (rows \ {r}) \cup {[r EXCEPT !.done = r.open]}
    /\ UNCHANGED <<now, trades, plugin, sending, handling, fetching, starts, fetched>>

Next ==
    \/ Passes \/ PluginStarts \/ PluginStops \/ HandlesFill \/ FetchStarts \/ FetchEnds
    \/ \E side \in {"BUY", "SELL"} : Trades(side)
    \/ \E i \in handling : ResolvesOpen(i)
    \/ \E r \in rows : Reconciles(r)

Spec == Init /\ [][Next]_vars

-----------------------------------------------------------------------------
(* Properties.                                                               *)

Income(table) == MapThenSumSet(LAMBDA r : r.income, table)

\* The closing ones of the first n trades are each counted in one row, that of the
\* trade into[i], which has their time and direction; the rows hold nothing else.
CountedIn(n, into) ==
    LET closing == {i \in 1 .. n : Closes(trades[i])}
    IN  /\ \A i \in closing : \E r \in rows :
              r.key = <<"qt", into[i]>> /\ r.time = trades[i].time /\ r.dir = Dir(trades[i])
        /\ \A r \in rows : r.income = Cardinality({i \in closing : r.key = <<"qt", into[i]>>})

\* At the plugin's first start each closing fill, those of one millisecond that
\* share a row included, is counted once, in a row of its time and direction.
FirstStartExact ==
    starts = 1 /\ plugin /\ sending = <<>> /\ ~fetched =>
        \E n \in 0 .. Len(trades) : \E into \in [1 .. n -> 1 .. n] : CountedIn(n, into)

\* A trade is calculated over the life its row shows: an opening time found for
\* a row of the plugin is not replaced by a later start of the plugin.
LifeKept == \A r \in rows : r.key[1] = "qt" /\ r.done > 0 => r.open = r.done

\* The rows fetched from the exchange give the direction of the position.
RestDirTrue ==
    \A r \in rows : r.key[1] = "rest" =>
        \E i \in DOMAIN trades : /\ trades[i].time = r.time /\ Closes(trades[i])
                                 /\ (r.dir = "LONG") = (trades[i].held > 0)

\* No trade is taken to open after it closed.
OpenFirst == \A r \in rows : r.open <= r.time

\* platform_bridge.py calls the handling of a historical fill an "Idempotent
\* upsert": the plugin's rows never hold more income than its trades earned.
IncomeOnce ==
    ~fetched => Income(rows) <= Cardinality({i \in DOMAIN trades : Closes(trades[i])})
=============================================================================
