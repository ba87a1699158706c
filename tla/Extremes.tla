------------------------------ MODULE Extremes ------------------------------
(* The price extremes of a closed trade: fetch_price_extremes of the three   *)
(* adapters and calc_mfe_mae (core/exchange_market.py).  Prices are left     *)
(* out: what counts is which instants of the trade's life, start to end,     *)
(* the prices come from.                                                     *)
(*                                                                           *)
(* Durations are scaled: an instant stands for 20 s.  The one second added   *)
(* to both ends of a section of trades rounds to none.  A section that       *)
(* raises, or has no trades to offer, is a member of raise or empty.         *)
EXTENDS Integers, FiniteSets

Minute == 3
Hour == 4 * Minute          \* 60 minutes, scaled
HalfDay == 3 * Hour         \* 12 hours, scaled
MexcLimit == 500

\* "auto" precision: the trade's duration decides.
Tier(in) == LET d == in.end - in.start
            IN  IF d < 3 * Minute THEN 1 ELSE IF d <= HalfDay THEN 2 ELSE 3

\* (Mutant: the candles that end within the section, too.)
MutCandles(from, to, tf) ==
    IF from >= to THEN {}
    ELSE {t \in from - tf .. to + tf : LET open == t - (t % tf) IN from < open + tf /\ open <= to}
\* _ohlcv_hl: the candles that open within the section, paged until its end.
Candles(from, to, tf) ==
    IF from >= to THEN {}
    ELSE {t \in from .. to + tf : LET open == t - (t % tf) IN from <= open /\ open <= to}

\* _agg_extremes of Binance takes every trade of the section; _trade_extremes
\* of Bybit one page, which holds span instants.
Trades(in, exchange, from, to) ==
    IF exchange = "bybit" THEN {t \in from .. to : t < from + in.span} ELSE from .. to

Latest(a, b) == IF a > b THEN a ELSE b

\* (Mutant: the hour after the opening is read in hours.)
MutSections(in, exchange) ==
    LET s == in.start
        e == in.end
        x == Latest(e - Hour, s + Hour)
    IN  CASE Tier(in) = 1 -> [all |-> Trades(in, exchange, s, e)]
          [] Tier(in) = 2 -> [entry |-> Trades(in, exchange, s, s + Minute),
                              body  |-> Candles(s + Minute, e - Minute, Minute),
                              exit  |-> Trades(in, exchange, e - Minute, e)]
          [] OTHER        -> [entry  |-> Trades(in, exchange, s, s + Minute),
                              after  |-> Candles(s + Minute, s + Hour, Hour),
                              body   |-> Candles(s + Hour, x, Hour),
                              before |-> Candles(x, e - Minute, Minute),
                              exit   |-> Trades(in, exchange, e - Minute, e)]
\* The sections of a tier and the instants each covers.
Sections(in, exchange) ==
    LET s == in.start
        e == in.end
        x == Latest(e - Hour, s + Hour)
    IN  CASE Tier(in) = 1 -> [all |-> Trades(in, exchange, s, e)]
          [] Tier(in) = 2 -> [entry |-> Trades(in, exchange, s, s + Minute),
                              body  |-> Candles(s + Minute, e - Minute, Minute),
                              exit  |-> Trades(in, exchange, e - Minute, e)]
          [] OTHER        -> [entry  |-> Trades(in, exchange, s, s + Minute),
                              after  |-> Candles(s + Minute, s + Hour, Minute),
                              body   |-> Candles(s + Hour, x, Hour),
                              before |-> Candles(x, e - Minute, Minute),
                              exit   |-> Trades(in, exchange, e - Minute, e)]

\* (Mutant: a section that raised is left out like an empty one.)
MutCovered(in, exchange) ==
    LET sections == Sections(in, exchange)
        merged == UNION {sections[n] : n \in DOMAIN sections \ (in.empty \cup in.raise)}
    IN  IF merged = {} THEN Candles(in.start, in.end, Minute) ELSE merged
\* One section that raises, or nothing from all of them: the minutes alone.
\* The only section of tier 1 is not caught, and the trade gets no extremes.
Covered(in, exchange) ==
    LET sections == Sections(in, exchange)
        minutes == Candles(in.start, in.end, Minute)
        merged == UNION {sections[n] : n \in DOMAIN sections \ in.empty}
    IN  IF in.raise \cap DOMAIN sections # {} THEN IF Tier(in) = 1 THEN {} ELSE minutes
        ELSE IF merged = {} THEN minutes ELSE merged

BinanceCovered(in) == Covered(in, "binance")
BybitCovered(in) == Covered(in, "bybit")
\* MEXC: the first hours that open in the trade's life.
MexcCovered(in) ==
    {t \in Candles(in.start, in.end, Hour) : t < in.start + (MexcLimit + 1) * Hour}

\* (Mutant: the signs of a short trade are a long one's.)
MutMfeMae(high, low, entry, dir, qty) == <<(high - entry) * qty, (low - entry) * qty>>
\* calc_mfe_mae.
MfeMae(high, low, entry, dir, qty) ==
    IF dir = "LONG" THEN <<(high - entry) * qty, (low - entry) * qty>>
    ELSE <<(entry - low) * qty, (entry - high) * qty>>

-----------------------------------------------------------------------------
(* Properties of an input.                                                   *)

\* Where sections meet, the candle that is already open is in neither: that is
\* all an undisturbed read of a trade's life from Binance leaves out, less than
\* a minute after the first one and less than an hour after the first hour.
\* MEXC's leaves out less than the first hour.
HolesAreSmall(in) ==
    in.raise = {} /\ in.empty = {} =>
      /\ \A t \in in.start + Hour .. in.end : t \in MexcCovered(in)
      /\ \A t \in in.start .. in.end : t \notin BinanceCovered(in) =>
            \/ in.start + Minute < t /\ t < in.start + 2 * Minute
            \/ Tier(in) = 3 /\ in.start + Hour < t /\ t < in.start + 2 * Hour
            \/ Tier(in) = 3 /\ LET x == Latest(in.end - Hour, in.start + Hour)
                               IN  x < t /\ t < x + Minute

\* Whatever raises or has nothing to offer, an hour of the trade's middle never
\* goes missing without the trade being left uncalculated.
MiddleCovered(in) ==
    LET covered == BinanceCovered(in)
    IN  covered = {} \/ in.empty # {} \/
        \A t \in in.start + 2 * Hour .. in.end - Hour : t \in covered

\* No price of before the trade counts, and of after it at most those of the
\* candle it closed in.
InsideLife(in) ==
    \A covered \in {BinanceCovered(in), BybitCovered(in)} :
        /\ covered \subseteq in.start .. in.end + Minute - 1
        /\ in.raise = {} /\ in.empty = {} => covered \subseteq in.start .. in.end

\* When the prices of entry and exit are among those seen, the trade's gross
\* result lies between its MAE and its MFE.
ResultBetween(high, low, entry, exit, dir, qty) ==
    low <= entry /\ entry <= high /\ low <= exit /\ exit <= high =>
        LET m == MfeMae(high, low, entry, dir, qty)
            result == (IF dir = "LONG" THEN exit - entry ELSE entry - exit) * qty
        IN  m[2] <= result /\ result <= m[1] /\ m[2] <= 0 /\ 0 <= m[1]
=============================================================================
