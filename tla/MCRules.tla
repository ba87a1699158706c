------------------------------ MODULE MCRules ------------------------------
(* The rules that keep no state, each over a small set of inputs: a          *)
(* behaviour picks a rule and an input, and drops it again.                  *)
EXTENDS Sizing, FiniteSets

Sources == INSTANCE Translations
Life == INSTANCE Extremes
Curve == INSTANCE Equity
Mood == INSTANCE Regime
Screen == INSTANCE Shown

VARIABLES rule, in
rules == <<rule, in>>

-----------------------------------------------------------------------------
(* Inputs.                                                                   *)

Level(p, q) == [price |-> p, qty |-> q]
OrderBooks == {<<>>, <<Level(10, 1), Level(12, 2)>>, <<Level(10, 1), Level(0, 3), Level(11, 1), Level(15, 5)>>,
          <<Level(10, 3), Level(50, 9)>>, <<Level(10, 2), Level(9, 1), Level(7, 3)>>}
Contract(lot, qty, notional) == [lot |-> lot, minQty |-> qty, minNotional |-> notional]

Contracts == {Contract(l, q, n) : l \in {Over(1, 10), Over(1, 4)}, q \in {Whole(0), Over(1, 2)},
                                  n \in {Whole(0), Whole(5), Whole(12)}}

\* Sizes: stops on both sides, thin and broken books, lots of different grain.
Sized ==
  [ready : {TRUE}, capable : {TRUE}, atr14 : {10}, atr100 : {1, 5, 12}, risk : {1, 2, 4},
   equity : {100}, avg : {10}, sl : {8, 9, 13}, levels : OrderBooks, mult : {Over(2, 5), Over(6, 5)},
   spec : Contracts, known : {TRUE}, count : {0}, maxCount : {1}, notional : {0},
   maxExposure : {Over(1, 4)}, sector : {0, -15}, maxSector : {Over(1, 5)}]
\* The gates in front of a size and around it.
GatedSizes ==
  [ready : BOOLEAN, capable : BOOLEAN, atr14 : {0, 10}, atr100 : {5}, risk : {2},
   equity : {100}, avg : {0, 10}, sl : {0, 9, 10}, levels : OrderBooks, mult : {Whole(1)},
   spec : {Contract(Whole(0), Whole(0), Whole(0))}, known : BOOLEAN, count : {0, 1}, maxCount : {1},
   notional : {0, 300}, maxExposure : {Whole(3)}, sector : {10}, maxSector : {Over(1, 5)}]

Raw == {Sources!Absent, Sources!Null, 0, 5}
Answers == [total : Raw, free : Raw, usdt : Raw, coinFree : {Sources!Absent, 5}]

Orders == {o \in [type : DOMAIN Sources!BinanceTypes, orig : DOMAIN Sources!BinanceTypes,
                  state : DOMAIN Sources!BinanceStates, reduce : BOOLEAN, closes : BOOLEAN] :
             o.type = o.orig \/ o.type \in {"MARKET", "LIMIT"}}

BybitOrders == [state : DOMAIN Sources!Unified, type : {"market", "limit"}, reduce : BOOLEAN,
                stop : {"", "TakeProfit", "StopLoss", "Stop"}]

Holdings == [long : {0, 2, 6}, short : {0, 2, 4}, size : {1, 2}]

\* Trades from under a minute to more than half a (scaled) day, and the sections
\* of their life whose request raises, or finds nothing.
Lengths == (1 .. 14) \cup {24, 25, 35, 36, 37, 40, 51}
Raising == {{}, {"all"}, {"entry"}, {"body"}}
Blanks == {{}, {"all"}, {"exit"}, {"entry", "body", "exit"}}
Lived(s, d, r, m) == [start |-> s, end |-> s + d, raise |-> r, empty |-> m, span |-> 4]
Lives == {Lived(s, d, r, m) : s \in 36 .. 47, d \in Lengths, r \in Raising, m \in Blanks}
Results ==
  [high : {4, 6}, low : {2, 4}, entry : 2 .. 6, exit : 2 .. 6, dir : {"LONG", "SHORT"},
   qty : {1, 3}]

Ev(t, y, a) == [time |-> t, type |-> y, amount |-> a]
Histories ==
  {<<>>, <<Ev(3, "pnl", 5)>>, <<Ev(3, "pnl", -2), Ev(4, "transfer", 20), Ev(19, "pnl", 1)>>,
   <<Ev(2, "transfer", 9), Ev(9, "other", -1), Ev(10, "pnl", 4), Ev(30, "pnl", -3)>>,
   <<Ev(1, "pnl", 1), Ev(2, "pnl", -4), Ev(3, "pnl", 2), Ev(12, "pnl", 1), Ev(13, "pnl", 1)>>,
   <<Ev(5, "pnl", 1), Ev(5, "pnl", 2), Ev(8, "pnl", -1)>>,
   <<Ev(1, "pnl", -100), Ev(7, "pnl", 300), Ev(18, "pnl", -1), Ev(23, "pnl", -1)>>}
Backfills ==
  [equity : {0, 1, 50}, events : Histories, start : {0, 2, 4}, end : {13, 30, 31},
   limit : 1 .. 4]

Signals ==
  [vix : {Mood!Absent, 150, 200, 210, 220, 250, 260, 300, 310}, hy : {Mood!Absent, 30, 35, 40, 45, 46, 51},
   rvol : {Mood!Absent, 10, 12, 13, 14}, oi : {Mood!Absent, -1, 1}, funding : {Mood!Absent, -2, -1, 0, 1}]
DaySets == {Curve!Kept(<<1, 3, 20, 35, 40>>, D) : D \in SUBSET {1, 3, 20, 35, 40}}
Stores == [days : [vix : DaySets, hy : DaySets, rvol : {<<>>, <<3, 35>>}, oi : {<<>>}, funding : {<<>>}],
           value : {[vix |-> [d \in 1..40 |-> 150 + 8 * (d % 20)],
                     hy |-> [d \in 1..40 |-> 30 + (d % 17)], rvol |-> [d \in 1..40 |-> 10 + (d % 4)]]},
           today : {0, 3, 30, 36, 42, 48}]
Ranges == [days : 0..65]
Rates == [times : {[i \in 1..n |-> 8 * (i - 1)] : n \in 0..12}, until : {20, 30, 64, 90}, limit : 2..5]

\* Two exits of a position on either side of a mark of ten, in both modes.
Exit == {o \in [side : {"BUY", "SELL"}, pside : {"BOTH", "LONG", "SHORT"}, open : BOOLEAN,
                type : {"take_profit", "stop_loss"}, stop : {7, 9, 12, 14}] :
           o.pside = "BOTH" \/ (o.side = "SELL") = (o.pside = "LONG")}
Protected == [dir : {"LONG", "SHORT"}, mark : {0, 10}, average : {0, 11},
              orders : {{o, x} : o, x \in Exit}]
Windows == [made : {-1, 0, 500}, account : {0, 300, 400}, override : {-1, 0, 310}, confirmed : BOOLEAN,
            time : {0, 400, 500, 9500, 10000, 300000, 309001, 309500, 310000, 310500, 311000, 400400}]

-----------------------------------------------------------------------------

RulesInit == rule = "none" /\ in = <<>>

Pick(name, inputs) == rule = "none" /\ rule' = name /\ in' \in inputs

RulesNext ==
    \/ Pick("size", Sized) \/ Pick("size", GatedSizes)
    \/ Pick("balance", Answers) \/ Pick("order", Orders) \/ Pick("bybit", BybitOrders)
    \/ Pick("position", Holdings)
    \/ Pick("life", Lives) \/ Pick("result", Results) \/ Pick("backfill", Backfills)
    \/ Pick("signals", Signals) \/ Pick("store", Stores) \/ Pick("range", Ranges) \/ Pick("rates", Rates)
    \/ Pick("exits", Protected) \/ Pick("window", Windows)
    \/ rule # "none" /\ rule' = "none" /\ in' = <<>>

RulesSpec == RulesInit /\ [][RulesNext]_rules

-----------------------------------------------------------------------------
(* Properties: those of the modules, on the inputs they are about.           *)

\* What the stop loses on the size shown is within the risk, the suggested size is
\* one the exchange takes, a larger order is not filled at a better price, and the
\* sector stays within its limit on either side (risk_engine.py,
\* contract_validation.py, estimate_vwap_fill, check_correlated_limit).
SizesHold ==
    rule = "size" => RiskBounded(in) /\ SuggestionTaken(in) /\ WorseFills(in) /\ SectorHeld(in)
\* risk_engine.py: an eligible size is validated for its contract.
EligibleIsValid == rule = "size" => TakenIfEligible(in)
\* Binance and MEXC: a balance the answer lacks never becomes an equity of zero.
NoPhantomZero == rule = "balance" => Sources!NoPhantomZero(in)
\* Binance: stream and REST give one order the same type, state and purpose.
StreamAgrees == rule = "order" => Sources!StreamAgrees(in)
\* Bybit: stream and REST agree on how an order ended.
EndsAgree == rule = "bybit" => Sources!EndsAgree(in)
\* Binance and MEXC: sizes of positions are in base units by direction.
BaseUnits == rule = "position" => Sources!BaseUnits([LONG |-> in.long, SHORT |-> in.short], in.size)
\* Binance: what the sections of a trade's life leave out is less than a candle.
HolesAreSmall == rule = "life" => Life!HolesAreSmall(in)
\* A section that raises never leaves the trade's middle out unnoticed.
MiddleCovered == rule = "life" => Life!MiddleCovered(in)
\* Prices of before and after the trade do not count.
InsideLife == rule = "life" => Life!InsideLife(in)
\* A trade's result lies between its MAE and its MFE.
ResultBetween ==
    rule = "result" => Life!ResultBetween(in.high, in.low, in.entry, in.exit, in.dir, in.qty)
\* Paging gets every income event of the range once.
PagesComplete == rule = "backfill" => Curve!PagesComplete(in)
\* Equities rebuilt backwards are those the account had.
EquityBefore == rule = "backfill" => Curve!EquityBefore(in)
\* Transfers do not bend the rebuilt curve.
StepsAreResults == rule = "backfill" => Curve!StepsAreResults(in)
\* The rebuilt curve is in order and without long gaps.
NoLongSilence == rule = "backfill" => Curve!NoLongSilence(in)
\* regime_classifier.py: worse signals never make a trade larger.
NeverBolder == rule = "signals" => Mood!NeverBolder(in)
\* compute_current_regime: labels and signals tell the same.
WaysAgree == rule = "store" => Mood!WaysAgree(in)
\* _lookup_nearest: the last value known on the date.
NeverFromTheFuture == rule = "store" => Mood!NeverFromTheFuture(in)
\* fetch_binance_oi: each day is added up once.
DaysOnce == rule = "range" => Mood!DaysOnce(in.days)
\* fetch_binance_funding: each rate is averaged once.
RatesOnce == rule = "rates" => Mood!RatesOnce(in)
\* enrich_positions_tpsl: the stop shown is the next one.
ShownIsNext == rule = "exits" => Screen!ShownIsNext(in, in.orders)
\* exec_link.py: the countdown promises no more than the match keeps.
CountdownKept == rule = "window" => Screen!CountdownKept(in, in.time)

\* What the user is shown before and during a trade: what the stop loses on the
\* size shown is within the risk, the size the contract check suggests is one the
\* exchange takes, a larger order is not filled at a better price, the sector
\* stays within its limit on either side, the countdown of a calculation's window
\* promises no more than the match keeps, a position's stop is the next one, an
\* answer without a balance is no equity of zero, stream and REST agree on an
\* order's kind and end, and positions are in base units (risk_engine.py,
\* contract_validation.py, exec_link.py, order_manager.py, the adapters).
ShownTrue ==
    /\ SizesHold /\ CountdownKept /\ ShownIsNext
    /\ NoPhantomZero /\ StreamAgrees /\ EndsAgree /\ BaseUnits

\* What is rebuilt afterwards: MFE and MAE come from the trade's life only, leave
\* out less than a candle of it and its middle never unnoticed, and enclose its
\* result; the equity curve comes from every income event once, has the equities
\* the account had, is not bent by transfers and has no long gaps; worse signals
\* never make a trade larger, a signal's value on a date is the last one known
\* then, stored labels and signals give the same regime, and each day's open
\* interest and each funding rate counts once (exchange_market.py, the equity
\* back-fill, regime_classifier.py, regime_fetcher.py).
RebuiltTrue ==
    /\ HolesAreSmall /\ MiddleCovered /\ InsideLife /\ ResultBetween
    /\ PagesComplete /\ EquityBefore /\ StepsAreResults /\ NoLongSilence
    /\ NeverBolder /\ NeverFromTheFuture /\ WaysAgree /\ DaysOnce /\ RatesOnce
=============================================================================
