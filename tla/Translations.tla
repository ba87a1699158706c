---------------------------- MODULE Translations ----------------------------
(* What the exchange adapters and the plugin make of raw answers: balances,  *)
(* positions, orders and fills (core/adapters/{binance,bybit,mexc}, the      *)
(* plugin's RiskEngineEventMapper.cs, core/position_snapshot.py).            *)
(*                                                                           *)
(* A raw position is its side and quantity in contracts; a raw order its     *)
(* type, flags and state; a raw fill its side, positionSide ("BOTH" in       *)
(* one-way mode), quantity, realized profit (-1, 0, 1) and the plugin's      *)
(* PositionImpactType.                                                       *)
EXTENDS Integers

Dirs == {"LONG", "SHORT"}
Closes(side, dir) == <<side, dir>> \in {<<"SELL", "LONG">>, <<"BUY", "SHORT">>}
-----------------------------------------------------------------------------
(* Balances.  A raw value may be missing; Raised stands for the exception    *)
(* that leaves the old balance in force.                                     *)

Absent == -1
Null == -2
Raised == -1
Missing == {Absent, Null}

Orr(value, other) == IF value \in Missing \/ value = 0 THEN other ELSE value

\* (Mutant: a missing balance counts as zero.)
MutBinanceEquity(r) == Orr(r.total, 0)
\* Binance: totalWalletBalance and availableBalance must be there and not null.
BinanceEquity(r) ==
    IF r.total \in Missing \/ r.free \in Missing THEN Raised ELSE r.total

\* MEXC: "total" and "free" of the USDT entry.
MexcEquity(r) == IF r.usdt \in Missing \/ r.free \in Missing THEN Raised ELSE r.usdt

\* Bybit: the total or the USDT entry must be there, null or not, and a USDT
\* value replaces the total.
BybitEquity(r) ==
    IF r.total = Absent /\ r.usdt = Absent THEN Raised
    ELSE IF r.free = Absent /\ r.coinFree = Absent THEN Raised
    ELSE Orr(r.usdt, Orr(r.total, 0))

-----------------------------------------------------------------------------
(* Positions.  A list gives sizes by direction.                              *)

\* fetch_positions of Binance from the signed amount.
BinancePositions(amounts) ==
    [d \in Dirs |-> LET m == {a \in amounts : (a > 0) = (d = "LONG") /\ a # 0}
                    IN  IF m = {} THEN 0 ELSE LET a == CHOOSE x \in m : TRUE
                                              IN  IF a > 0 THEN a ELSE -a]

\* (Mutant: contracts are taken for the base quantity.)
MutContracts(pos, size, loaded) == [d \in Dirs |-> pos[d] \div size]
\* fetch_positions of MEXC: contracts times the contract's size, which is 1 as
\* long as the markets are not loaded.
Contracts(pos, size, loaded) ==
    [d \in Dirs |-> (pos[d] \div size) * (IF loaded THEN size ELSE 1)]

-----------------------------------------------------------------------------
(* Orders.                                                                   *)

BinanceTypes ==
    [TAKE_PROFIT |-> "take_profit", TAKE_PROFIT_MARKET |-> "take_profit",
     STOP |-> "stop_loss", STOP_MARKET |-> "stop_loss", LIMIT |-> "limit",
     MARKET |-> "market", TRAILING_STOP_MARKET |-> "trailing_stop"]

BinanceStates ==
    [NEW |-> "new", PARTIALLY_FILLED |-> "partially_filled", FILLED |-> "filled",
     CANCELED |-> "canceled", EXPIRED |-> "expired", REJECTED |-> "rejected"]

AlgoStates ==
    [NEW |-> "new", TRIGGERING |-> "new", TRIGGERED |-> "partially_filled",
     FINISHED |-> "filled", CANCELED |-> "canceled", REJECTED |-> "rejected",
     EXPIRED |-> "expired"]

\* A stop that neither reduces nor closes a position is one that opens it.
Suffixed(type, exits) ==
    IF type = "stop_loss" /\ ~exits THEN "stop_loss_entry"
    ELSE IF type = "take_profit" /\ ~exits THEN "take_profit_entry" ELSE type

\* fetch_open_orders, fetch_order_history.
BinanceOrder(o) ==
    [type |-> Suffixed(BinanceTypes[o.type], o.reduce \/ o.closes),
     state |-> BinanceStates[o.state], reduce |-> o.reduce]

\* (Mutant: the stream's closePosition is not looked at.)
MutStreamOrder(o) ==
    [type |-> Suffixed(BinanceTypes[o.orig], o.reduce),
     state |-> BinanceStates[o.state], reduce |-> o.reduce]
\* parse_order_update: the original type, since a triggered stop is sent as a
\* market or limit order.
StreamOrder(o) ==
    [type |-> Suffixed(BinanceTypes[o.orig], o.reduce \/ o.closes),
     state |-> BinanceStates[o.state], reduce |-> o.reduce]

\* fetch_algo_open_orders, parse_algo_update.
AlgoOrder(o) ==
    [type |-> Suffixed(BinanceTypes[o.type], o.reduce \/ o.closes),
     state |-> AlgoStates[o.state], reduce |-> o.reduce]
StreamAlgo(o) ==
    [type |-> Suffixed(BinanceTypes[o.type], o.reduce \/ o.closes),
     state |-> AlgoStates[o.state], reduce |-> o.reduce]

\* Bybit's orders: the stop's kind decides before the type.
BybitType(o) ==
    Suffixed(CASE o.stop = "TakeProfit" -> "take_profit"
               [] o.stop \in {"StopLoss", "Stop"} -> "stop_loss"
               [] OTHER -> o.type,
             o.reduce)

\* (Mutant: a closed order counts as canceled.)
MutBybitRestState(s) ==
    CASE s \in {"New", "PartiallyFilled", "Untriggered"} -> "new"
      [] s \in {"Filled", "Cancelled"} -> "canceled"
      [] s = "Rejected" -> "rejected"
\* Over REST the client library has merged states first; both stand for those
\* of Bybit.
Unified == [New |-> "open", PartiallyFilled |-> "open", Filled |-> "closed",
            Cancelled |-> "canceled", Rejected |-> "rejected", Untriggered |-> "open"]
BybitRestState(s) ==
    LET map == [open |-> "new", closed |-> "filled", canceled |-> "canceled",
                rejected |-> "rejected", expired |-> "expired"]
    IN  map[Unified[s]]
BybitStreamState(s) ==
    LET map == [New |-> "new", PartiallyFilled |-> "partially_filled", Filled |-> "filled",
                Cancelled |-> "canceled", Rejected |-> "rejected", Untriggered |-> "new"]
    IN  map[s]

-----------------------------------------------------------------------------
(* Fills: the direction and whether the fill closes.                         *)

\* fetch_user_trades of Binance.
BinanceFill(f) ==
    [dir |-> f.pside,
     close |-> IF f.pside # "BOTH" THEN Closes(f.side, f.pside) ELSE f.pnl # 0]

\* _create_fill_from_ws.
StreamFill(f) == [dir |-> f.pside, close |-> f.pnl # 0]

\* fetch_user_trades of Bybit: positionIdx is the position side.
BybitFill(f) ==
    IF f.pside # "BOTH" THEN [dir |-> f.pside, close |-> Closes(f.side, f.pside)]
    ELSE [dir |-> IF f.side = "BUY" THEN "LONG" ELSE "SHORT", close |-> f.pnl # 0]

\* fetch_user_trades of MEXC leaves both out.
MexcFill(f) == [dir |-> "none", close |-> FALSE]

\* (Mutant: the direction is the trade's, also of a closing fill.)
MutPluginFill(f) ==
    [dir |-> IF f.side = "BUY" THEN "LONG" ELSE "SHORT", close |-> f.impact # "open"]
\* MapFill, _map_fill: the position's direction, by the impact.
PluginFill(f) ==
    LET close == f.impact \in {"close", "reverse"}
    IN  [dir |-> IF (f.side = "BUY") = close THEN "SHORT" ELSE "LONG", close |-> close]

\* compute_fill_snapshot in one-way mode, from the position held in the cache.
ReducesCached(f, cached) ==
    IF f.side = "SELL" THEN cached > 0 ELSE cached < 0

\* (Mutant: every fill of the plugin is judged by the cache.)
MutSnapshotted(f, t, cached) == [t EXCEPT !.close = ReducesCached(f, cached)]
\* _snapshot_and_fix_isclose: a fill with a direction counts as hedge mode,
\* where the adapter's value stays.
Snapshotted(f, t, cached) ==
    IF t.dir \in Dirs THEN t ELSE [t EXCEPT !.close = ReducesCached(f, cached)]

-----------------------------------------------------------------------------
(* Properties of an input.                                                   *)

\* A balance that is missing or null in the answer of Binance or MEXC never
\* becomes an equity of zero, which would stop trading as a total loss; nor does
\* Bybit's when one of its two sources has a value.
NoPhantomZero(r) ==
    /\ BinanceEquity(r) = 0 => r.total = 0
    /\ MexcEquity(r) = 0 => r.usdt = 0
    /\ BybitEquity(r) = 0 => {r.usdt, r.total} \subseteq Missing \cup {0}

\* Binance's stream gives an order, also one whose stop has been triggered and
\* which is sent on as a market or limit order, the type and purpose REST gave
\* it before, so that the open-order cache does not change its kind.
StreamAgrees(o) ==
    LET before == BinanceOrder([o EXCEPT !.type = o.orig])
        now == StreamOrder(o)
    IN  now = before /\ (now.type \in {"stop_loss", "take_profit"} => o.reduce \/ o.closes)

\* Over REST and over its stream Bybit's orders end in the same state, though
\* REST does not tell a partly filled order from a new one.
EndsAgree(o) ==
    LET ended == {"filled", "canceled", "rejected"}
        rest == BybitRestState(o.state)
        stream == BybitStreamState(o.state)
    IN  /\ rest \in ended \/ stream \in ended => rest = stream
        /\ BybitType(o) \in {"stop_loss", "take_profit"} => o.reduce

\* The position lists of both exchanges give base quantities by direction, of
\* MEXC, which counts contracts, once the markets are loaded.
BaseUnits(pos, size) ==
    /\ BinancePositions({pos["LONG"], -pos["SHORT"]}) = pos
    /\ Contracts(pos, size, TRUE) = pos
=============================================================================
