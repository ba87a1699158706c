------------------------------- MODULE Shown -------------------------------
(* What is shown of a position and of a fill: the stops that protect it       *)
(* (core/order_manager.py, exchange.py) and whether it may still follow a     *)
(* calculation (core/exec_link.py, api/routes_calculator.py).                 *)
(*                                                                            *)
(* A position has a direction, an average and a mark price (0 unless known);  *)
(* an order a side, positionSide ("BOTH" in one-way mode), type, stop and     *)
(* whether it is open.  Times are in seconds; Unset is no override.           *)
EXTENDS Integers, FiniteSets

Unset == -1
-----------------------------------------------------------------------------
(* Stops.                                                                     *)

\* resolve_tpsl_direction: an exit sells a long position.
Direction(o) == IF o.pside # "BOTH" THEN o.pside ELSE IF o.side = "SELL" THEN "LONG" ELSE "SHORT"

StopsOf(pos, orders, type) ==
    {o.stop : o \in {x \in orders : x.open /\ x.type = type /\ Direction(x) = pos.dir}}

Far(price, mark) == IF price < mark THEN mark - price ELSE price - mark

\* (Mutant: closest to the average price.)
MutCached(pos, orders, type) ==
    LET stops == StopsOf(pos, orders, type)
    IN  {s \in stops : \A t \in stops : Far(s, pos.average) <= Far(t, pos.average)}
\* enrich_positions_tpsl: the stop closest to the mark price, or one of the two
\* that are; nothing while neither mark nor average is known.
Cached(pos, orders, type) ==
    LET mark == IF pos.mark # 0 THEN pos.mark ELSE pos.average
        stops == StopsOf(pos, orders, type)
    IN  IF mark = 0 THEN {} ELSE {s \in stops : \A t \in stops : Far(s, mark) <= Far(t, mark)}

\* fetch_open_orders_tpsl without a cache: the highest take-profit and the lowest
\* stop-loss, whatever the direction.
Fetched(pos, orders, type) ==
    LET stops == StopsOf(pos, orders, type)
    IN  {s \in stops : \A t \in stops : IF type = "take_profit" THEN t <= s ELSE s <= t}

\* While the price has reached none of a position's stops, the one shown is the
\* one it reaches first; and read from the exchange it is the same one, except for
\* a long position that has several.
ShownIsNext(pos, orders) ==
    \A type \in {"take_profit", "stop_loss"} :
        LET stops == StopsOf(pos, orders, type)
            above == (pos.dir = "LONG") = (type = "take_profit")
            shown == Cached(pos, orders, type)
        IN  (pos.mark # 0 /\ \A s \in stops : IF above THEN s > pos.mark ELSE s < pos.mark) =>
              /\ shown = {s \in stops : \A t \in stops : IF above THEN s <= t ELSE t <= s}
              /\ pos.dir = "SHORT" \/ (\A s, t \in stops : s = t) =>
                    shown = Fetched(pos, orders, type)
-----------------------------------------------------------------------------
(* The window in which a fill may follow a calculation.                       *)

Effective(w) == IF w.override # Unset THEN w.override ELSE w.account

\* compute_link_window_status: what the countdown of a calculation says, at a time
\* in milliseconds; confirmed when any fill of the calculation is.
Countdown(w, now) ==
    LET left == (w.made + 1000 * Effective(w) - now) \div 1000
    IN  IF w.confirmed THEN "LINKED_CONFIRMED"
        ELSE IF w.made = Unset \/ Effective(w) <= 0 \/ left <= 0 THEN "EXPIRED"
        ELSE IF left <= 300 THEN "EXPIRING_SOON" ELSE "LINKABLE"

\* (Mutant: the account's window counts, also with one of the calculation's own.)
MutRejected(w, time) == w.made # Unset /\ time - w.made > 1000 * w.account
\* compute_exec_match: a fill after the window is no match.
Rejected(w, time) == w.made # Unset /\ time - w.made > 1000 * Effective(w)

\* get_exec_link_status of a fill that has the calculation; a confirmed one stays.
LinkStatus(w, time, near, own) ==
    IF own THEN "linked"
    ELSE IF Rejected(w, time) \/ ~near THEN "unlinked" ELSE "linked"

\* The countdown never promises more than the match keeps: while it runs, a fill
\* at the calculation's price is linked.
CountdownKept(w, time) ==
    Countdown(w, time) \in {"LINKABLE", "EXPIRING_SOON"} => LinkStatus(w, time, TRUE, FALSE) = "linked"
=============================================================================
