------------------------------- MODULE Ledger -------------------------------
(* One symbol traded on an account in one-way or hedge mode, and the sums of *)
(* the fills as each source reports them: what the close rows are built from *)
(* (core/order_manager.py process_fill).                                     *)
EXTENDS Translations

CONSTANTS
    MaxQty,    \* bound on a position
    MaxFills   \* bound on the fills

Sources == {"plugin", "binance", "stream", "bybit", "mexc"}

VARIABLES
    mode,      \* the account's position mode
    pos,       \* per direction: the quantity held
    cached,    \* app_state.positions: the net quantity, seen some time ago
    ledger,    \* per source and direction: opening minus closing fills
    last,      \* the last fill as each source reported it, and the truth
    reversed,  \* a fill went through zero
    fills

vars == <<mode, pos, cached, ledger, last, reversed, fills>>

Net == pos["LONG"] - pos["SHORT"]
None == [dir |-> "none", close |-> FALSE]

TypeOK ==
    /\ mode \in {"one-way", "hedge"} /\ pos \in [Dirs -> 0 .. MaxQty]
    /\ cached \in -MaxQty .. MaxQty
    /\ ledger \in [Sources -> [Dirs -> Int]]
    /\ last \in [Sources \cup {"truth"} -> [dir : Dirs \cup {"BOTH", "none"}, close : BOOLEAN]]
    /\ reversed \in BOOLEAN /\ fills \in 0 .. MaxFills
    /\ mode = "one-way" => 0 \in {pos[d] : d \in Dirs}

Init ==
    /\ mode \in {"one-way", "hedge"}
    /\ pos = [d \in Dirs |-> 0] /\ cached = 0
    /\ ledger = [s \in Sources |-> pos]
    /\ last = [s \in Sources \cup {"truth"} |-> None]
    /\ reversed = FALSE /\ fills = 0

\* What a source reports of a raw fill; process_fill takes the plugin's.
Reported(s, f) ==
    CASE s = "plugin"  -> Snapshotted(f, PluginFill(f), cached)
      [] s = "binance" -> BinanceFill(f)
      [] s = "stream"  -> StreamFill(f)
      [] s = "bybit"   -> BybitFill(f)
      [] s = "mexc"    -> MexcFill(f)

Booked(sums, f, t) ==
    [d \in Dirs |-> sums[d] + (IF t.dir # d THEN 0 ELSE IF t.close THEN -f.qty ELSE f.qty)]

Report(f, dir) ==
    /\ fills < MaxFills /\ fills' = fills + 1
    /\ ledger' = [s \in Sources |-> Booked(ledger[s], f, Reported(s, f))]
    /\ last' = [s \in Sources \cup {"truth"} |->
                  IF s = "truth" THEN [dir |-> dir, close |-> f.impact # "open"]
                  ELSE Reported(s, f)]
    /\ UNCHANGED <<mode, cached>>

SideOf(d, opening) == IF (d = "LONG") = opening THEN "BUY" ELSE "SELL"
Idx(d) == IF mode = "hedge" THEN d ELSE "BOTH"
Other(d) == IF d = "LONG" THEN "SHORT" ELSE "LONG"

\* A fill opens or adds to a position; one-way mode has no second one.
Opens(d, q) ==
    /\ pos[d] + q <= MaxQty /\ (mode = "one-way" => pos[Other(d)] = 0)
    /\ pos' = [pos EXCEPT ![d] = @ + q]
    /\ Report([side |-> SideOf(d, TRUE), pside |-> Idx(d), qty |-> q, pnl |-> 0,
               impact |-> "open"], d)
    /\ UNCHANGED reversed

\* A fill reduces one, with a profit, a loss or neither.
Reduces(d, q, pnl) ==
    /\ q <= pos[d]
    /\ pos' = [pos EXCEPT ![d] = @ - q]
    /\ Report([side |-> SideOf(d, FALSE), pside |-> Idx(d), qty |-> q, pnl |-> pnl,
               impact |-> "close"], d)
    /\ UNCHANGED reversed

\* One-way mode: a fill closes the position and opens the opposite one.
Reverses(d, q, pnl) ==
    /\ mode = "one-way" /\ 0 < pos[d] /\ pos[d] < q /\ q - pos[d] <= MaxQty
    /\ pos' = [x \in Dirs |-> IF x = d THEN 0 ELSE q - pos[d]]
    /\ Report([side |-> SideOf(d, FALSE), pside |-> "BOTH", qty |-> q, pnl |-> pnl,
               impact |-> "reverse"], d)
    /\ reversed' = TRUE

\* The cache catches up, before or after the fill is handled.
Refreshes ==
    /\ cached # Net /\ cached' = Net
    /\ UNCHANGED <<mode, pos, ledger, last, reversed, fills>>

Next ==
    \/ \E d \in Dirs, q \in 1 .. MaxQty :
         \/ Opens(d, q)
         \/ \E pnl \in {-1, 0, 1} : Reduces(d, q, pnl) \/ Reverses(d, q, pnl)
    \/ Refreshes

Spec == Init /\ [][Next]_vars

-----------------------------------------------------------------------------
(* Properties.                                                               *)

\* The opening and closing fills of a direction, as the plugin reports them in
\* either mode and as the two REST adapters do in hedge mode, add up to the
\* position held, however stale the cache was when they were handled; a fill
\* that goes through zero ends this, it is booked as closing with its whole
\* quantity.
LedgerHolds ==
    ~reversed => \A s \in IF mode = "hedge" THEN {"plugin", "binance", "bybit"} ELSE {"plugin"} :
                    ledger[s] = pos

\* No source takes an opening fill for a closing one, which would start a close
\* row for a position that is open.
NoFalseClose == \A s \in Sources : last[s].close => last["truth"].close

\* protocols.py: the direction comes "from positionSide, not inferred from
\* side": what Bybit's adapter reports is the position's.
DirectionTrue == last["bybit"].dir = last["truth"].dir
=============================================================================
