------------------------------ MODULE Balances ------------------------------
(* The account's money in core/data_cache.py: wallet balance, equity, the     *)
(* equity the day began with and the day's extremes, written by the           *)
(* exchange's REST answers, its user stream, the plugin, mark prices, the     *)
(* midnight reset (core/state.py), the start of day derived from the income   *)
(* (core/exchange_income.py) and a restart.                                   *)
(*                                                                            *)
(* Binance: its REST answer's equity is the wallet, without what the open     *)
(* position has gained.  The account holds at most one lot, bought long.      *)
(* Left out: the margin figures and the week's start, which follow the same   *)
(* writes, and the switch of the account, which clears all of it.  A poll     *)
(* asks for the positions right after the account and the same rule judges    *)
(* them (DataCache), so the lot comes with the money here.                    *)
EXTENDS Integers, Sequences, FiniteSets, Functions

CONSTANTS
    Wallets,     \* the wallet balances a behaviour may begin with
    Prices,
    Window,      \* _WS_PRIORITY_WINDOW_MS
    Latency,     \* an answer and a message take no longer than this
    MaxTrades, MaxDay, MaxAsked, MaxSent, MaxRestart   \* bounds

VARIABLES
    plugin,               \* it brings the account, instead of stream and polls
    day,
    wallet, lot, price,   \* at the exchange; the lot is its entry price, 0 for none
    today,                \* income since midnight
    trades,               \* trades and transfers so far
    sent,                 \* messages of the stream, or of the plugin, on their way
    asked,                \* REST requests under way, with what they will bring
    acc,                  \* app_state.account_state
    held,                 \* DataCache._positions: the lot
    ver,                  \* _account_version
    reading,              \* fetch_bod_sow_equity under way
    sound,                \* bod_equity was read from the wallet alone, all at one time
    restarts

vars == <<plugin, day, wallet, lot, price, today, trades, sent, asked, acc,
          held, ver, reading, sound, restarts>>
exchange == <<plugin, restarts, wallet, lot, price, today, trades>>

MaxOf(a, b) == IF a > b THEN a ELSE b
MinOf(a, b) == IF a < b THEN a ELSE b

\* What a lot has gained.
Gain(l, p) == IF l = 0 THEN 0 ELSE p - l
\* What the exchange would answer now.
Message(w, l) == [wallet |-> w, lot |-> l, gain |-> IF plugin THEN Gain(l, price) ELSE 0, age |-> 0]
Idle == [eq |-> 0, clean |-> FALSE]
NoMoney == [bal |-> 0, eq |-> 0, bod |-> 0, max |-> 0, min |-> 0]
Internal == [source |-> "internal", age |-> 0]

\* _do_recalculate_portfolio: the extremes of the day.
Recalculated(a) ==
    [a EXCEPT !.max = MaxOf(a.max, a.eq),
              !.min = IF a.min > 0 THEN MinOf(a.min, a.eq) ELSE a.eq]
\* ... and the day's result, which every write sets anew.
DailyPnl == acc.eq - (IF acc.bod > 0 THEN acc.bod ELSE acc.eq)

Init ==
    /\ plugin \in BOOLEAN /\ day = 1 /\ restarts = 0
    /\ wallet \in Wallets /\ lot = 0 /\ price \in Prices /\ today = 0 /\ trades = 0
    /\ sent = <<>> /\ asked = {} /\ acc = NoMoney /\ held = 0 /\ ver = Internal
    /\ reading = Idle /\ sound = FALSE

-----------------------------------------------------------------------------
(* The exchange.                                                             *)

\* A trade or a transfer: its income counts, and a message goes out.  A
\* reading of the day's start under way is then no longer of one time.
Books(w, l) ==
    /\ trades < MaxTrades /\ Len(sent) < MaxSent
    /\ trades' = trades + 1 /\ wallet' = w /\ lot' = l
    /\ today' = today + w - wallet
    /\ sent' = Append(sent, Message(w, l))
    /\ reading' = [reading EXCEPT !.clean = FALSE]
    /\ UNCHANGED <<plugin, restarts, day, price, asked, acc, held, ver, sound>>

\* (A lot that loses more than the wallet is liquidated.)
Buys == lot = 0 /\ Books(wallet, price)
Sells == lot # 0 /\ Books(MaxOf(0, wallet + Gain(lot, price)), 0)
Transfers == Books(wallet + 1, lot)

PriceMoves ==
    /\ price' \in Prices \ {price}
    /\ UNCHANGED <<plugin, restarts, day, wallet, lot, today, trades, sent, asked, acc, held, ver,
                   reading, sound>>

\* Time passes, and nothing takes longer than Latency.
Older(x, most) == [x EXCEPT !.age = MinOf(most, @ + 1)]

Tick ==
    /\ \A x \in asked \cup Range(sent) : x.age < Latency
    /\ asked' = {Older(x, Latency) : x \in asked}
    /\ sent' = [i \in DOMAIN sent |-> Older(sent[i], Latency)]
    /\ ver' = IF ver.source = "internal" THEN ver ELSE Older(ver, Window)
    /\ UNCHANGED <<exchange, day, acc, held, reading, sound>>

-----------------------------------------------------------------------------
(* What writes the account.                                                  *)

\* (Mutant: the window is not looked at.)
MutShouldAccept(source) == TRUE
\* _should_accept_account_update.
ShouldAccept(source) ==
    \/ ver.source \in {"internal", source} \/ source # "rest"
    \/ ver.age >= Window

\* fetch_account asks: the poll, the refresh after a fill and the start; with
\* the plugin, the start only.
Ask ==
    /\ Cardinality(asked) < MaxAsked /\ (plugin => ver = Internal)
    /\ asked' = asked \cup {Message(wallet, lot)}
    /\ UNCHANGED <<exchange, day, sent, acc, held, ver, reading, sound>>

\* apply_account_update_rest.  The first answer sets the start of day.
Answer(s) ==
    /\ asked' = asked \ {s}
    /\ IF ShouldAccept("rest")
       THEN LET a == [acc EXCEPT !.bal = s.wallet, !.eq = s.wallet]
                b == IF a.bod = 0 THEN [a EXCEPT !.bod = a.eq, !.max = a.eq, !.min = a.eq] ELSE a
            IN  /\ acc' = Recalculated(b)
                /\ held' = s.lot /\ ver' = [source |-> "rest", age |-> 0]
                /\ sound' = IF acc.bod = 0 THEN s.wallet = wallet /\ today = 0 ELSE sound
       ELSE UNCHANGED <<acc, held, ver, sound>>
    /\ UNCHANGED <<exchange, day, sent, reading>>

\* fetch_account raises.
AskFails(s) ==
    /\ asked' = asked \ {s}
    /\ UNCHANGED <<exchange, day, sent, acc, held, ver, reading, sound>>

\* apply_position_update_incremental with an ACCOUNT_UPDATE: the balance, not the
\* equity; its version is of the event's time.
Streamed(e) ==
    /\ acc' = Recalculated([acc EXCEPT !.bal = e.wallet])
    /\ ver' = [source |-> "stream", age |-> e.age]

\* (Mutant: what the plugin brought is not looked at by the extremes.)
MutPushed(e) ==
    /\ acc' = [acc EXCEPT !.bal = e.wallet, !.eq = e.wallet + e.gain]
    /\ ver' = [source |-> "platform", age |-> 0]
\* apply_account_update_platform: all of it, by the broker's figures.
Pushed(e) ==
    /\ acc' = Recalculated([acc EXCEPT !.bal = e.wallet, !.eq = e.wallet + e.gain])
    /\ ver' = [source |-> "platform", age |-> 0]

Deliver ==
    /\ sent # <<>> /\ sent' = Tail(sent)
    /\ IF plugin THEN Pushed(Head(sent)) ELSE Streamed(Head(sent))
    /\ held' = Head(sent).lot
    /\ UNCHANGED <<exchange, day, asked, reading, sound>>

\* (Mutant: the gain is added to the equity shown.)
MutMarked(a, g) == [a EXCEPT !.eq = IF a.bal > 0 THEN MaxOf(0, a.eq + g) ELSE a.eq]
\* What apply_mark_price makes of the account: an equity below zero shows as zero.
Marked(a, g) == [a EXCEPT !.eq = IF a.bal > 0 THEN MaxOf(0, a.bal + g) ELSE a.eq]

\* apply_mark_price with the price of now.
Mark ==
    /\ acc' = Recalculated(Marked(acc, Gain(held, price)))
    /\ UNCHANGED <<exchange, day, sent, asked, held, ver, reading, sound>>

-----------------------------------------------------------------------------
(* The start of day, and restarts.                                           *)

\* perform_bod_reset.
Reset(a) == [a EXCEPT !.bod = a.eq, !.max = a.eq, !.min = a.eq]

\* _bod_scheduler wakes (five seconds after midnight, which is taken for midnight).
Midnight ==
    /\ day < MaxDay /\ day' = day + 1
    /\ today' = 0
    /\ acc' = Reset(acc)
    /\ sound' = (acc.eq = wallet)
    /\ reading' = [reading EXCEPT !.clean = FALSE]
    /\ UNCHANGED <<plugin, restarts, wallet, lot, price, trades, sent, asked, held, ver>>

\* fetch_bod_sow_equity reads the equity and asks for the income of the day and
\* of the week (one request here); with the plugin, at the start only (here: on
\* the first day).
BodStarts ==
    /\ reading = Idle /\ acc.eq # 0 /\ (plugin => day = 1)
    /\ reading' = [eq |-> acc.eq, clean |-> acc.eq = wallet]
    /\ UNCHANGED <<exchange, day, sent, asked, acc, held, ver, sound>>

\* (Mutant: the equity read at the start, without the income.)
MutBod == reading.eq
\* The equity at midnight, by the income since.
Bod == reading.eq - today

\* apply_bod_sow_equity.
BodApplies ==
    /\ reading # Idle /\ reading' = Idle
    /\ acc' = Recalculated([acc EXCEPT !.bod = Bod]) /\ sound' = reading.clean
    /\ UNCHANGED <<exchange, day, sent, asked, held, ver>>

\* The request fails, and the start of day stays.
BodFails ==
    /\ reading # Idle /\ reading' = Idle
    /\ UNCHANGED <<exchange, day, sent, asked, acc, held, ver, sound>>

\* main.py: restore_from_snapshot; messages of the time between are lost.  (The
\* last row of account_snapshots, seconds old, is taken for the account as it was.)
Restart ==
    /\ restarts < MaxRestart /\ restarts' = restarts + 1
    /\ UNCHANGED acc /\ held' = 0 /\ ver' = Internal
    /\ sent' = <<>> /\ asked' = {} /\ reading' = Idle /\ sound' = FALSE
    /\ UNCHANGED <<plugin, wallet, lot, price, today, trades, day>>

Next ==
    \/ Buys \/ Sells \/ Transfers \/ PriceMoves \/ Tick
    \/ Ask \/ Deliver \/ Mark \/ Midnight \/ BodStarts \/ BodApplies \/ BodFails \/ Restart
    \/ \E s \in asked : Answer(s) \/ AskFails(s)

Spec == Init /\ [][Next]_vars

-----------------------------------------------------------------------------
(* Properties.                                                               *)

\* The engine has the exchange's figures, and nothing newer is on its way.
Settled == ver # Internal /\ sent = <<>> /\ asked = {}

\* With nothing on its way, the balance and the lot are the exchange's,
\* whichever of polls, refreshes after a fill, stream and plugin came last.
BalanceSettles == Settled => acc.bal = wallet /\ held = lot

\* A mark price leaves the equity at the wallet and the lot's gain, and never
\* below zero: whatever equity a poll, a reset or a restart left there.
EquityWhole ==
    [][Mark /\ Settled /\ wallet > 0 => acc'.eq = MaxOf(0, wallet + Gain(lot, price))]_vars

\* Once the exchange's figures came, the day's extremes enclose the equity,
\* through every kind of write, resets and restarts.
Within == ver # Internal => acc.min <= acc.eq /\ acc.eq <= acc.max

\* Without an open lot the day's result is the day's income, when the start of
\* day was read from the wallet alone: by the first answer, the reset or the
\* income, in whatever order they wrote it.  (A day that begins with nothing
\* counts no result.)
DayFromIncome == sound /\ acc.bod > 0 /\ acc.eq = wallet => DailyPnl = today

\* All of it: the balance, the extremes and the day's result are true in every
\* state, and every mark price makes the equity whole.
MoneyTrue == [](BalanceSettles /\ Within /\ DayFromIncome) /\ EquityWhole

\* DayFromIncome with no such condition, which a lot open while the start of day is read,
\* or a trade or midnight between its two readings, breaks.
DayAlways == Settled /\ lot = 0 /\ acc.eq = wallet => DailyPnl = today

TypeOK ==
    /\ day \in 1 .. MaxDay /\ trades \in 0 .. MaxTrades
    /\ wallet \in Nat /\ acc.eq \in Int /\ acc.bal \in Nat
    /\ {lot, held} \subseteq Prices \cup {0} /\ Cardinality(asked) <= MaxAsked
    /\ ver.source \in {"internal", "rest", "stream", "platform"}
=============================================================================
