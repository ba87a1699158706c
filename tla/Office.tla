------------------------------- MODULE Office -------------------------------
(* What the engine keeps for itself: the files of the data directory, the    *)
(* calculations and the orders they plan, the fills it books, the history of *)
(* trades, and the back-tests.  The constants are those of their modules.    *)
(* They share no variable: the steps of one fall between those of the others.*)
EXTENDS Integers, Sequences, FiniteSets

CONSTANTS
    FileAccounts, Scripts, MaxVersion, MaxCrash,                \* DataDir
    Plans, Entries, Market, OrderSide, Price, Exits, Kind, Triggers, Positions,
    Executions, OrderOf, Tolerance, MaxPlans, MaxTasks, MaxUpdates,  \* Links
    MaxQty, MaxFills,                                           \* Ledger
    MaxTime, MaxMade, MaxStarts,                                \* History
    Symbols, Bars, Initial, RiskDen, Reward, Sizes, FeeDen, MaxCount,
    MaxExposure                                                 \* Backtest

\* The accounts are finitely many, and the scripts a sequence of kinds; a fill
\* is one of an entry or of an exit.
ASSUME FilesAssumption ==
    IsFiniteSet(FileAccounts) /\ Scripts \in Seq({"seed", "rebuild", "guarded", "column"})
ASSUME QtyAssumption == MaxQty \in Nat
ASSUME OrdersAssumption == OrderOf \in [Executions -> Entries \cup Exits]

\* Symbols are numbered, from 1; the stop of a position loses, with its fee, less
\* than all of the equity.
ASSUME TestAssumption ==
    /\ IsFiniteSet(Symbols) /\ Symbols # {} /\ Symbols = 1 .. Cardinality(Symbols)
    /\ Bars \in Nat /\ Initial \in Nat \ {0} /\ Reward \in Nat /\ Sizes \subseteq Nat
    /\ RiskDen \in Nat \ {0} /\ FeeDen \in Nat \ {0}
    /\ \A k \in Sizes : FeeDen + k < RiskDen * FeeDen

VARIABLES
    legacy, backup, there, copy, marker, tables, applied, log, thresholds,
    converted, pc, at, failed, clock, last, crashes,
    plans, aged, entries, exits, filled, tasks, updates,
    mode, pos, cached, ledger, lastFill, reversed, fills,
    now, made, brings, sending, handling, fetching, history, starts, fetched,
    stage, event, book, status, results

dir == <<legacy, backup, there, copy, marker, tables, applied, log, thresholds,
         converted, pc, at, failed, clock, last, crashes>>
links == <<plans, aged, entries, exits, filled, tasks, updates>>
sums == <<mode, pos, cached, ledger, lastFill, reversed, fills>>
past == <<now, made, brings, sending, handling, fetching, history, starts, fetched>>
test == <<stage, event, book, status, results>>
office == <<dir, links, sums, past, test>>

D == INSTANCE DataDir WITH Accounts <- FileAccounts
L == INSTANCE Links WITH Tick <- Tolerance
G == INSTANCE Ledger WITH last <- lastFill
H == INSTANCE History WITH MaxTrades <- MaxMade, rows <- history, trades <- made, plugin <- brings
T == INSTANCE Backtest WITH stored <- results

OfficeInit == D!Init /\ L!Init /\ G!Init /\ H!Init /\ T!Init

FilesMove == D!Next /\ UNCHANGED <<links, sums, past, test>>
LinksMove == L!Next /\ UNCHANGED <<dir, sums, past, test>>
SumsMove == G!Next /\ UNCHANGED <<dir, links, past, test>>
PastMoves == H!Next /\ UNCHANGED <<dir, links, sums, test>>
TestMoves == T!Next /\ UNCHANGED <<dir, links, sums, past>>

OfficeNext == FilesMove \/ LinksMove \/ SumsMove \/ PastMoves \/ TestMoves

OfficeSpec == OfficeInit /\ [][OfficeNext]_office

-----------------------------------------------------------------------------
(* Properties: those of the parts, one for what each of them is about.        *)

\* Files: whatever crashes, the newest rows of every item are in some file, with
\* the marker every item is in its split file, migrations succeed in their order
\* on each file, and thresholds set by the user are never replaced
\* (000_split_databases.py, runner.py, convert_thresholds.py, db_router.py).
FilesWhole == [](D!NothingLost /\ D!MarkerComplete /\ D!PrefixLogged) /\ D!UserKept

\* Links: a calculation is the plan of one order, whose fills follow it, for good
\* (order_enrichment.py, calc_correlation.py, order_manager.py, routes_admin.py).
LinksHold == [](L!OneOrderEach /\ L!FillsFollow) /\ L!LinksStay

\* Fills: the open and close flags of whatever sources stored them add up to the
\* position, and no opening fill is taken for a closing one (the adapters, the
\* plugin's event mapper, position_snapshot.py).
SourcesAgree == G!LedgerHolds /\ G!NoFalseClose

\* Trade history: at the plugin's first start each closing fill is counted once, in
\* a row of its time and direction; a calculated trade keeps its opening time, and
\* fetched rows have the position's direction (platform_bridge.py,
\* exchange_income.py, db_exchange.py).
HistoryTrue == H!FirstStartExact /\ H!LifeKept /\ H!RestDirTrue

\* Back-test: no trade is judged by the candle of its entry, one position at a
\* time never loses the whole equity, and a completed session has all its rows
\* (backtest_runner.py).
TestSound == T!NoLookAhead /\ T!Solvent /\ T!CompletedIsWhole
=============================================================================
