-------------------------------- MODULE Desk --------------------------------
(* What the engine keeps in step with the exchange besides orders and        *)
(* positions: the account's money, the registry of the accounts, the candles *)
(* and the alerts.  The money has its names from Balances; the others'       *)
(* constants are those of their modules.  They share no variable: the steps  *)
(* of one fall between those of the others.                                  *)
EXTENDS Balances

CONSTANTS
    Ids, MaxPar, MaxWork, MaxDeaths,          \* Accounts
    Jobs, Days, Page, MaxCandle, MaxTries,    \* BarStore
    Watched, Buffer, DbEvery, BackEvery       \* Monitor

\* The first account has the id 1; pages are of more than one candle; the buffer
\* has room for an alert of every kind.
ASSUME IdsAssumption == Ids \subseteq Nat \ {0} /\ 1 \in Ids
ASSUME PageAssumption == Days \subseteq Int /\ Page \in Nat /\ Page > 1
ASSUME BufferAssumption == Buffer \in Nat /\ Buffer >= 4

VARIABLES
    rows, setting, next, up, cache, active, live, clients, refused, refresh,
    work, switch, crossed, saved, deaths,
    candle, stored, job,
    bad, linked, cycle, ever, events

registry == <<rows, setting, next, up, cache, active, live, clients, refused,
              refresh, work, switch, crossed, saved, deaths>>
bars == <<candle, stored, job>>
alerts == <<bad, linked, cycle, ever, events>>
desk == <<vars, registry, bars, alerts>>

A == INSTANCE Accounts WITH MaxCrash <- MaxDeaths, crashes <- deaths
B == INSTANCE BarStore WITH MaxNow <- MaxCandle, now <- candle
M == INSTANCE Monitor

DeskInit == Init /\ A!Init /\ B!Init /\ M!Init

MoneyMoves == Next /\ UNCHANGED <<registry, bars, alerts>>
RegistryMoves == A!Next /\ UNCHANGED <<vars, bars, alerts>>
BarsMove == B!Next /\ UNCHANGED <<vars, registry, alerts>>
AlertsMove == M!Next /\ UNCHANGED <<vars, registry, bars>>

DeskNext == MoneyMoves \/ RegistryMoves \/ BarsMove \/ AlertsMove

DeskSpec == DeskInit /\ [][DeskNext]_desk

-----------------------------------------------------------------------------
(* Properties: those of the parts, one for what each of them is about; that  *)
(* of the money is MoneyTrue of Balances.                                    *)

\* Accounts: the cache holds what the file holds, a restart resumes with the
\* account active now, and the parameters in force are that account's, through
\* overlapping requests, failing switches and crashes (account_registry.py).
RegistryHolds == A!CacheIsStored /\ A!RestartResumes /\ A!LiveIsOwn

\* Candles: however pages, ranges, failures and other fetches fall, a fetch leaves
\* no hole in the candles it has passed (ohlcv_fetcher.py, db_ohlcv.py).
PagesWhole == B!RangeFetched

\* Alerts: over cycles, restarts and a ring buffer that forgets, a condition that
\* holds is shown and one that does not is not (monitoring.py).
AlertsFollow == M!AlertsFollow
=============================================================================
