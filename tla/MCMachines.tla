----------------------------- MODULE MCMachines -----------------------------
(* Desk and Office on small instances, and with them the rules that keep      *)
(* nothing (MCRules).  No two parts share a variable, so their interleavings  *)
(* show nothing that each alone does not: a behaviour runs one of them, the   *)
(* machine, and the others stay in an initial state.                          *)
(*                                                                            *)
(* The bounds of the account's money are in the .cfg: a wallet of two, a price *)
(* that may rise from one to four and fall back, and two of trades or        *)
(* transfers, midnights and restarts.  Requests on the registry, of two       *)
(* accounts, overlap in pairs.                                                *)
EXTENDS Desk, Office, MCRules

\* The four kinds of script in the order of their numbers.
MCScripts == <<"seed", "rebuild", "guarded", "column">>

\* Three kinds of alert.
MCWatched == {"plugin_disconnected", "reconciler_backlog", "db_unreachable"}

\* Calculations of one plan, for a limit order whose side is that of the
\* calculations, as in the tests, and a market order with the side exchanges give;
\* a take-profit and a stop whose triggers may be exchanged, and a fill of an
\* entry and of an exit.
MCPlans == {[side |-> "long", entry |-> 3, tp |-> 5, sl |-> 1]}
MCSide == [o \in {"limit", "market"} |-> IF o = "limit" THEN "long" ELSE "BUY"]
MCPrice == [o \in {"limit", "market"} |-> 3]
MCKind == [x \in {"above", "below"} |-> IF x = "above" THEN "tp" ELSE "sl"]
MCOrderOf == [f \in {1, 2} |-> IF f = 1 THEN "limit" ELSE "above"]
-----------------------------------------------------------------------------
VARIABLE machine   \* the part that runs

\* Requests on the registry overlap in pairs, or one and a switch; after a crash
\* one comes at a time (a bound).
Overlap == deaths' = 1 \/ switch'.pc # "idle" => Len(work') <= 1

\* The last of four trades comes to a history that the exchange's answers have
\* not reached (a bound): it takes four for an opening time to change.
Unfetched == Len(made') = MaxMade => ~fetching'.on /\ ~fetched'

\* Of trades, midnights and restarts two happen (a bound).
Twice == trades' + (day' - 1) + restarts' <= 2

\* Four updates with one calculation, or three with two (a bound).
Few == updates' + Len(plans') <= 5

MachinesInit ==
    /\ machine \in {"desk", "registry", "bars", "alerts", "dir", "links", "test",
                    "sums", "past", "rules"}
    /\ DeskInit /\ OfficeInit /\ RulesInit
    /\ machine # "desk" => plugin /\ \A p \in Prices : price <= p
    /\ machine # "registry" => next = 2 /\ \A a \in Ids : rows[a].key # "expired"
    /\ machine # "alerts" => linked
    /\ machine # "dir" => marker
    /\ machine # "sums" => mode = "hedge"

MachinesNext ==
    /\ UNCHANGED machine
    /\ \/ machine = "desk" /\ MoneyMoves /\ Twice /\ UNCHANGED <<office, rules>>
       \/ machine = "registry" /\ RegistryMoves /\ Overlap /\ UNCHANGED <<office, rules>>
       \/ machine = "bars" /\ BarsMove /\ UNCHANGED <<office, rules>>
       \/ machine = "alerts" /\ AlertsMove /\ UNCHANGED <<office, rules>>
       \/ machine = "dir" /\ FilesMove /\ UNCHANGED <<desk, rules>>
       \/ machine = "links" /\ LinksMove /\ Few /\ UNCHANGED <<desk, rules>>
       \/ machine = "sums" /\ SumsMove /\ UNCHANGED <<desk, rules>>
       \/ machine = "past" /\ PastMoves /\ Unfetched /\ UNCHANGED <<desk, rules>>
       \/ machine = "test" /\ TestMoves /\ UNCHANGED <<desk, rules>>
       \/ machine = "rules" /\ RulesNext /\ UNCHANGED <<desk, office>>

MachinesSpec == MachinesInit /\ [][MachinesNext]_<<machine, desk, office, rules>>
=============================================================================
