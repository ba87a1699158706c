------------------------------ MODULE Streams ------------------------------
(* The life of the exchange's WebSocket streams (core/ws_manager.py) beside  *)
(* the REST loops that stand in for them (core/schedulers.py) and the        *)
(* account switch that tears them down (api/routes_accounts.py).             *)
(*                                                                           *)
(* A coroutine started with create_task lives in a slot; `tracked` says that *)
(* a module variable of ws_manager still refers to it, which is all stop()   *)
(* can cancel.  `mine` says that the WSStatus object a loop took at its      *)
(* start is the current one: a switch replaces it.  Delays are not counted:  *)
(* a sleep ends at some time.  Whether data is stale (is_stale) is a flag    *)
(* that a message or poll clears and the passing of time sets.               *)
EXTENDS Naturals, FiniteSets

CONSTANTS
    Accounts,      \* account ids, all on an exchange with listen keys
    First,         \* the account active at startup
    Symbols,       \* tickers that can be held
    Cap,           \* WS_RECONNECT_ATTEMPTS
    Slots,         \* room for coroutines
    Budgets        \* how often each disturbance may happen, one record a scenario

\* Lost connections and failed dials, normal closes by the peer, failing calls,
\* account switches, changes of the list, plugin connects and disconnects.
Disturbances == {"drops", "closes", "faults", "switches", "opens", "flips"}

ASSUME StreamsAssumption == First \in Accounts /\ Cap \in Nat /\ Budgets \subseteq [Disturbances -> Nat]

VARIABLES
    active,        \* account_registry.active_id
    stopping,      \* ws_manager._stopping
    user, market,  \* the coroutines of the two loops, by slot
    fallback,      \* _fallback_task runs
    using,         \* ws_status.using_fallback
    stale,         \* ws_status.is_stale
    limited,       \* ws_status.is_rate_limited
    refused,       \* app_state.auth_failed_accounts
    refresh,       \* where _account_refresh_loop is, and whose list it asked for
    inFlight,      \* _account_refresh_in_flight
    switch,        \* where activate_account is, and the account it left
    positions,     \* tickers in the cache's position list
    prev,          \* handle_positions_refreshed._prev_syms
    plugin,        \* platform_bridge.is_connected
    starts,        \* calls of start() so far (history)
    pushed,        \* tickers the user stream brought into the list (history)
    foreign,       \* ways in which another account's data was applied (history)
    budget         \* disturbances still to come

streams == <<active, stopping, user, market, fallback, using, stale, limited,
          refused, refresh, inFlight, switch, positions, prev, plugin,
          starts, pushed, foreign, budget>>

NoTask == [pc |-> "none", tracked |-> FALSE]

UserTasks ==
    [pc : {"start", "standby", "dial", "up", "backoff", "key"}, tracked : BOOLEAN,
     mine : BOOLEAN, account : Accounts, attempt : 0 .. Cap + 1, born : Nat]
MarketTasks ==
    [pc : {"start", "idle", "dial", "up", "backoff", "ended"}, tracked : BOOLEAN,
     mine : BOOLEAN, syms : SUBSET Symbols]

Spend(b) == budget[b] > 0 /\ budget' = [budget EXCEPT ![b] = @ - 1]

Live(tasks) == {s \in Slots : tasks[s].pc # "none"}

\* Slots are never short: StreamsTypeOK keeps one free.
FreeSlot(tasks) == CHOOSE s \in Slots : tasks[s].pc = "none"
Spawn(tasks, t) == [tasks EXCEPT ![FreeSlot(tasks)] = t]

StreamsTypeOK ==
    /\ active \in Accounts
    /\ {stopping, fallback, using, stale, limited, inFlight, plugin} \subseteq BOOLEAN
    /\ \A s \in Slots : user[s] \in UserTasks \cup {NoTask}
    /\ \A s \in Slots : market[s] \in MarketTasks \cup {NoTask}
    /\ Live(user) # Slots /\ Live(market) # Slots
    /\ refused \subseteq Accounts
    /\ refresh \in [pc : {"asleep", "calling"}, account : Accounts]
    /\ switch \in [pc : {"none", "down", "rollback"}, old : Accounts]
    /\ {positions, prev, pushed} \subseteq SUBSET Symbols
    /\ foreign \subseteq {"stream", "rest"}
    /\ starts \in Nat
    /\ budget \in [Disturbances -> Nat]

UserTask(a, n) == [pc |-> "start", tracked |-> TRUE, mine |-> FALSE,
                   account |-> a, attempt |-> 0, born |-> n]
MarketTask == [pc |-> "start", tracked |-> TRUE, mine |-> FALSE, syms |-> {}]

\* The startup fetch got a listen key and called start().
StreamsInit ==
    /\ active = First
    /\ stopping = FALSE
    /\ user = Spawn([s \in Slots |-> NoTask], UserTask(active, 1))
    /\ market = Spawn([s \in Slots |-> NoTask], MarketTask)
    /\ fallback = TRUE
    /\ using = FALSE
    /\ stale = TRUE
    /\ limited = FALSE
    /\ refused = {}
    /\ refresh = [pc |-> "asleep", account |-> active]
    /\ inFlight = FALSE
    /\ switch = [pc |-> "none", old |-> active]
    /\ positions = {}
    /\ prev = {}
    /\ pushed = {}
    /\ plugin = FALSE
    /\ starts = 1
    /\ foreign = {}
    /\ budget \in Budgets

-----------------------------------------------------------------------------
(* restart_market_streams, and who calls it when the list changes.           *)

Cancelled(tasks) == [s \in Slots |-> IF tasks[s].tracked THEN NoTask ELSE tasks[s]]

\* start() overwrites the module's references, so it loses what they named.
Forgotten(tasks) == [s \in Slots |-> [tasks[s] EXCEPT !.tracked = FALSE]]

\* (Mutant: the running streams are not cancelled.)
MutRestarted(tasks) == Spawn(Forgotten(tasks), MarketTask)

Restarted(tasks) == Spawn(Cancelled(tasks), MarketTask)

NewList(P) ==
    /\ positions' = P
    /\ IF P = positions THEN UNCHANGED budget ELSE Spend("opens")

\* The user stream changes the list: _apply_account_update.
PushedList(P) ==
    /\ NewList(P)
    /\ market' = IF P # positions THEN Restarted(market) ELSE market
    /\ pushed' = (pushed \cap P) \cup (P \ positions)
    /\ UNCHANGED prev

\* REST or the plugin replaces the list; the handler of positions_refreshed
\* compares it with the last list it saw, not with what the streams carry.
ListArrives(P) ==
    /\ NewList(P)
    /\ prev' = P
    /\ market' = IF P # prev THEN Restarted(market) ELSE market
    /\ pushed' = pushed \cap P

-----------------------------------------------------------------------------
(* The user-data loop.  It gives way to the plugin, dials, handles messages, *)
(* and after an error backs off, gets a new listen key and starts again as a *)
(* new coroutine that no variable refers to.                                 *)

UserOnly == UNCHANGED <<active, stopping, market, fallback, limited, refused,
                        refresh, inFlight, switch, positions, prev, plugin,
                        starts, pushed>>

UserBegins(s) ==
    /\ user[s].pc = "start"
    /\ user' = IF plugin THEN [user EXCEPT ![s].pc = "standby"]
               ELSE [user EXCEPT ![s].pc = "dial", ![s].mine = TRUE]
    /\ UserOnly /\ UNCHANGED <<using, stale, foreign, budget>>

StandbyEnds(s) ==
    /\ user[s].pc = "standby"
    /\ user' = IF stopping THEN [user EXCEPT ![s] = NoTask]
               ELSE [user EXCEPT ![s].pc = "start", ![s].attempt = 0,
                                 ![s].tracked = FALSE]
    /\ UserOnly /\ UNCHANGED <<using, stale, foreign, budget>>

UserUp(s) ==
    /\ user[s].pc = "dial"
    /\ user' = [user EXCEPT ![s].pc = "up"]
    /\ using' = (using /\ ~user[s].mine)
    /\ UserOnly /\ UNCHANGED <<stale, foreign, budget>>

\* _handle_user_event of anything but a change of the list.  Adapter, cache and
\* account id are those of the active account, whosever stream it is.
UserEvent(s) ==
    /\ user[s].pc = "up"
    /\ stale' = FALSE
    /\ foreign' = foreign \cup IF user[s].account = active THEN {} ELSE {"stream"}
    /\ UserOnly /\ UNCHANGED <<user, using, budget>>

PositionEvent(s, P) ==
    /\ user[s].pc = "up"
    /\ P # positions
    /\ PushedList(P)
    /\ stale' = FALSE
    /\ foreign' = foreign \cup IF user[s].account = active THEN {} ELSE {"stream"}
    /\ UNCHANGED <<active, stopping, user, fallback, using, limited, refused,
                   refresh, inFlight, switch, plugin, starts>>

\* _reconnect_user up to its sleep.
Retry(t) == IF stopping \/ t.attempt >= Cap THEN NoTask ELSE [t EXCEPT !.pc = "backoff"]

UserLost(s) ==
    /\ user[s].pc \in {"dial", "up"}
    /\ Spend("drops")
    /\ user' = [user EXCEPT ![s] = Retry(user[s])]
    /\ UserOnly /\ UNCHANGED <<using, stale, foreign>>

\* The peer closes normally: the message loop ends without an exception, and
\* nothing reconnects.
UserCloses(s) ==
    /\ user[s].pc = "up"
    /\ Spend("closes")
    /\ user' = [user EXCEPT ![s] = NoTask]
    /\ UserOnly /\ UNCHANGED <<using, stale, foreign>>

\* The sleep is over: a listen key is asked of the account active now.
BackoffEnds(s) ==
    /\ user[s].pc = "backoff"
    /\ user' = IF stopping THEN [user EXCEPT ![s] = NoTask]
               ELSE [user EXCEPT ![s].pc = "key", ![s].account = active]
    /\ UserOnly /\ UNCHANGED <<using, stale, foreign, budget>>

\* (Mutant: after a failed call the old attempt goes on beside the new one.)
MutKeyFails(s) ==
    /\ user[s].pc = "key"
    /\ Spend("faults")
    /\ user' = Spawn([user EXCEPT ![s].pc = "start", ![s].tracked = FALSE],
                     Retry(user[s]))
    /\ UserOnly /\ UNCHANGED <<using, stale, foreign>>

KeyFails(s) ==
    /\ user[s].pc = "key"
    /\ Spend("faults")
    /\ user' = [user EXCEPT ![s] = Retry([user[s] EXCEPT !.attempt = @ + 1])]
    /\ UserOnly /\ UNCHANGED <<using, stale, foreign>>

KeyArrives(s) ==
    /\ user[s].pc = "key"
    /\ user' = IF stopping THEN [user EXCEPT ![s] = NoTask]
               ELSE [user EXCEPT ![s].pc = "start", ![s].tracked = FALSE,
                                 ![s].attempt = @ + 1]
    /\ UserOnly /\ UNCHANGED <<using, stale, foreign, budget>>

-----------------------------------------------------------------------------
(* The market loop: the same without a gate, a key or a cap.                 *)

MarketOnly == UNCHANGED <<active, stopping, user, fallback, using, limited,
                          refused, refresh, inFlight, switch, positions, prev,
                          plugin, starts, pushed, foreign>>

MarketBegins(s) ==
    /\ market[s].pc = "start"
    /\ market' = [market EXCEPT ![s].pc = IF positions = {} THEN "idle" ELSE "dial",
                                ![s].mine = TRUE, ![s].syms = positions]
    /\ MarketOnly /\ UNCHANGED <<stale, budget>>

\* Nothing to subscribe to for ten seconds; stop() is not looked for here.
IdleEnds(s) ==
    /\ market[s].pc = "idle"
    /\ market' = [market EXCEPT ![s].pc = "start", ![s].tracked = FALSE]
    /\ MarketOnly /\ UNCHANGED <<stale, budget>>

MarketUp(s) ==
    /\ market[s].pc = "dial"
    /\ market' = [market EXCEPT ![s].pc = "up"]
    /\ MarketOnly /\ UNCHANGED <<stale, budget>>

MarketEvent(s) ==
    /\ market[s].pc = "up"
    /\ stale' = (stale /\ ~market[s].mine)
    /\ MarketOnly /\ UNCHANGED <<market, budget>>

\* (Mutant: an error ends the loop as a normal close does.)
MutMarketLost(s) ==
    /\ market[s].pc \in {"dial", "up"}
    /\ Spend("drops")
    /\ market' = [market EXCEPT ![s] = NoTask]
    /\ MarketOnly /\ UNCHANGED stale

MarketLost(s) ==
    /\ market[s].pc \in {"dial", "up"}
    /\ Spend("drops")
    /\ market' = [market EXCEPT ![s].pc = "backoff"]
    /\ MarketOnly /\ UNCHANGED stale

MarketCloses(s) ==
    /\ market[s].pc = "up"
    /\ Spend("closes")
    /\ market' = [market EXCEPT ![s].pc = "ended"]
    /\ MarketOnly /\ UNCHANGED stale

MarketWakes(s) ==
    /\ market[s].pc = "backoff"
    /\ market' = IF stopping THEN [market EXCEPT ![s] = NoTask]
                 ELSE [market EXCEPT ![s].pc = "start", ![s].tracked = FALSE]
    /\ MarketOnly /\ UNCHANGED <<stale, budget>>

-----------------------------------------------------------------------------
(* The REST loops.                                                           *)

RestOnly == UNCHANGED <<active, stopping, user, fallback, switch, plugin, starts>>
SameList == UNCHANGED <<positions, prev, market, pushed>>

\* _account_refresh_loop wakes, finds no call in flight, no pause and no refusal,
\* and asks for the account's data (for its orders only, beside the plugin).
RefreshStarts ==
    /\ refresh.pc = "asleep"
    /\ ~inFlight /\ ~limited /\ active \notin refused
    /\ refresh' = [pc |-> "calling", account |-> active]
    /\ inFlight' = TRUE
    /\ RestOnly /\ SameList /\ UNCHANGED <<using, stale, limited, refused, foreign, budget>>

RefreshDone ==
    /\ refresh.pc = "calling"
    /\ refresh' = [refresh EXCEPT !.pc = "asleep"]
    /\ inFlight' = FALSE

RefreshAnswered(P) ==
    /\ RefreshDone
    /\ IF plugin
       THEN P = positions /\ SameList /\ UNCHANGED <<stale, foreign, budget>>
       ELSE /\ ListArrives(P)
            /\ stale' = FALSE
            /\ foreign' = foreign \cup IF refresh.account = active THEN {} ELSE {"rest"}
    /\ RestOnly /\ UNCHANGED <<using, limited, refused>>

\* (Mutant: the flag is cleared after a success only, not in a finally.)
MutRefreshFails(why) ==
    /\ refresh.pc = "calling"
    /\ refresh' = [refresh EXCEPT !.pc = "asleep"]
    /\ Spend("faults")
    /\ limited' = (limited \/ why = "limited")
    /\ refused' = refused \cup IF why = "auth" THEN {active} ELSE {}
    /\ RestOnly /\ SameList /\ UNCHANGED <<using, stale, inFlight, foreign>>

\* The refusal is filed under the account active when it arrives.
RefreshFails(why) ==
    /\ RefreshDone
    /\ Spend("faults")
    /\ limited' = (limited \/ why = "limited")
    /\ refused' = refused \cup IF why = "auth" THEN {active} ELSE {}
    /\ RestOnly /\ SameList /\ UNCHANGED <<using, stale, foreign>>

\* Both WSStatus.is_rate_limited and auth_failed_accounts end by themselves or
\* by the operator (account_registry.update_account).
LimitEnds ==
    /\ limited
    /\ limited' = FALSE
    /\ RestOnly /\ SameList
    /\ UNCHANGED <<using, stale, refused, refresh, inFlight, foreign, budget>>

KeysUpdated(a) ==
    /\ a \in refused
    /\ refused' = refused \ {a}
    /\ RestOnly /\ SameList
    /\ UNCHANGED <<using, stale, limited, refresh, inFlight, foreign, budget>>

\* One round of _fallback_loop.  The branch that leaves the fallback is an elif
\* of the test that it is on, so only a new connection or stop() leaves it.
FallbackPolls(P) ==
    /\ fallback /\ (stale \/ using)
    /\ using' = TRUE
    /\ IF limited \/ plugin
       THEN P = positions /\ SameList /\ stale' = (stale /\ limited) /\ UNCHANGED budget
       ELSE /\ ListArrives(P)
            /\ stale' = FALSE
    /\ RestOnly /\ UNCHANGED <<limited, refused, refresh, inFlight, foreign>>

FallbackFails(why) ==
    /\ fallback /\ (stale \/ using) /\ ~limited /\ ~plugin
    /\ Spend("faults")
    /\ using' = TRUE
    /\ limited' = (why = "limited")
    /\ RestOnly /\ SameList /\ UNCHANGED <<stale, refused, refresh, inFlight, foreign>>

\* Thirty seconds without a message: not while mark prices arrive every second.
GoesStale ==
    /\ ~stale
    /\ \A s \in Slots : market[s].pc = "up" => ~market[s].mine
    /\ stale' = TRUE
    /\ RestOnly /\ SameList
    /\ UNCHANGED <<using, limited, refused, refresh, inFlight, foreign, budget>>

PluginFlips ==
    /\ Spend("flips")
    /\ plugin' = ~plugin
    /\ SameList
    /\ UNCHANGED <<active, stopping, user, fallback, using, stale, limited, refused,
                   refresh, inFlight, switch, starts, foreign>>

\* position_snapshot of the plugin.
PluginList(P) ==
    /\ plugin /\ P # positions
    /\ ListArrives(P)
    /\ RestOnly
    /\ UNCHANGED <<using, stale, limited, refused, refresh, inFlight, foreign>>

-----------------------------------------------------------------------------
(* activate_account.                                                         *)

\* reset_for_account_switch() and set_active(): the new WSStatus knows neither
\* of a pause nor of the loops still running.
Reset(a, users, markets) ==
    /\ active' = a
    /\ user' = [s \in Slots |-> IF users[s] = NoTask THEN NoTask
                                ELSE [users[s] EXCEPT !.mine = FALSE]]
    /\ market' = [s \in Slots |-> IF markets[s] = NoTask THEN NoTask
                                  ELSE [markets[s] EXCEPT !.mine = FALSE]]
    /\ stale' = TRUE
    /\ using' = FALSE
    /\ limited' = FALSE
    /\ positions' = {}
    /\ pushed' = {}
    /\ UNCHANGED <<refused, refresh, inFlight, prev, plugin, starts, foreign>>

\* stop() cancels what its variables name; what has no reference lives on.
SwitchStarts(a) ==
    /\ switch.pc = "none" /\ a # active
    /\ Spend("switches")
    /\ switch' = [pc |-> "down", old |-> active]
    /\ stopping' = TRUE
    /\ fallback' = FALSE
    /\ Reset(a, Cancelled(user), Cancelled(market))

\* _reinit fails: roll back once; if that fails too, nothing is started.
SwitchFails ==
    /\ Spend("faults")
    /\ \/ /\ switch.pc = "down"
          /\ switch' = [switch EXCEPT !.pc = "rollback"]
          /\ Reset(switch.old, user, market)
          /\ UNCHANGED <<stopping, fallback>>
       \/ /\ switch.pc = "rollback"
          /\ switch' = [switch EXCEPT !.pc = "none"]
          /\ UNCHANGED <<active, user, market, stopping, fallback, using, stale,
                         limited, positions, pushed, refused, refresh, inFlight,
                         prev, plugin, starts, foreign>>

\* The list _reinit loaded may restart the market streams before start() does.
SwitchLoads(P) ==
    /\ switch.pc # "none" /\ P # positions
    /\ ListArrives(P)
    /\ stale' = FALSE
    /\ UNCHANGED <<active, stopping, user, fallback, using, limited, refused,
                   refresh, inFlight, switch, plugin, starts, foreign>>

\* _reinit ends with create_listen_key and start().
SwitchEnds ==
    /\ switch.pc # "none"
    /\ switch' = [switch EXCEPT !.pc = "none"]
    /\ stopping' = FALSE
    /\ starts' = starts + 1
    /\ user' = Spawn(Forgotten(user), UserTask(active, starts + 1))
    /\ market' = Spawn(Forgotten(market), MarketTask)
    /\ fallback' = TRUE
    /\ UNCHANGED <<active, using, stale, limited, refused, refresh, inFlight,
                   positions, prev, plugin, pushed, foreign, budget>>

-----------------------------------------------------------------------------
UserNext == \E s \in Slots :
    \/ UserBegins(s) \/ StandbyEnds(s) \/ UserUp(s) \/ UserEvent(s)
    \/ \E P \in SUBSET Symbols : PositionEvent(s, P)
    \/ UserLost(s) \/ UserCloses(s) \/ BackoffEnds(s)
    \/ KeyFails(s) \/ KeyArrives(s)

MarketNext == \E s \in Slots :
    \/ MarketBegins(s) \/ IdleEnds(s) \/ MarketUp(s) \/ MarketEvent(s)
    \/ MarketLost(s) \/ MarketCloses(s) \/ MarketWakes(s)

RestNext ==
    \/ RefreshStarts
    \/ \E P \in SUBSET Symbols : RefreshAnswered(P) \/ FallbackPolls(P) \/ PluginList(P)
    \/ \E why \in {"error", "limited", "auth"} : RefreshFails(why)
    \/ \E why \in {"error", "limited"} : FallbackFails(why)
    \/ LimitEnds \/ GoesStale \/ PluginFlips
    \/ \E a \in Accounts : KeysUpdated(a)

SwitchNext ==
    \/ \E a \in Accounts : SwitchStarts(a)
    \/ \E P \in SUBSET Symbols : SwitchLoads(P)
    \/ SwitchFails \/ SwitchEnds

StreamsNext == UserNext \/ MarketNext \/ RestNext \/ SwitchNext

StreamsSpec == StreamsInit /\ [][StreamsNext]_streams

\* Sleeps end, dials and calls end one way or the other, pauses run out.  A
\* dial or a call need not succeed, but the budget bounds the failures.
LiveSpec ==
    /\ StreamsSpec
    /\ \A s \in Slots :
        /\ WF_streams(UserBegins(s) \/ StandbyEnds(s) \/ UserUp(s)
                   \/ BackoffEnds(s) \/ KeyArrives(s))
        /\ WF_streams(MarketBegins(s) \/ IdleEnds(s) \/ MarketUp(s) \/ MarketWakes(s))
    /\ SF_streams(RefreshStarts)
    /\ WF_streams(\E P \in SUBSET Symbols : RefreshAnswered(P))
    /\ WF_streams(LimitEnds)

-----------------------------------------------------------------------------
(* Properties.                                                               *)

\* One call of start() never has two user loops: whatever fails, the chain of
\* attempts in _user_data_loop and _reconnect_user does not fork.
OneChain ==
    \A s, t \in Live(user) : user[s].born = user[t].born => s = t

\* Account data keep coming over REST while the engine runs alone, however the
\* streams end (normal close, attempt cap, failed rollback): no failure leaves
\* _account_refresh_loop waiting for a call that is over.  The loop rests only
\* beside the plugin and for an account whose keys are refused.
KeepsRefreshing ==
    \/ <>[](plugin \/ active \in refused)
    \/ []<><<\E P \in SUBSET Symbols : RefreshAnswered(P)>>_streams

Covered(x) == \E s \in Slots : market[s].pc = "up" /\ x \in market[s].syms

PeerClosed == \E s \in Slots : market[s].pc = "ended"

\* A ticker the user stream brought into the list gets mark prices: the market
\* streams are restarted with it, through restarts and lost connections, unless
\* the peer closed a connection normally: that ends the loop for good.
PushedIsStreamed ==
    \A x \in Symbols : (x \in pushed) ~> (Covered(x) \/ x \notin pushed \/ stopping \/ PeerClosed)

\* The same for every ticker held.  The code breaks it: the handler compares a
\* list from REST with the last such list, so a ticker that the user stream
\* removed and REST brings back is not subscribed again.
HeldIsStreamed ==
    \A x \in Symbols : (x \in positions) ~> (Covered(x) \/ x \notin positions \/ stopping)

\* "Call before account switch to cleanly teardown streams": after a switch no
\* stream of another account feeds the engine.  The code breaks it: a loop that
\* reconnected once is a coroutine stop() does not know.
StreamOfActive == "stream" \notin foreign
=============================================================================
