------------------------------ MODULE Accounts ------------------------------
(* The registry of exchange accounts: its rows (core/db_settings.py), its    *)
(* cache in memory (core/account_registry.py), the clients made from the     *)
(* cached keys (core/exchange_factory.py), the parameters in force           *)
(* (core/state.py) and the requests that change them (api/routes_accounts.py *)
(* and api/routes_params.py): add, delete, save a key, save parameters and   *)
(* activate, which tears the engine down and sets it up for another account. *)
(*                                                                           *)
(* A request that writes the database and then the cache is cut in between;  *)
(* the connection's one worker thread keeps two writes of the same kind in   *)
(* order.  The engine may die at any point and starts again from the rows.   *)
(* Key and secret are one value: "valid" at the exchange, "expired", or      *)
(* "blank" in the cache when it cannot be decrypted.  A set of parameters is *)
(* the account it was meant for and a number.                                *)
EXTENDS Naturals, Sequences, SequencesExt

CONSTANTS
    Ids,       \* account ids, 1 .. n: 1 is the one settings name at first
    MaxPar,    \* bound on the parameter sets saved
    MaxWork,   \* bound on requests between their two writes
    MaxCrash   \* bound on crashes

VARIABLES
    rows,      \* accounts and account_params by id
    setting,   \* settings.active_account_id
    next,      \* the next id (AUTOINCREMENT)
    up,        \* the engine runs
    cache,     \* AccountRegistry._cache
    active,    \* _active_id
    live,      \* app_state.params
    clients,   \* ExchangeFactory._adapters: per id the key inside, or "none"
    refused,   \* app_state.auth_failed_accounts
    refresh,   \* the key of the periodic refresh under way, or "none"
    work,      \* requests that wrote the database and not yet the cache
    switch,    \* activate_account: where it is, from and to which account
    crossed,   \* parameters were saved between the reset and the activation
    saved, crashes

vars == <<rows, setting, next, up, cache, active, live, clients, refused,
          refresh, work, switch, crossed, saved, crashes>>
stored == <<rows, setting, next>>
counts == <<crossed, saved, crashes>>

Pars == [of : Ids, n : 0 .. MaxPar]
Default(a) == [of |-> a, n |-> 0]
Keys == {"valid", "expired"}
Absent(a) == [there |-> FALSE, key |-> "blank", par |-> Default(a)]
Known(a) == cache[a].there
Idle == switch.pc = "idle"

TypeOK ==
    /\ \A t \in {rows, cache} :
         t \in [Ids -> [there : BOOLEAN, key : Keys \cup {"blank"}, par : Pars]]
    /\ \A a \in Ids : rows[a].there => rows[a].key \in Keys /\ a < next
    /\ setting \in Ids /\ active \in Ids /\ up \in BOOLEAN /\ live \in Pars
    /\ clients \in [Ids -> Keys \cup {"none"}] /\ refused \subseteq Ids
    /\ refresh \in Keys \cup {"none"} /\ Len(work) <= MaxWork
    /\ switch.pc \in {"idle", "stop", "set", "reinit", "unset", "again"}
    /\ (up => Idle = (switch.from = switch.to)) /\ (~up => work = <<>>)

\* The file as the engine left it: some of the first accounts, 1 active.
Init ==
    /\ \E k \in [Ids -> Keys], m \in Ids :
         /\ rows = [a \in Ids |-> IF a <= m THEN [there |-> TRUE, key |-> k[a], par |-> Default(a)]
                                  ELSE Absent(a)]
         /\ next = m + 1
    /\ setting = 1 /\ active = 1 /\ up = FALSE /\ live = Default(1)
    /\ cache = [a \in Ids |-> Absent(a)] /\ clients = [a \in Ids |-> "none"]
    /\ refused = {} /\ refresh = "none" /\ work = <<>>
    /\ switch = [pc |-> "idle", from |-> 1, to |-> 1]
    /\ crossed = FALSE /\ saved = 0 /\ crashes = 0

-----------------------------------------------------------------------------
(* Start and crash.                                                          *)

\* load_all and load_params: the key of a row may not decrypt, and without the
\* account of the setting the first one is active, which is not saved.
LoadAll ==
    /\ ~up /\ up' = TRUE
    /\ \E garbled \in SUBSET {a \in Ids : rows[a].there} :
         /\ cache' = [a \in Ids |-> IF a \in garbled THEN [rows[a] EXCEPT !.key = "blank"]
                                    ELSE rows[a]]
         /\ refused' = garbled
    /\ LET there == {a \in Ids : rows[a].there}
       IN  active' = IF setting \in there THEN setting
                     ELSE IF there # {} THEN CHOOSE a \in there : \A b \in there : a <= b
                     ELSE 1
    /\ live' = cache'[active'].par
    /\ UNCHANGED <<stored, clients, refresh, work, switch, counts>>

Crash ==
    /\ up /\ crashes < MaxCrash /\ crashes' = crashes + 1
    /\ up' = FALSE /\ work' = <<>> /\ refresh' = "none"
    /\ cache' = [a \in Ids |-> Absent(a)] /\ clients' = [a \in Ids |-> "none"]
    /\ refused' = {} /\ switch' = [pc |-> "idle", from |-> 1, to |-> 1]
    /\ active' = 1 /\ live' = Default(1) /\ crossed' = FALSE
    /\ UNCHANGED <<stored, saved>>

-----------------------------------------------------------------------------
(* Requests: the write of the row, then that of the cache.                   *)

Begin(w) == up /\ Len(work) < MaxWork /\ work' = Append(work, w)

\* The first pending one of its kind for its account comes first.
End(i) == /\ up /\ i \in DOMAIN work
          /\ \A j \in 1 .. i - 1 : <<work[j].kind, work[j].id>> # <<work[i].kind, work[i].id>>
          /\ work' = RemoveAt(work, i)

\* add_account: new ids are never used again.
AddStores(k) ==
    /\ next \in Ids
    /\ rows' = [rows EXCEPT ![next] = [there |-> TRUE, key |-> k, par |-> Default(next)]]
    /\ next' = next + 1
    /\ Begin([kind |-> "add", id |-> next, key |-> k, par |-> Default(next)])
    /\ UNCHANGED <<setting, up, cache, active, live, clients, refused, refresh, switch, counts>>

AddCaches(i) ==
    /\ End(i) /\ work[i].kind = "add"
    /\ cache' = [cache EXCEPT ![work[i].id] =
                   [there |-> TRUE, key |-> work[i].key, par |-> work[i].par]]
    /\ UNCHANGED <<stored, up, active, live, clients, refused, refresh, switch, counts>>

\* delete_account: not the active account, as it is now.
DeleteStores(a) ==
    /\ a # active /\ Known(a) /\ rows[a].there
    /\ rows' = [rows EXCEPT ![a] = Absent(a)]
    /\ Begin([kind |-> "delete", id |-> a])
    /\ UNCHANGED <<setting, next, up, cache, active, live, clients, refused, refresh, switch, counts>>

DeleteCaches(i) ==
    /\ End(i) /\ work[i].kind = "delete"
    /\ cache' = [cache EXCEPT ![work[i].id] = Absent(work[i].id)]
    /\ clients' = [clients EXCEPT ![work[i].id] = "none"]
    /\ UNCHANGED <<stored, up, active, live, refused, refresh, switch, counts>>

\* update_account with a new key and secret.
KeyStores(a, k) ==
    /\ Known(a) /\ rows[a].there
    /\ rows' = [rows EXCEPT ![a].key = k]
    /\ Begin([kind |-> "key", id |-> a, key |-> k])
    /\ UNCHANGED <<setting, next, up, cache, active, live, clients, refused, refresh, switch, counts>>

\* (Mutant: the new key reaches an account that has gone meanwhile.)
MutKeyCaches(i) ==
    /\ End(i) /\ work[i].kind = "key"
    /\ cache' = [cache EXCEPT ![work[i].id] = [@ EXCEPT !.there = TRUE, !.key = work[i].key]]
    /\ refused' = refused \ {work[i].id}
    /\ UNCHANGED <<stored, up, active, live, clients, refresh, switch, counts>>
\* The cached entry, if the account still has one, and the flag.
KeyCaches(i) ==
    /\ End(i) /\ work[i].kind = "key"
    /\ cache' = IF Known(work[i].id) THEN [cache EXCEPT ![work[i].id].key = work[i].key]
                ELSE cache
    /\ refused' = refused \ {work[i].id}
    /\ UNCHANGED <<stored, up, active, live, clients, refresh, switch, counts>>

\* update_account_detail: the parameters of any account.
ParStores(a) ==
    /\ Known(a) /\ rows[a].there /\ saved < MaxPar /\ saved' = saved + 1
    /\ rows' = [rows EXCEPT ![a].par = [of |-> a, n |-> saved']]
    /\ Begin([kind |-> "par", id |-> a, par |-> [of |-> a, n |-> saved']])
    /\ UNCHANGED <<setting, next, up, cache, active, live, clients, refused, refresh, switch, crossed, crashes>>

\* update_account_params; the live set follows if the account is active now.
ParCaches(i) ==
    /\ End(i) /\ work[i].kind = "par"
    /\ cache' = IF Known(work[i].id) THEN [cache EXCEPT ![work[i].id].par = work[i].par]
                ELSE cache
    /\ live' = IF work[i].id = active THEN work[i].par ELSE live
    /\ crossed' = (crossed \/ (work[i].id = active /\ switch.pc = "set"))
    /\ UNCHANGED <<stored, up, active, clients, refused, refresh, switch, saved, crashes>>

\* update_params: the live set at once, then the active account's rows.
ParamsPosted ==
    /\ Known(active) /\ rows[active].there /\ saved < MaxPar /\ saved' = saved + 1
    /\ live' = [of |-> active, n |-> saved']
    /\ crossed' = (crossed \/ switch.pc = "set")
    /\ rows' = [rows EXCEPT ![active].par = live']
    /\ Begin([kind |-> "par", id |-> active, par |-> live'])
    /\ UNCHANGED <<setting, next, up, cache, active, clients, refused, refresh, switch, crashes>>

-----------------------------------------------------------------------------
(* activate_account.                                                         *)

At(pc) == up /\ switch.pc = pc
Go(pc) == switch' = [switch EXCEPT !.pc = pc]
Ended == switch' = [switch EXCEPT !.pc = "idle", !.from = active, !.to = active]

SwitchStarts(b) ==
    /\ At("idle") /\ b # active /\ Known(b)
    /\ switch' = [pc |-> "stop", from |-> active, to |-> b]
    /\ UNCHANGED <<stored, up, cache, active, live, clients, refused, refresh, work, counts>>

\* After ws_manager.stop: reset_for_account_switch, and set_active writes.
SwitchStores ==
    /\ At("stop") /\ Go("set")
    /\ live' = cache[switch.to].par
    /\ clients' = [clients EXCEPT ![switch.from] = "none"]
    /\ setting' = switch.to /\ crossed' = FALSE
    /\ UNCHANGED <<rows, next, up, cache, active, refused, refresh, work, saved, crashes>>

SwitchActivates ==
    /\ At("set") /\ Go("reinit")
    /\ active' = switch.to
    /\ UNCHANGED <<stored, up, cache, live, clients, refused, refresh, work, counts>>

\* A key of the cache gets the account a client unless it has one.
Client(a) == IF clients[a] = "none" /\ Known(a) /\ cache[a].key # "blank"
             THEN [clients EXCEPT ![a] = cache[a].key] ELSE clients

ReinitEnds ==
    /\ \/ At("reinit") /\ Client(active)[active] = "valid"
       \/ At("again")
    /\ clients' = Client(active)
    /\ Ended
    /\ UNCHANGED <<stored, up, cache, active, live, refused, refresh, work, counts>>

\* (Mutant: the rollback restores the account in memory only.)
MutReinitFails ==
    /\ At("reinit") /\ Go("unset")
    /\ clients' = Client(active)
    /\ UNCHANGED <<stored, up, cache, active, live, refused, refresh, work, counts>>
\* Any call of _reinit fails, and set_active writes the old account.
ReinitFails ==
    /\ At("reinit") /\ Go("unset")
    /\ clients' = Client(active)
    /\ setting' = switch.from
    /\ UNCHANGED <<rows, next, up, cache, active, live, refused, refresh, work, counts>>

\* (Mutant: the parameters of the account that failed stay in force.)
MutRollsBack ==
    /\ At("unset") /\ Go("again")
    /\ active' = switch.from
    /\ clients' = [clients EXCEPT ![switch.to] = "none"]
    /\ UNCHANGED <<stored, up, cache, live, refused, refresh, work, counts>>
\* The second reset.  Whatever the second _reinit does ends the switch.
RollsBack ==
    /\ At("unset") /\ Go("again")
    /\ active' = switch.from /\ live' = cache[switch.from].par
    /\ clients' = [clients EXCEPT ![switch.to] = "none"]
    /\ UNCHANGED <<stored, up, cache, refused, refresh, work, counts>>

-----------------------------------------------------------------------------
(* _account_refresh_loop.                                                    *)

RefreshStarts ==
    /\ up /\ refresh = "none" /\ active \notin refused
    /\ Known(active) /\ cache[active].key # "blank"
    /\ clients' = Client(active) /\ refresh' = clients'[active]
    /\ UNCHANGED <<stored, up, cache, active, live, refused, work, switch, counts>>

\* An expired key raises AuthenticationError: the account active by now is
\* marked.
RefreshEnds ==
    /\ up /\ refresh # "none" /\ refresh' = "none"
    /\ refused' = IF refresh = "expired" THEN refused \cup {active} ELSE refused
    /\ UNCHANGED <<stored, up, cache, active, live, clients, work, switch, counts>>

Requests ==
    \/ \E k \in Keys : AddStores(k) \/ \E a \in Ids : KeyStores(a, k)
    \/ \E a \in Ids : DeleteStores(a) \/ ParStores(a)
    \/ \E i \in 1 .. MaxWork : AddCaches(i) \/ DeleteCaches(i) \/ KeyCaches(i) \/ ParCaches(i)
    \/ ParamsPosted

Next ==
    \/ LoadAll \/ Crash \/ Requests
    \/ \E b \in Ids : SwitchStarts(b)
    \/ SwitchStores \/ SwitchActivates \/ ReinitEnds \/ ReinitFails \/ RollsBack
    \/ RefreshStarts \/ RefreshEnds

Spec == Init /\ [][Next]_vars

-----------------------------------------------------------------------------
(* Properties.                                                               *)

\* With no request between its two writes the cache holds what the file holds,
\* whatever requests, switches and crashes came before, except for keys that
\* did not decrypt at the start.
CacheIsStored ==
    up /\ work = <<>> =>
        \A a \in Ids : /\ cache[a].there = rows[a].there /\ cache[a].par = rows[a].par
                       /\ cache[a].key \in {rows[a].key, "blank"}

\* Outside a switch a restart would resume with the account active now, unless
\* the one it would look for has been deleted.
RestartResumes == up /\ Idle /\ rows[setting].there => setting = active

\* Outside a switch the parameters in force are the active account's, unless
\* some were saved between the reset of a switch and its activation: those are
\* taken for the account being left and stay in force for the new one.
LiveIsOwn == up /\ Idle /\ ~crossed => live.of = active

\* account_registry.py: a new key clears the flag "so the scheduler resumes
\* periodic refresh": its calls use the key the registry holds.
UsesSavedKey == [][RefreshStarts => refresh' = cache[active].key]_vars

\* routes_accounts.py refuses to delete the active account; one deleted while a
\* switch leaves it is active again when the switch is rolled back.
ActiveExists == up /\ rows # [a \in Ids |-> Absent(a)] => Known(active)
=============================================================================
