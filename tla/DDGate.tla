------------------------------- MODULE DDGate -------------------------------
(***************************************************************************)
(* The drawdown gate: core/dd_state.py computes ok/warning/limit with a     *)
(* sticky limit, DataCache._do_recalculate_portfolio keeps the per-account *)
(* memory of it, core/dd_gate.py refuses new entries, the override route   *)
(* opens the gate by hand, and snapshots, restarts, account switches and   *)
(* the plugin's hello move that memory about.                              *)
(*                                                                         *)
(* Drawdowns are levels on an integer scale.  Equity and the rolling peak   *)
(* are abstracted to the level they give, which may jump anywhere between   *)
(* two recalculations: an equity tick, an old peak leaving the window, or   *)
(* the equity 0 of a cleared account.                                      *)
(***************************************************************************)
EXTENDS Integers

CONSTANTS Accounts, Home,      \* the accounts; the one active at first
          Configured,          \* those whose warning and limit are set
          Levels, Warn, Limit, \* drawdown levels and the two thresholds
          RecNum, RecDen,      \* recovery threshold RecNum/RecDen
          Faults               \* which disturbances this instance has

ASSUME AccountsAssumption == Home \in Accounts /\ Configured \subseteq Accounts
ASSUME LevelsAssumption ==
  Levels \subseteq Nat /\ Warn \in Nat /\ Limit \in Nat /\ 0 < Warn /\ Warn < Limit
ASSUME RecoveryAssumption ==
  RecNum \in Nat /\ RecDen \in Nat /\ 0 < RecDen /\ RecNum <= RecDen
ASSUME FaultsAssumption == Faults \subseteq {"settings", "switch", "restart", "hello"}

DDState == {"ok", "warning", "limit"}
Shown == DDState \union {"blank"}   \* a back-filled snapshot row has dd_state ''

VARIABLES
  active,       \* account_registry.active_id
  prevState,    \* app_state.dd_previous_states ("none": no entry)
  epPeak,       \* app_state.dd_episode_peaks (-1: no entry)
  ddState,      \* app_state.portfolio.dd_state
  override,     \* app_state.dd_manually_unblocked
  shadow,       \* app_state.dd_would_have_blocked_logged
  mode,         \* account_settings.dd_enforcement_mode
  readable,     \* can account_settings be read now?
  snapshot,     \* dd_state of the account's newest account_snapshots row
  initializing, \* app_state.is_initializing; "unloaded": no longer, but equity is 0
  switch,       \* where activate_account is: step, account left
  level,        \* environment: the active account's drawdown
  worst,        \* ghost: worst level since the account hit its limit, 0 outside
  events,       \* ghost: shadow events logged in this limit episode, up to 2
  fallback,     \* ghost: did the last recalculation use the legacy ratios?
  owner         \* ghost: the account ddState was computed for; "rebound" from a
                \* hello that changed the active account to the next recalculation

dicts == <<prevState, epPeak, override, shadow>>
settings == <<mode, readable>>
ghosts == <<worst, events, fallback>>
vars == <<active, dicts, ddState, settings, snapshot, initializing, switch,
          level, ghosts, owner>>

Idle == [at |-> "idle", from |-> Home]

Max2(x, y) == IF x > y THEN x ELSE y

Init ==
  /\ active = Home
  /\ prevState = [a \in Accounts |-> "none"]
  /\ epPeak = [a \in Accounts |-> -1]
  /\ override = {} /\ shadow = {}
  /\ ddState = "ok"
  /\ mode \in [Accounts -> {"advisory", "enforced"}]
  /\ readable = "yes"
  /\ snapshot = [a \in Accounts |-> "none"]
  /\ initializing = "yes"
  /\ switch = Idle
  /\ level \in Levels
  /\ worst = [a \in Accounts |-> 0]
  /\ events = [a \in Accounts |-> 0]
  /\ fallback = "no"
  /\ owner = Home

-----------------------------------------------------------------------------
(* dd_state.py *)

FromDrawdown(dd) ==
  IF dd >= Limit THEN "limit"
  ELSE IF dd >= Warn THEN "warning" ELSE "ok"

Recovers(dd, peak) == dd * RecDen <= peak * (RecDen - RecNum)

(* (Mutant: the peak of the episode is not carried from one tick to the next.) *)
MutPeakForgets(prev, dd, peak) ==
  IF prev = "limit" /\ dd > 0
  THEN IF Recovers(dd, dd) THEN [st |-> "ok", peak |-> 0]
                           ELSE [st |-> "limit", peak |-> dd]
  ELSE [st |-> FromDrawdown(dd), peak |-> IF FromDrawdown(dd) = "ok" THEN 0 ELSE dd]

(* (Mutant: the limit is not sticky, it follows the thresholds.) *)
MutNotSticky(prev, dd, peak) ==
  [st |-> FromDrawdown(dd),
   peak |-> IF FromDrawdown(dd) = "ok" THEN 0 ELSE Max2(peak, dd)]

(* (Mutant: the recovery branch is missing.) *)
MutRecoverNever(prev, dd, peak) ==
  IF prev = "limit" /\ Max2(peak, dd) > 0
  THEN [st |-> "limit", peak |-> Max2(peak, dd)]
  ELSE [st |-> FromDrawdown(dd),
        peak |-> IF FromDrawdown(dd) = "ok" THEN 0 ELSE Max2(peak, dd)]

(* (Mutant: a misspelt state.) *)
MutMisspelt(prev, dd, peak) ==
  [st |-> IF dd >= Limit THEN "limited" ELSE FromDrawdown(dd), peak |-> 0]

(* dd_state_with_recovery: the new state and the episode's peak drawdown. *)
WithRecovery(prev, dd, peak) ==
  LET p == Max2(peak, dd)
      st == FromDrawdown(dd)
  IN IF prev = "limit" /\ p > 0
     THEN IF Recovers(dd, p) THEN [st |-> "ok", peak |-> 0]
                             ELSE [st |-> "limit", peak |-> p]
     ELSE [st |-> st, peak |-> IF st = "ok" THEN 0 ELSE p]

-----------------------------------------------------------------------------
(* dd_gate.py: dd_gate_allows_new_entry, which reads the one portfolio. *)

AllowsNewEntry(a) ==
  \/ ddState # "limit"
  \/ a \in override
  \/ readable = "yes" /\ mode[a] = "advisory"

-----------------------------------------------------------------------------
(* What the promise says of the account's limit episode (ghost): it starts at *)
(* the limit and ends when the level is back within the recovery share of the *)
(* worst level seen.                                                          *)
Worst(w, dd) ==
  IF w = 0
  THEN IF dd >= Limit THEN dd ELSE 0
  ELSE IF Recovers(dd, Max2(w, dd)) THEN 0 ELSE Max2(w, dd)

(* (Mutant: leaving the limit keeps the override.) *)
MutRollingKeepsOverride(a) ==
  LET new == WithRecovery(IF prevState[a] = "none" THEN "ok" ELSE prevState[a], level,
                          IF epPeak[a] = -1 THEN level ELSE epPeak[a])
      w == Worst(worst[a], level)
  IN /\ ddState' = new.st
     /\ prevState' = [prevState EXCEPT ![a] = new.st]
     /\ epPeak' = [epPeak EXCEPT ![a] = new.peak]
     /\ worst' = [worst EXCEPT ![a] = w]
     /\ events' = IF w = 0 THEN [events EXCEPT ![a] = 0] ELSE events
     /\ UNCHANGED <<override, shadow>>

(* _do_recalculate_portfolio, the rolling drawdown of the active account. *)
Rolling(a) ==
  LET peak == IF epPeak[a] = -1 THEN level ELSE epPeak[a]
      prev == IF prevState[a] = "none" THEN "ok" ELSE prevState[a]
      new == WithRecovery(prev, level, peak)
      left == prev = "limit" /\ new.st # "limit"
      w == Worst(worst[a], level)
  IN /\ ddState' = new.st
     /\ prevState' = [prevState EXCEPT ![a] = new.st]
     /\ epPeak' = [epPeak EXCEPT ![a] = new.peak]
     /\ override' = IF left THEN override \ {a} ELSE override
     /\ shadow' = IF left THEN shadow \ {a} ELSE shadow
     /\ worst' = [worst EXCEPT ![a] = w]
     /\ events' = IF w = 0 THEN [events EXCEPT ![a] = 0] ELSE events

(* Settings read and thresholds set: the rolling rule.  Thresholds unset: ok. *)
(* Settings unreadable: the legacy intraday ratios, a drawdown of their own. *)
Recalculate ==
  /\ owner' = active
  /\ fallback' = IF readable = "no" THEN "yes" ELSE "no"
  /\ \/ readable = "yes" /\ active \in Configured /\ Rolling(active)
     \/ /\ readable = "yes" /\ active \notin Configured
        /\ ddState' = "ok"
        /\ UNCHANGED <<dicts, worst, events>>
     \/ /\ readable = "no"
        /\ ddState' \in DDState
        /\ UNCHANGED <<dicts, worst, events>>

(* A mark price, an account or a position update reaches the cache. *)
Recalc ==
  /\ Recalculate
  /\ initializing' = IF initializing = "unloaded" THEN "no" ELSE initializing
  /\ UNCHANGED <<active, settings, snapshot, switch, level>>

(* Equity moves, or the peak leaves the rolling window. *)
Market ==
  /\ level' \in Levels
  /\ UNCHANGED <<active, dicts, ddState, settings, snapshot, initializing, switch,
                 ghosts, owner>>

(* ReadyStateEvaluator._check_dd_gate: one shadow event per account until the *)
(* dedup set is cleared.                                                      *)
(* (Mutant: the dedup set is not written.) *)
MutEvaluateNoDedup ==
  /\ initializing = "no" /\ ddState = "limit" /\ AllowsNewEntry(active)
  /\ active \notin override /\ active \notin shadow
  /\ events' = [events EXCEPT ![active] = IF @ < 2 THEN @ + 1 ELSE @]
  /\ UNCHANGED <<active, dicts, ddState, settings, snapshot, initializing, switch,
                 level, worst, fallback, owner>>

EvaluateReady ==
  /\ initializing = "no" /\ ddState = "limit" /\ AllowsNewEntry(active)
  /\ active \notin override /\ active \notin shadow
  /\ shadow' = shadow \union {active}
  /\ events' = [events EXCEPT ![active] = IF @ < 2 THEN @ + 1 ELSE @]
  /\ UNCHANGED <<active, prevState, epPeak, override, ddState, settings, snapshot,
                 initializing, switch, level, worst, fallback, owner>>

(* POST /account/{id}/dd_override: any account id, tested against the one     *)
(* portfolio's state.                                                         *)
Override(a) ==
  /\ ddState = "limit" /\ a \notin override
  /\ override' = override \union {a}
  /\ UNCHANGED <<active, prevState, epPeak, shadow, ddState, settings, snapshot,
                 initializing, switch, level, ghosts, owner>>

(* POST /admin/dd_enforcement flips the active account's mode. *)
ToggleMode ==
  /\ readable = "yes"
  /\ mode' = [mode EXCEPT ![active] = IF @ = "enforced" THEN "advisory" ELSE "enforced"]
  /\ UNCHANGED <<active, dicts, ddState, readable, snapshot, initializing, switch,
                 level, ghosts, owner>>

(* handle_account_updated writes a snapshot; the equity back-fill appends rows *)
(* whose dd_state is empty, and the newest id is what a restore reads.         *)
SaveSnapshot ==
  /\ snapshot' = [snapshot EXCEPT ![active] = ddState]
  /\ UNCHANGED <<active, dicts, ddState, settings, initializing, switch, level, ghosts, owner>>

Backfill ==
  /\ snapshot' = [snapshot EXCEPT ![active] = "blank"]
  /\ UNCHANGED <<active, dicts, ddState, settings, initializing, switch, level, ghosts, owner>>

(* _startup_fetch ends. *)
StartupDone ==
  /\ initializing = "yes" /\ switch.at = "idle"
  /\ initializing' = "no"
  /\ UNCHANGED <<active, dicts, ddState, settings, snapshot, switch, level, ghosts, owner>>

-----------------------------------------------------------------------------
(* Disturbances *)

(* The settings database stops answering, or answers again. *)
SettingsFlip ==
  /\ "settings" \in Faults
  /\ readable' = IF readable = "yes" THEN "no" ELSE "yes"
  /\ UNCHANGED <<active, dicts, ddState, mode, snapshot, initializing, switch, level,
                 ghosts, owner>>

(* reset_for_account_switch: every account's memory goes. *)
ClearMemory ==
  /\ prevState' = [a \in Accounts |-> "none"]
  /\ epPeak' = [a \in Accounts |-> -1]
  /\ override' = {} /\ shadow' = {}

(* restore_from_snapshot of account a, if it has a snapshot. *)
Restore(a, otherwise) ==
  ddState' = IF snapshot[a] = "none" THEN otherwise ELSE snapshot[a]

(* The process dies; the next one restores the last snapshot (main.py). *)
Restart ==
  /\ "restart" \in Faults
  /\ ClearMemory
  /\ Restore(active, "ok")
  /\ initializing' = "yes"
  /\ switch' = Idle
  /\ owner' = active
  /\ UNCHANGED <<active, settings, snapshot, level, ghosts>>

(* activate_account stops the streams and resets; the registry still names the *)
(* account being left.                                                         *)
SwitchReset ==
  /\ "switch" \in Faults
  /\ switch.at = "idle"
  /\ ClearMemory /\ ddState' = "ok"
  /\ initializing' = "yes"
  /\ switch' = [at |-> "reset", from |-> active]
  /\ owner' = active
  /\ UNCHANGED <<active, settings, snapshot, level, ghosts>>

(* set_active returns: the registry names the new account. *)
SwitchActivate(b) ==
  /\ switch.at = "reset" /\ b # active
  /\ active' = b
  /\ switch' = [at |-> "activated", from |-> switch.from]
  /\ level' \in Levels
  /\ UNCHANGED <<dicts, ddState, settings, snapshot, initializing, ghosts, owner>>

SwitchRestore ==
  /\ switch.at = "activated"
  /\ Restore(active, ddState)
  /\ owner' = IF snapshot[active] = "none" THEN owner ELSE active
  /\ switch' = [at |-> "restored", from |-> switch.from]
  /\ UNCHANGED <<active, dicts, settings, snapshot, initializing, level, ghosts>>

(* (Mutant: _reinit does not recalculate.) *)
MutReinitNoRecalc ==
  /\ switch.at \in {"restored", "back"}
  /\ switch' = [at |-> "started", from |-> switch.from]
  /\ UNCHANGED <<active, dicts, ddState, settings, snapshot, initializing, level, ghosts, owner>>

(* _reinit fetches, then recalculates for the account now active. *)
Reinit ==
  /\ switch.at \in {"restored", "back"}
  /\ Recalculate
  /\ switch' = [at |-> IF switch.at = "back" THEN "backStarted" ELSE "started",
                from |-> switch.from]
  /\ UNCHANGED <<active, settings, snapshot, initializing, level>>

SwitchDone ==
  /\ switch.at \in {"started", "backStarted"}
  /\ initializing' = "no"
  /\ switch' = Idle
  /\ UNCHANGED <<active, dicts, ddState, settings, snapshot, level, ghosts, owner>>

(* _reinit raises: back to the old account, reset, no restore. *)
SwitchFails ==
  /\ switch.at \in {"restored", "started"}
  /\ active' = switch.from
  /\ ClearMemory /\ ddState' = "ok"
  /\ switch' = [at |-> "back", from |-> switch.from]
  /\ owner' = switch.from
  /\ level' \in Levels
  /\ UNCHANGED <<settings, snapshot, initializing, ghosts>>

(* The rollback's _reinit raises too: degraded mode, which ReadyStateEvaluator *)
(* refuses until an update brings equity again.                                *)
RollbackFails ==
  /\ switch.at \in {"back", "backStarted"}
  /\ initializing' = IF switch.at = "back" THEN "unloaded" ELSE "no"
  /\ switch' = Idle
  /\ UNCHANGED <<active, dicts, ddState, settings, snapshot, level, ghosts, owner>>

(* _handle_hello of a plugin bound to account b: set_active and nothing else. *)
Hello(b) ==
  /\ "hello" \in Faults
  /\ b # active
  /\ active' = b
  /\ level' \in Levels
  /\ owner' = "rebound"
  /\ UNCHANGED <<dicts, ddState, settings, snapshot, initializing, switch, ghosts>>

Next ==
  \/ Recalc \/ Market \/ EvaluateReady \/ ToggleMode
  \/ SaveSnapshot \/ Backfill \/ StartupDone
  \/ SettingsFlip \/ Restart
  \/ SwitchReset \/ SwitchRestore \/ Reinit \/ SwitchDone \/ SwitchFails \/ RollbackFails
  \/ \E a \in Accounts : Override(a) \/ SwitchActivate(a) \/ Hello(a)

Spec == Init /\ [][Next]_vars

(* Recalculation runs on every mark price, so it keeps happening. *)
LiveSpec == Spec /\ WF_vars(Recalc)

-----------------------------------------------------------------------------
Peaks == Levels \union {-1, 0}

(* TypeOK: the domain of every variable. *)
TypeOK ==
  /\ active \in Accounts
  /\ prevState \in [Accounts -> DDState \union {"none"}]
  /\ epPeak \in [Accounts -> Peaks]
  /\ ddState \in Shown
  /\ override \subseteq Accounts /\ shadow \subseteq Accounts
  /\ mode \in [Accounts -> {"advisory", "enforced"}]
  /\ readable \in {"yes", "no"}
  /\ snapshot \in [Accounts -> Shown \union {"none"}]
  /\ initializing \in {"yes", "no", "unloaded"}
  /\ switch \in [at : {"idle", "reset", "activated", "restored", "started", "back",
                        "backStarted"},
                 from : Accounts]
  /\ level \in Levels
  /\ worst \in [Accounts -> Levels \union {0}]
  /\ events \in [Accounts -> 0..2]
  /\ fallback \in {"yes", "no"}
  /\ owner \in Accounts \union {"rebound"}

(* BlockedUntilRecovered: once an account has hit its limit, new entries stay  *)
(* refused in enforced mode, and when the mode cannot be read, until its       *)
(* drawdown is back within the recovery share of the worst one seen or an       *)
(* override is given (v2.4.md 1b; dd_gate.py).                                 *)
BlockedUntilRecovered ==
  initializing = "no" /\ worst[active] > 0 /\ active \notin override
    /\ (readable = "no" \/ mode[active] = "enforced")
  => ~AllowsNewEntry(active)

(* BlockedByRule: the same, as long as the last recalculation could read the    *)
(* settings: a failed read costs the block only until the next one that works. *)
BlockedByRule == fallback = "no" => BlockedUntilRecovered

(* EngineRemembers: the engine's own memory of an episode, last state and      *)
(* episode peak, is the history of drawdowns since the limit was hit, however  *)
(* often the settings were unreadable in between (data_cache.py).              *)
EngineRemembers ==
  \A a \in Accounts :
    /\ worst[a] > 0 <=> prevState[a] = "limit"
    /\ worst[a] > 0 => epPeak[a] = worst[a]

(* OverrideEnds: an override does not outlive the episode it was given in, so  *)
(* the next one blocks again, settings errors or not (routes_accounts.py,      *)
(* dd_override; data_cache.py).                                                *)
OverrideEnds ==
  [][\A a \in Accounts : worst[a] > 0 /\ worst'[a] = 0 => a \notin override']_vars

(* ShadowOnce: in advisory mode a limit episode logs one shadow event, however *)
(* often readiness is evaluated (monitoring.py).                               *)
ShadowOnce == \A a \in Accounts : events[a] <= 1

(* GateOwnState: outside initialisation the gate judges the active account by  *)
(* its own drawdown state, never by another account's, but for the time from a *)
(* hello that rebinds the account to the recalculation after it (dd_gate.py).  *)
GateOwnState == initializing = "no" => owner \in {active, "rebound"}

(* StickyLimit: whatever restarts, switches or read errors happen, the engine  *)
(* only replaces a remembered limit by forgetting it altogether or because the *)
(* drawdown is within the recovery share of the remembered peak.               *)
StickyLimit ==
  [][\A a \in Accounts :
       prevState[a] = "limit" /\ prevState'[a] \notin {"limit", "none"}
       => Recovers(level, Max2(epPeak[a], level))]_vars

(* Unblocks: an account whose drawdown stays at zero does not stay blocked     *)
(* once its settings can be read again.                                        *)
Unblocks == <>[](level = 0 /\ readable = "yes") => <>[](ddState # "limit")
=============================================================================
