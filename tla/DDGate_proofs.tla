---------------------------- MODULE DDGate_proofs ----------------------------
(***************************************************************************)
(* What holds of the drawdown gate for every set of accounts, every scale  *)
(* and every pair of thresholds.                                           *)
(***************************************************************************)
EXTENDS DDGate, TLAPS

(* The two arithmetic facts about a recalculation: what the state becomes, and *)
(* that a level at 0 counts as recovered.                                      *)
LEMMA MaxFacts ==
  ASSUME NEW x \in Int, NEW y \in Int
  PROVE  /\ Max2(x, y) \in {x, y}
         /\ Max2(x, y) >= x /\ Max2(x, y) >= y
  BY DEF Max2

LEMMA RecoversAtZero == Recovers(0, 0)
  BY RecoveryAssumption DEF Recovers

LEMMA FromDrawdownType ==
  ASSUME NEW dd \in Nat
  PROVE  /\ FromDrawdown(dd) \in DDState
         /\ FromDrawdown(dd) = "limit" <=> dd >= Limit
  BY LevelsAssumption DEF FromDrawdown, DDState

(* The result of dd_state_with_recovery, by cases. *)
LEMMA RecoveryCases ==
  ASSUME NEW prev \in DDState, NEW dd \in Nat, NEW peak \in Int,
         NEW r, r = WithRecovery(prev, dd, peak)
  PROVE  /\ r.st \in DDState
         /\ r.peak \in {0, peak, dd}
         /\ prev = "limit" /\ Max2(peak, dd) > 0 /\ Recovers(dd, Max2(peak, dd))
              => r.st = "ok" /\ r.peak = 0
         /\ prev = "limit" /\ Max2(peak, dd) > 0 /\ ~Recovers(dd, Max2(peak, dd))
              => r.st = "limit" /\ r.peak = Max2(peak, dd)
         /\ ~(prev = "limit" /\ Max2(peak, dd) > 0)
              => /\ r.st = FromDrawdown(dd)
                 /\ r.st = "ok" => r.peak = 0
                 /\ r.st # "ok" => r.peak = Max2(peak, dd)
<1>1. Max2(peak, dd) \in {peak, dd}
  BY MaxFacts
<1>2. FromDrawdown(dd) \in DDState
  BY FromDrawdownType
<1>3. CASE prev = "limit" /\ Max2(peak, dd) > 0
  <2>1. CASE Recovers(dd, Max2(peak, dd))
    <3>1. r = [st |-> "ok", peak |-> 0]
      BY <1>3, <2>1 DEF WithRecovery
    <3>2. QED
      BY <1>3, <2>1, <3>1 DEF DDState
  <2>2. CASE ~Recovers(dd, Max2(peak, dd))
    <3>1. r = [st |-> "limit", peak |-> Max2(peak, dd)]
      BY <1>3, <2>2 DEF WithRecovery
    <3>2. QED
      BY <1>1, <1>3, <2>2, <3>1 DEF DDState
  <2>3. QED
    BY <2>1, <2>2
<1>4. CASE ~(prev = "limit" /\ Max2(peak, dd) > 0)
  <2>1. r = [st |-> FromDrawdown(dd),
             peak |-> IF FromDrawdown(dd) = "ok" THEN 0 ELSE Max2(peak, dd)]
    BY <1>4 DEF WithRecovery
  <2>2. r.st = FromDrawdown(dd) /\ r.peak = IF FromDrawdown(dd) = "ok" THEN 0 ELSE Max2(peak, dd)
    BY <2>1
  <2>3. QED
    BY <1>1, <1>2, <1>4, <2>2
<1>5. QED
  BY <1>3, <1>4

-----------------------------------------------------------------------------
(* The state and the peak a recalculation of account a starts from. *)
Before(a) == IF prevState[a] = "none" THEN "ok" ELSE prevState[a]
PeakOf(a) == IF epPeak[a] = -1 THEN level ELSE epPeak[a]
After(a) == WithRecovery(Before(a), level, PeakOf(a))

LEMMA RollingEffect ==
  ASSUME TypeOK, NEW a \in Accounts, Rolling(a)
  PROVE  /\ ddState' = After(a).st
         /\ prevState' = [prevState EXCEPT ![a] = After(a).st]
         /\ epPeak' = [epPeak EXCEPT ![a] = After(a).peak]
         /\ worst' = [worst EXCEPT ![a] = Worst(worst[a], level)]
         /\ Before(a) = "limit" /\ After(a).st # "limit"
              => override' = override \ {a} /\ shadow' = shadow \ {a}
         /\ ~(Before(a) = "limit" /\ After(a).st # "limit")
              => override' = override /\ shadow' = shadow
         /\ events' = [events EXCEPT ![a] = 0] \/ events' = events
         /\ Before(a) \in DDState /\ level \in Nat /\ PeakOf(a) \in Int
         /\ After(a).st \in DDState
         /\ After(a).peak \in Peaks
         /\ Worst(worst[a], level) \in Levels \union {0}
<1>1. level \in Nat /\ level \in Levels /\ epPeak[a] \in Peaks /\ prevState[a] \in DDState \union {"none"}
      /\ worst[a] \in Levels \union {0}
  BY LevelsAssumption DEF TypeOK
<1>2. Before(a) \in DDState
  BY <1>1 DEF Before, DDState
<1>a. worst[a] \in Int /\ epPeak[a] \in Int
  <2>1. \A l \in Levels : l \in Int
    BY LevelsAssumption
  <2>2. worst[a] \in Levels \/ worst[a] = 0
    BY <1>1
  <2>3. epPeak[a] \in Levels \/ epPeak[a] = -1 \/ epPeak[a] = 0
    BY <1>1 DEF Peaks
  <2>4. 0 \in Int /\ -1 \in Int
    OBVIOUS
  <2>5. QED
    BY <2>1, <2>2, <2>3, <2>4, Zenon
<1>3. PeakOf(a) \in Int /\ PeakOf(a) \in Peaks
  <2>1. PeakOf(a) = level \/ PeakOf(a) = epPeak[a]
    BY DEF PeakOf
  <2>2. QED
    BY <1>1, <1>a, <2>1 DEF Peaks
<1>4. After(a).st \in DDState /\ After(a).peak \in {0, PeakOf(a), level}
  BY <1>1, <1>2, <1>3, RecoveryCases DEF After
<1>5. After(a).peak \in Peaks
  BY <1>1, <1>3, <1>4 DEF Peaks
<1>6. Worst(worst[a], level) \in Levels \union {0}
  <2>1. Max2(worst[a], level) \in {worst[a], level}
    BY <1>1, <1>a, MaxFacts
  <2>2. Max2(worst[a], level) \in Levels \union {0}
    BY <1>1, <2>1
  <2>3. QED
    BY <1>1, <2>2, Zenon DEF Worst
<1>7. /\ ddState' = After(a).st
      /\ prevState' = [prevState EXCEPT ![a] = After(a).st]
      /\ epPeak' = [epPeak EXCEPT ![a] = After(a).peak]
      /\ worst' = [worst EXCEPT ![a] = Worst(worst[a], level)]
      /\ override' = IF Before(a) = "limit" /\ After(a).st # "limit" THEN override \ {a} ELSE override
      /\ shadow' = IF Before(a) = "limit" /\ After(a).st # "limit" THEN shadow \ {a} ELSE shadow
      /\ events' = IF Worst(worst[a], level) = 0 THEN [events EXCEPT ![a] = 0] ELSE events
  BY Zenon DEF Rolling, After, Before, PeakOf
<1>8. QED
  BY <1>1, <1>2, <1>3, <1>4, <1>5, <1>6, <1>7

-----------------------------------------------------------------------------
(* Type correctness *)

LEMMA RecalculateType ==
  ASSUME TypeOK, Recalculate
  PROVE  /\ prevState' \in [Accounts -> DDState \union {"none"}]
         /\ epPeak' \in [Accounts -> Peaks]
         /\ ddState' \in Shown
         /\ override' \subseteq Accounts /\ shadow' \subseteq Accounts
         /\ worst' \in [Accounts -> Levels \union {0}]
         /\ events' \in [Accounts -> 0..2]
         /\ fallback' \in {"yes", "no"}
         /\ owner' \in Accounts
<1>1. active \in Accounts
  BY DEF TypeOK
<1>2. CASE Rolling(active)
  <2>1. /\ ddState' = After(active).st /\ After(active).st \in DDState
        /\ prevState' = [prevState EXCEPT ![active] = After(active).st]
        /\ epPeak' = [epPeak EXCEPT ![active] = After(active).peak] /\ After(active).peak \in Peaks
        /\ worst' = [worst EXCEPT ![active] = Worst(worst[active], level)]
        /\ Worst(worst[active], level) \in Levels \union {0}
        /\ override' = override \ {active} \/ override' = override
        /\ shadow' = shadow \ {active} \/ shadow' = shadow
        /\ events' = [events EXCEPT ![active] = 0] \/ events' = events
    BY <1>1, <1>2, RollingEffect
  <2>2. events' \in [Accounts -> 0..2]
    BY <2>1 DEF TypeOK
  <2>3. override' \subseteq Accounts /\ shadow' \subseteq Accounts
    BY <2>1 DEF TypeOK
  <2>4. prevState' \in [Accounts -> DDState \union {"none"}] /\ epPeak' \in [Accounts -> Peaks]
        /\ worst' \in [Accounts -> Levels \union {0}]
    BY <2>1 DEF TypeOK
  <2>5. ddState' \in Shown
    BY <2>1 DEF Shown
  <2>6. QED
    BY <1>1, <2>2, <2>3, <2>4, <2>5 DEF Recalculate
<1>3. CASE ~Rolling(active)
  BY <1>1, <1>3 DEF Recalculate, TypeOK, dicts, ghosts, Shown, DDState
<1>4. QED
  BY <1>2, <1>3

LEMMA TypeInit == Init => TypeOK
  BY AccountsAssumption DEF Init, TypeOK, Shown, DDState, Peaks, Idle

LEMMA TypeStep == TypeOK /\ [Next]_vars => TypeOK'
<1> SUFFICES ASSUME TypeOK, [Next]_vars PROVE TypeOK'
  OBVIOUS
<1> USE DEF dicts, settings, ghosts
<1>1. CASE Recalc
  BY <1>1, RecalculateType DEF Recalc, TypeOK
<1>2. CASE Market
  BY <1>2 DEF Market, TypeOK
<1>3. CASE EvaluateReady
  <2>1. events' \in [Accounts -> 0..2]
    BY <1>3 DEF EvaluateReady, TypeOK
  <2>2. QED
    BY <1>3, <2>1 DEF EvaluateReady, TypeOK
<1>4. CASE ToggleMode
  BY <1>4 DEF ToggleMode, TypeOK
<1>5. CASE SaveSnapshot
  BY <1>5 DEF SaveSnapshot, TypeOK, Shown
<1>6. CASE Backfill
  BY <1>6 DEF Backfill, TypeOK, Shown
<1>7. CASE StartupDone
  BY <1>7 DEF StartupDone, TypeOK
<1>8. CASE SettingsFlip
  BY <1>8 DEF SettingsFlip, TypeOK
<1>9. CASE Restart
  BY <1>9, AccountsAssumption DEF Restart, ClearMemory, Restore, TypeOK, Shown, DDState, Idle, Peaks
<1>10. CASE SwitchReset
  BY <1>10 DEF SwitchReset, ClearMemory, TypeOK, Shown, DDState, Peaks
<1>11. CASE SwitchRestore
  BY <1>11 DEF SwitchRestore, Restore, TypeOK, Shown, DDState
<1>12. CASE Reinit
  BY <1>12, RecalculateType DEF Reinit, TypeOK
<1>13. CASE SwitchDone
  BY <1>13, AccountsAssumption DEF SwitchDone, TypeOK, Idle
<1>14. CASE SwitchFails
  BY <1>14 DEF SwitchFails, ClearMemory, TypeOK, Shown, DDState, Peaks
<1>15. CASE RollbackFails
  BY <1>15, AccountsAssumption DEF RollbackFails, TypeOK, Idle
<1>16. ASSUME NEW a \in Accounts, Override(a) PROVE TypeOK'
  BY <1>16 DEF Override, TypeOK
<1>17. ASSUME NEW a \in Accounts, SwitchActivate(a) PROVE TypeOK'
  BY <1>17 DEF SwitchActivate, TypeOK
<1>18. ASSUME NEW a \in Accounts, Hello(a) PROVE TypeOK'
  BY <1>18 DEF Hello, TypeOK
<1>19. CASE UNCHANGED vars
  BY <1>19 DEF vars, TypeOK
<1>20. QED
  BY <1>1, <1>2, <1>3, <1>4, <1>5, <1>6, <1>7, <1>8, <1>9, <1>10, <1>11, <1>12, <1>13,
     <1>14, <1>15, <1>16, <1>17, <1>18, <1>19 DEF Next

(* Every variable of the gate stays in its domain, whatever the disturbances. *)
THEOREM TypeCorrect == Spec => []TypeOK
  BY TypeInit, TypeStep, PTL DEF Spec

-----------------------------------------------------------------------------
(* The remembered limit *)

(* A recalculation that replaces a remembered limit saw a recovered level. *)
LEMMA RecalculateSticky ==
  ASSUME TypeOK, Recalculate, NEW a \in Accounts,
         prevState[a] = "limit", prevState'[a] # "limit"
  PROVE  Recovers(level, Max2(epPeak[a], level)) \/ epPeak[a] = -1
<1>1. active \in Accounts /\ prevState \in [Accounts -> DDState \union {"none"}]
  BY DEF TypeOK
<1>2. Rolling(active) /\ active = a
  <2>1. Rolling(active)
    BY DEF Recalculate, dicts
  <2>2. prevState' = [prevState EXCEPT ![active] = After(active).st]
    BY <1>1, <2>1, RollingEffect
  <2>3. QED
    BY <1>1, <2>1, <2>2
<1>3. /\ prevState' = [prevState EXCEPT ![a] = After(a).st]
      /\ Before(a) \in DDState /\ level \in Nat /\ PeakOf(a) \in Int
  BY <1>2, RollingEffect
<1>4. Before(a) = "limit" /\ After(a).st # "limit"
  BY <1>1, <1>3 DEF Before
<1>5. CASE epPeak[a] # -1
  <2>1. PeakOf(a) = epPeak[a]
    BY <1>5 DEF PeakOf
  <2>2. CASE Max2(PeakOf(a), level) > 0
    BY <1>3, <1>4, <2>1, <2>2, RecoveryCases DEF After
  <2>3. CASE ~(Max2(PeakOf(a), level) > 0)
    <3>1. After(a).st = FromDrawdown(level)
      BY <1>3, <2>3, RecoveryCases DEF After
    <3>2. Max2(PeakOf(a), level) \in Int /\ Max2(PeakOf(a), level) >= level
      BY <1>3, MaxFacts
    <3>3. Max2(PeakOf(a), level) = 0 /\ level = 0
      BY <1>3, <2>3, <3>2
    <3>4. QED
      BY <2>1, <3>3, RecoversAtZero
  <2>4. QED
    BY <2>2, <2>3
<1>6. QED
  BY <1>5

(* An account with a remembered limit has a remembered peak. *)
PeakKept == \A a \in Accounts : prevState[a] = "limit" => epPeak[a] # -1

LEMMA PeakKeptStep == TypeOK /\ PeakKept /\ [Next]_vars => PeakKept'
<1> SUFFICES ASSUME TypeOK, PeakKept, [Next]_vars PROVE PeakKept'
  OBVIOUS
<1>1. ASSUME prevState' = prevState, epPeak' = epPeak PROVE PeakKept'
  BY <1>1 DEF PeakKept
<1>2. ASSUME ClearMemory PROVE PeakKept'
  BY <1>2 DEF ClearMemory, PeakKept
<1>3. ASSUME Recalculate PROVE PeakKept'
  <2>1. CASE Rolling(active)
    <3>1. active \in Accounts /\ prevState \in [Accounts -> DDState \union {"none"}]
          /\ epPeak \in [Accounts -> Peaks]
      BY DEF TypeOK
    <3>2. /\ prevState' = [prevState EXCEPT ![active] = After(active).st]
          /\ epPeak' = [epPeak EXCEPT ![active] = After(active).peak]
          /\ Before(active) \in DDState /\ level \in Nat /\ PeakOf(active) \in Int
      BY <2>1, <3>1, RollingEffect
    <3>3. After(active).peak # -1
      <4>1. PeakOf(active) # -1
        <5>1. level # -1
          BY <3>2
        <5>2. QED
          BY <5>1 DEF PeakOf
      <4>2. After(active).peak \in {0, PeakOf(active), level}
        BY <3>2, RecoveryCases DEF After
      <4>3. QED
        BY <3>2, <4>1, <4>2
    <3>4. QED
      BY <3>1, <3>2, <3>3 DEF PeakKept
  <2>2. CASE ~Rolling(active)
    BY <1>1, <1>3, <2>2 DEF Recalculate, dicts
  <2>3. QED
    BY <2>1, <2>2
<1>4. CASE Recalc \/ Reinit
  BY <1>3, <1>4 DEF Recalc, Reinit
<1>5. CASE Restart \/ SwitchReset \/ SwitchFails
  BY <1>2, <1>5 DEF Restart, SwitchReset, SwitchFails
<1>6. CASE Market \/ EvaluateReady \/ ToggleMode \/ SaveSnapshot \/ Backfill \/ StartupDone
        \/ SettingsFlip \/ SwitchRestore \/ SwitchDone \/ RollbackFails
  BY <1>1, <1>6 DEF Market, EvaluateReady, ToggleMode, SaveSnapshot, Backfill, StartupDone,
     SettingsFlip, SwitchRestore, SwitchDone, RollbackFails, dicts
<1>7. CASE \E a \in Accounts : Override(a) \/ SwitchActivate(a) \/ Hello(a)
  BY <1>1, <1>7 DEF Override, SwitchActivate, Hello, dicts
<1>8. CASE UNCHANGED vars
  BY <1>1, <1>8 DEF vars, dicts
<1>9. QED
  BY <1>4, <1>5, <1>6, <1>7, <1>8 DEF Next

(* One step of the sticky limit. *)
LEMMA StickyStep ==
  ASSUME TypeOK, PeakKept, [Next]_vars, NEW a \in Accounts,
         prevState[a] = "limit", prevState'[a] \notin {"limit", "none"}
  PROVE  Recovers(level, Max2(epPeak[a], level))
<1>1. prevState' # prevState
  OBVIOUS
<1>2. Recalculate \/ ClearMemory
  <2>1. CASE Recalc \/ Reinit
    BY <2>1 DEF Recalc, Reinit
  <2>2. CASE Restart \/ SwitchReset \/ SwitchFails
    BY <2>2 DEF Restart, SwitchReset, SwitchFails
  <2>3. CASE Market \/ EvaluateReady \/ ToggleMode \/ SaveSnapshot \/ Backfill \/ StartupDone
          \/ SettingsFlip \/ SwitchRestore \/ SwitchDone \/ RollbackFails
    BY <1>1, <2>3 DEF Market, EvaluateReady, ToggleMode, SaveSnapshot, Backfill, StartupDone,
       SettingsFlip, SwitchRestore, SwitchDone, RollbackFails, dicts
  <2>4. CASE \E b \in Accounts : Override(b) \/ SwitchActivate(b) \/ Hello(b)
    BY <1>1, <2>4 DEF Override, SwitchActivate, Hello, dicts
  <2>5. CASE UNCHANGED vars
    BY <1>1, <2>5 DEF vars, dicts
  <2>6. QED
    BY <2>1, <2>2, <2>3, <2>4, <2>5 DEF Next
<1>3. ~ClearMemory
  BY DEF ClearMemory
<1>4. QED
  BY <1>2, <1>3, RecalculateSticky DEF PeakKept

(* Under every disturbance, a remembered limit gives way only to recovery or to *)
(* the loss of the memory itself.                                               *)
THEOREM LimitIsSticky == Spec => StickyLimit
<1>1. Init => PeakKept
  BY DEF Init, PeakKept
<1>2. Spec => [](TypeOK /\ PeakKept)
  BY <1>1, TypeInit, TypeStep, PeakKeptStep, PTL DEF Spec
<1>3. TypeOK /\ PeakKept /\ [Next]_vars
        => [\A a \in Accounts : prevState[a] = "limit" /\ prevState'[a] \notin {"limit", "none"}
              => Recovers(level, Max2(epPeak[a], level))]_vars
  BY StickyStep
<1>4. QED
  BY <1>2, <1>3, PTL DEF Spec, StickyLimit

-----------------------------------------------------------------------------
(* The memory of an episode, when nothing clears it *)

(* EngineRemembers, with the bound on the peak of an account that is not in its *)
(* limit: the peak a new episode starts from is the level that started it.      *)
Memory ==
  \A a \in Accounts :
    /\ worst[a] > 0 <=> prevState[a] = "limit"
    /\ worst[a] > 0 => epPeak[a] = worst[a]
    /\ prevState[a] # "limit" => epPeak[a] < Limit

LEMMA MemoryInit == Init => Memory
<1> SUFFICES ASSUME Init, NEW a \in Accounts
             PROVE  /\ worst[a] > 0 <=> prevState[a] = "limit"
                    /\ worst[a] > 0 => epPeak[a] = worst[a]
                    /\ prevState[a] # "limit" => epPeak[a] < Limit
  BY DEF Memory
<1>1. worst[a] = 0 /\ prevState[a] = "none" /\ epPeak[a] = -1
  BY DEF Init
<1>2. -1 < Limit
  BY LevelsAssumption
<1>3. ~(0 > 0) /\ "none" # "limit"
  OBVIOUS
<1>4. QED
  BY <1>1, <1>2, <1>3

(* What a rolling recalculation makes of one account's memory. *)
LEMMA RollingMemory ==
  ASSUME TypeOK, Memory, NEW a \in Accounts, Rolling(a)
  PROVE  /\ Worst(worst[a], level) > 0 <=> After(a).st = "limit"
         /\ Worst(worst[a], level) > 0 => After(a).peak = Worst(worst[a], level)
         /\ After(a).st # "limit" => After(a).peak < Limit
<1> DEFINE p == Max2(PeakOf(a), level)
<1>1. /\ Before(a) \in DDState /\ level \in Nat /\ PeakOf(a) \in Int
  BY RollingEffect
<1>2. /\ p \in Int /\ p >= level /\ p >= PeakOf(a) /\ p \in {PeakOf(a), level}
  BY <1>1, MaxFacts
<1>3. Limit \in Nat /\ 0 < Limit
  BY LevelsAssumption
<1>4. FromDrawdown(level) = "limit" <=> level >= Limit
  BY <1>1, FromDrawdownType
<1>5. worst[a] \in Int /\ epPeak[a] \in Int /\ worst[a] >= 0
  <2>1. \A l \in Levels : l \in Nat
    BY LevelsAssumption
  <2>2. worst[a] \in Levels \/ worst[a] = 0
    BY DEF TypeOK
  <2>3. epPeak[a] \in Levels \/ epPeak[a] = -1 \/ epPeak[a] = 0
    BY DEF TypeOK, Peaks
  <2>4. worst[a] \in Nat
    BY <2>1, <2>2
  <2>5. epPeak[a] \in Nat \/ epPeak[a] = -1
    BY <2>1, <2>3
  <2>6. QED
    BY <2>4, <2>5
<1>6. CASE prevState[a] = "limit"
  <2>1. worst[a] > 0 /\ epPeak[a] = worst[a]
    BY <1>6 DEF Memory
  <2>2. Before(a) = "limit" /\ PeakOf(a) = worst[a]
    BY <1>5, <1>6, <2>1 DEF Before, PeakOf
  <2>3. p > 0 /\ p = Max2(worst[a], level)
    BY <1>2, <1>5, <2>1, <2>2
  <2>4. CASE Recovers(level, p)
    <3>1. After(a).st = "ok" /\ After(a).peak = 0
      BY <1>1, <2>2, <2>3, <2>4, RecoveryCases DEF After
    <3>2. Worst(worst[a], level) = 0
      BY <1>5, <2>1, <2>3, <2>4 DEF Worst
    <3>3. QED
      BY <1>3, <3>1, <3>2
  <2>5. CASE ~Recovers(level, p)
    <3>1. After(a).st = "limit" /\ After(a).peak = p
      BY <1>1, <2>2, <2>3, <2>5, RecoveryCases DEF After
    <3>2. Worst(worst[a], level) = p
      BY <1>5, <2>1, <2>3, <2>5 DEF Worst
    <3>3. QED
      BY <2>3, <3>1, <3>2
  <2>6. QED
    BY <2>4, <2>5
<1>7. CASE prevState[a] # "limit"
  <2>1. worst[a] = 0 /\ epPeak[a] < Limit
    BY <1>5, <1>7 DEF Memory
  <2>2. Before(a) # "limit"
    BY <1>7 DEF Before
  <2>3. /\ After(a).st = FromDrawdown(level)
        /\ After(a).st = "ok" => After(a).peak = 0
        /\ After(a).st # "ok" => After(a).peak = p
    BY <1>1, <2>2, RecoveryCases DEF After
  <2>4. PeakOf(a) = level \/ PeakOf(a) < Limit
    BY <2>1 DEF PeakOf
  <2>5. CASE level >= Limit
    <3>1. Worst(worst[a], level) = level
      BY <2>1, <2>5 DEF Worst
    <3>2. p = level
      BY <1>1, <1>2, <1>3, <2>4, <2>5
    <3>3. After(a).st = "limit" /\ After(a).peak = level
      BY <1>4, <2>3, <2>5, <3>2
    <3>4. level > 0
      BY <1>1, <1>3, <2>5
    <3>5. QED
      BY <3>1, <3>3, <3>4
  <2>6. CASE ~(level >= Limit)
    <3>1. Worst(worst[a], level) = 0
      BY <2>1, <2>6 DEF Worst
    <3>2. p < Limit
      BY <1>1, <1>2, <1>3, <2>4, <2>6
    <3>3. After(a).st # "limit" /\ After(a).peak < Limit
      BY <1>3, <1>4, <2>3, <2>6, <3>2
    <3>4. QED
      BY <3>1, <3>3
  <2>7. QED
    BY <2>5, <2>6
<1>8. QED
  BY <1>6, <1>7

LEMMA RecalculateMemory == TypeOK /\ Memory /\ Recalculate => Memory'
<1> SUFFICES ASSUME TypeOK, Memory, Recalculate PROVE Memory'
  OBVIOUS
<1>1. active \in Accounts /\ prevState \in [Accounts -> DDState \union {"none"}]
      /\ epPeak \in [Accounts -> Peaks] /\ worst \in [Accounts -> Levels \union {0}]
  BY DEF TypeOK
<1>2. CASE Rolling(active)
  <2>1. /\ prevState' = [prevState EXCEPT ![active] = After(active).st]
        /\ epPeak' = [epPeak EXCEPT ![active] = After(active).peak]
        /\ worst' = [worst EXCEPT ![active] = Worst(worst[active], level)]
    BY <1>1, <1>2, RollingEffect
  <2>2. /\ Worst(worst[active], level) > 0 <=> After(active).st = "limit"
        /\ Worst(worst[active], level) > 0 => After(active).peak = Worst(worst[active], level)
        /\ After(active).st # "limit" => After(active).peak < Limit
    BY <1>1, <1>2, RollingMemory
  <2>3. QED
    BY <1>1, <2>1, <2>2 DEF Memory
<1>3. CASE ~Rolling(active)
  BY <1>3 DEF Recalculate, Memory, dicts, ghosts
<1>4. QED
  BY <1>2, <1>3

(* Nothing is under way that clears memory: no switch, no restart. *)
NoSwitch == switch = Idle

LEMMA MemoryStep ==
  ASSUME Faults \cap {"switch", "restart"} = {}
  PROVE  TypeOK /\ Memory /\ NoSwitch /\ [Next]_vars => Memory' /\ NoSwitch'
<1> SUFFICES ASSUME TypeOK, Memory, NoSwitch, [Next]_vars PROVE Memory' /\ NoSwitch'
  OBVIOUS
<1>0. switch.at = "idle" /\ "switch" \notin Faults /\ "restart" \notin Faults
  BY DEF NoSwitch, Idle
<1>1. ASSUME prevState' = prevState, epPeak' = epPeak, worst' = worst PROVE Memory'
  BY <1>1 DEF Memory
<1>2. CASE Recalc
  BY <1>2, RecalculateMemory DEF Recalc, NoSwitch
<1>3. CASE Market \/ EvaluateReady \/ ToggleMode \/ SaveSnapshot \/ Backfill \/ StartupDone
        \/ SettingsFlip
  BY <1>1, <1>3 DEF Market, EvaluateReady, ToggleMode, SaveSnapshot, Backfill, StartupDone,
     SettingsFlip, dicts, ghosts, NoSwitch
<1>4. ASSUME NEW a \in Accounts, Override(a) \/ Hello(a) PROVE Memory' /\ NoSwitch'
  BY <1>1, <1>4 DEF Override, Hello, dicts, ghosts, NoSwitch
<1>5. ~(Restart \/ SwitchReset)
  BY <1>0 DEF Restart, SwitchReset
<1>6. ~(SwitchRestore \/ Reinit \/ SwitchDone \/ SwitchFails \/ RollbackFails)
  BY <1>0 DEF SwitchRestore, Reinit, SwitchDone, SwitchFails, RollbackFails
<1>7. \A a \in Accounts : ~SwitchActivate(a)
  BY <1>0 DEF SwitchActivate
<1>8. CASE UNCHANGED vars
  BY <1>1, <1>8 DEF vars, dicts, ghosts, NoSwitch
<1>9. QED
  BY <1>2, <1>3, <1>4, <1>5, <1>6, <1>7, <1>8 DEF Next

(* As long as the process lives and no account switch runs, and however often   *)
(* the settings cannot be read, the engine remembers every limit episode and its *)
(* worst drawdown.                                                               *)
THEOREM MemoryIsHistory ==
  ASSUME Faults \cap {"switch", "restart"} = {}
  PROVE  Spec => []EngineRemembers
<1>1. Init => NoSwitch
  BY DEF Init, NoSwitch
<1>2. TypeOK /\ Memory /\ NoSwitch /\ [Next]_vars => Memory' /\ NoSwitch'
  BY MemoryStep
<1>3. Memory => EngineRemembers
  BY DEF Memory, EngineRemembers
<1>4. QED
  BY <1>1, <1>2, <1>3, TypeInit, TypeStep, MemoryInit, PTL DEF Spec

(* An override goes with the episode it was given in. *)
LEMMA OverrideStep ==
  ASSUME TypeOK, Memory, [Next]_vars, NEW a \in Accounts,
         worst[a] > 0, worst'[a] = 0
  PROVE  a \notin override'
<1>1. active \in Accounts /\ worst \in [Accounts -> Levels \union {0}]
  BY DEF TypeOK
<1>2. worst' # worst
  OBVIOUS
<1>3. Recalculate
  <2>1. CASE Recalc \/ Reinit
    BY <2>1 DEF Recalc, Reinit
  <2>2. CASE Restart \/ SwitchReset \/ SwitchFails
    BY <1>2, <2>2 DEF Restart, SwitchReset, SwitchFails, ghosts
  <2>3. CASE Market \/ EvaluateReady \/ ToggleMode \/ SaveSnapshot \/ Backfill \/ StartupDone
          \/ SettingsFlip \/ SwitchRestore \/ SwitchDone \/ RollbackFails
    BY <1>2, <2>3 DEF Market, EvaluateReady, ToggleMode, SaveSnapshot, Backfill, StartupDone,
       SettingsFlip, SwitchRestore, SwitchDone, RollbackFails, ghosts
  <2>4. CASE \E b \in Accounts : Override(b) \/ SwitchActivate(b) \/ Hello(b)
    BY <1>2, <2>4 DEF Override, SwitchActivate, Hello, ghosts
  <2>5. CASE UNCHANGED vars
    BY <1>2, <2>5 DEF vars, ghosts
  <2>6. QED
    BY <2>1, <2>2, <2>3, <2>4, <2>5 DEF Next
<1>4. Rolling(active)
  BY <1>2, <1>3 DEF Recalculate
<1>5. /\ worst' = [worst EXCEPT ![active] = Worst(worst[active], level)]
      /\ Before(active) = "limit" /\ After(active).st # "limit" => override' = override \ {active}
  BY <1>1, <1>4, RollingEffect
<1>6. a = active /\ Worst(worst[a], level) = 0
  BY <1>1, <1>2, <1>5
<1>7. Before(a) = "limit"
  BY DEF Memory, Before
<1>8. After(a).st # "limit"
  BY <1>4, <1>6, RollingMemory
<1>9. QED
  BY <1>5, <1>6, <1>7, <1>8

(* As long as the process lives and no account switch runs, an override ends      *)
(* with the limit episode it was given in.                                        *)
THEOREM OverrideEndsWithEpisode ==
  ASSUME Faults \cap {"switch", "restart"} = {}
  PROVE  Spec => OverrideEnds
<1>1. Init => NoSwitch
  BY DEF Init, NoSwitch
<1>2. TypeOK /\ Memory /\ NoSwitch /\ [Next]_vars => Memory' /\ NoSwitch'
  BY MemoryStep
<1>3. Spec => [](TypeOK /\ Memory)
  BY <1>1, <1>2, TypeInit, TypeStep, MemoryInit, PTL DEF Spec
<1>4. TypeOK /\ Memory /\ [Next]_vars
        => [\A a \in Accounts : worst[a] > 0 /\ worst'[a] = 0 => a \notin override']_vars
  BY OverrideStep
<1>5. QED
  BY <1>3, <1>4, PTL DEF Spec, OverrideEnds

-----------------------------------------------------------------------------
(* One shadow event an episode *)

(* An episode whose event was logged is in the dedup set, and it leaves the set *)
(* only with the episode.                                                       *)
Logged == \A a \in Accounts : events[a] = 0 \/ (events[a] = 1 /\ a \in shadow)

LEMMA RollingLogged ==
  ASSUME TypeOK, Memory, Logged, NEW a \in Accounts, Rolling(a)
  PROVE  Logged'
<1>1. events \in [Accounts -> 0..2]
  BY DEF TypeOK
<1>2. events' = IF Worst(worst[a], level) = 0 THEN [events EXCEPT ![a] = 0] ELSE events
  BY Zenon DEF Rolling
<1>3. /\ Before(a) = "limit" /\ After(a).st # "limit" => shadow' = shadow \ {a}
      /\ ~(Before(a) = "limit" /\ After(a).st # "limit") => shadow' = shadow
      /\ Worst(worst[a], level) \in Levels \union {0}
  BY RollingEffect
<1>4. Worst(worst[a], level) > 0 <=> After(a).st = "limit"
  BY RollingMemory
<1>5. CASE Worst(worst[a], level) = 0
  <2>1. shadow' = shadow \ {a} \/ shadow' = shadow
    BY <1>3
  <2>2. events' = [events EXCEPT ![a] = 0]
    BY <1>2, <1>5
  <2>3. QED
    BY <1>1, <2>1, <2>2 DEF Logged
<1>6. CASE Worst(worst[a], level) # 0
  <2>1. Worst(worst[a], level) \in Nat
    <3>1. \A l \in Levels : l \in Nat
      BY LevelsAssumption
    <3>2. QED
      BY <1>3, <3>1
  <2>2. After(a).st = "limit"
    BY <1>4, <1>6, <2>1
  <2>3. shadow' = shadow /\ events' = events
    BY <1>2, <1>3, <1>6, <2>2
  <2>4. QED
    BY <2>3 DEF Logged
<1>7. QED
  BY <1>5, <1>6

LEMMA LoggedStep ==
  ASSUME Faults \cap {"switch", "restart"} = {}
  PROVE  TypeOK /\ Memory /\ NoSwitch /\ Logged /\ [Next]_vars => Logged'
<1> SUFFICES ASSUME TypeOK, Memory, NoSwitch, Logged, [Next]_vars PROVE Logged'
  OBVIOUS
<1>0. switch.at = "idle" /\ "switch" \notin Faults /\ "restart" \notin Faults /\ active \in Accounts
  BY DEF NoSwitch, Idle, TypeOK
<1>1. ASSUME shadow' = shadow, events' = events PROVE Logged'
  BY <1>1 DEF Logged
<1>2. CASE Recalc
  <2>1. CASE Rolling(active)
    BY <1>0, <2>1, RollingLogged
  <2>2. CASE ~Rolling(active)
    BY <1>1, <1>2, <2>2 DEF Recalc, Recalculate, dicts
  <2>3. QED
    BY <2>1, <2>2
<1>3. CASE EvaluateReady
  <2>1. /\ active \notin shadow /\ shadow' = shadow \union {active}
        /\ events' = [events EXCEPT ![active] = IF events[active] < 2 THEN events[active] + 1
                                               ELSE events[active]]
    BY <1>3 DEF EvaluateReady
  <2>2. events[active] = 0 /\ events \in [Accounts -> 0..2]
    BY <1>0, <2>1 DEF Logged, TypeOK
  <2>3. events'[active] = 1 /\ active \in shadow'
    BY <1>0, <2>1, <2>2
  <2>4. ASSUME NEW a \in Accounts, a # active
        PROVE  events'[a] = events[a] /\ (a \in shadow' <=> a \in shadow)
    BY <2>1, <2>2, <2>4
  <2>5. QED
    BY <2>3, <2>4 DEF Logged
<1>4. CASE Market \/ ToggleMode \/ SaveSnapshot \/ Backfill \/ StartupDone \/ SettingsFlip
  BY <1>1, <1>4 DEF Market, ToggleMode, SaveSnapshot, Backfill, StartupDone, SettingsFlip,
     dicts, ghosts
<1>5. ASSUME NEW a \in Accounts, Override(a) \/ Hello(a) PROVE Logged'
  BY <1>1, <1>5 DEF Override, Hello, dicts, ghosts
<1>6. ~(Restart \/ SwitchReset)
  BY <1>0 DEF Restart, SwitchReset
<1>7. ~(SwitchRestore \/ Reinit \/ SwitchDone \/ SwitchFails \/ RollbackFails)
  BY <1>0 DEF SwitchRestore, Reinit, SwitchDone, SwitchFails, RollbackFails
<1>8. \A a \in Accounts : ~SwitchActivate(a)
  BY <1>0 DEF SwitchActivate
<1>9. CASE UNCHANGED vars
  BY <1>1, <1>9 DEF vars, dicts, ghosts
<1>10. QED
  BY <1>2, <1>3, <1>4, <1>5, <1>6, <1>7, <1>8, <1>9 DEF Next

(* As long as the process lives and no account switch runs, a limit episode logs *)
(* one shadow event however often readiness is evaluated, settings errors or not. *)
THEOREM OneShadowAnEpisode ==
  ASSUME Faults \cap {"switch", "restart"} = {}
  PROVE  Spec => []ShadowOnce
<1>1. Init => NoSwitch /\ Logged
  BY DEF Init, NoSwitch, Logged
<1>2. TypeOK /\ Memory /\ NoSwitch /\ [Next]_vars => Memory' /\ NoSwitch'
  BY MemoryStep
<1>3. TypeOK /\ Memory /\ NoSwitch /\ Logged /\ [Next]_vars => Logged'
  BY LoggedStep
<1>4. Logged => ShadowOnce
  <2>1. ASSUME Logged, NEW a \in Accounts PROVE events[a] <= 1
    <3>1. events[a] = 0 \/ events[a] = 1
      BY <2>1 DEF Logged
    <3>2. QED
      BY <3>1
  <2>2. QED
    BY <2>1 DEF ShadowOnce
<1>5. QED
  BY <1>1, <1>2, <1>3, <1>4, TypeInit, TypeStep, MemoryInit, PTL DEF Spec

-----------------------------------------------------------------------------
(* The gate in one session, settings errors included *)

(* What is shown is what is remembered unless it comes from the legacy ratios,   *)
(* and an account without thresholds has no memory to lose.                      *)
Agreement ==
  /\ fallback = "no" => (ddState = "limit" <=> prevState[active] = "limit")
  /\ active \notin Configured => prevState[active] = "none"

Session == NoSwitch /\ Memory /\ Agreement

LEMMA SessionInit == Init => Session
<1>1. Init => NoSwitch /\ Agreement
  BY AccountsAssumption DEF Init, NoSwitch, Agreement
<1>2. QED
  BY <1>1, MemoryInit DEF Session

LEMMA RecalculateAgrees ==
  ASSUME TypeOK, Agreement, Recalculate, active' = active
  PROVE  Agreement'
<1>1. active \in Accounts /\ prevState \in [Accounts -> DDState \union {"none"}]
  BY DEF TypeOK
<1>2. CASE Rolling(active) /\ active \in Configured
  <2>1. /\ ddState' = After(active).st
        /\ prevState' = [prevState EXCEPT ![active] = After(active).st]
    BY <1>1, <1>2, RollingEffect
  <2>2. QED
    BY <1>1, <1>2, <2>1 DEF Agreement
<1>3. CASE active \notin Configured /\ ddState' = "ok" /\ UNCHANGED dicts
  BY <1>3 DEF Agreement, dicts
<1>4. CASE fallback' = "yes" /\ UNCHANGED dicts
  BY <1>4 DEF Agreement, dicts
<1>5. QED
  BY <1>2, <1>3, <1>4 DEF Recalculate

LEMMA SessionStep ==
  ASSUME Faults \subseteq {"settings"}
  PROVE  TypeOK /\ Session /\ [Next]_vars => Session'
<1> SUFFICES ASSUME TypeOK, Session, [Next]_vars PROVE Session'
  OBVIOUS
<1>0. NoSwitch /\ Memory /\ Agreement /\ switch.at = "idle"
  BY DEF Session, NoSwitch, Idle
<1>1. Memory' /\ NoSwitch'
  <2>1. Faults \cap {"switch", "restart"} = {}
    OBVIOUS
  <2>2. QED
    BY <1>0, <2>1, MemoryStep
<1>2. CASE Recalc
  BY <1>0, <1>1, <1>2, RecalculateAgrees DEF Recalc, Session
<1>3. CASE Market \/ EvaluateReady \/ ToggleMode \/ SaveSnapshot \/ Backfill \/ StartupDone
        \/ SettingsFlip
  BY <1>0, <1>1, <1>3 DEF Market, EvaluateReady, ToggleMode, SaveSnapshot, Backfill, StartupDone,
     SettingsFlip, dicts, ghosts, Session, Agreement
<1>4. ASSUME NEW a \in Accounts, Override(a) PROVE Session'
  BY <1>0, <1>1, <1>4 DEF Override, ghosts, Session, Agreement
<1>5. ~(Restart \/ SwitchReset) /\ \A a \in Accounts : ~Hello(a)
  BY DEF Restart, SwitchReset, Hello
<1>6. ~(SwitchRestore \/ Reinit \/ SwitchDone \/ SwitchFails \/ RollbackFails)
  BY <1>0 DEF SwitchRestore, Reinit, SwitchDone, SwitchFails, RollbackFails
<1>7. \A a \in Accounts : ~SwitchActivate(a)
  BY <1>0 DEF SwitchActivate
<1>8. CASE UNCHANGED vars
  BY <1>0, <1>1, <1>8 DEF vars, dicts, ghosts, Session, Agreement
<1>9. QED
  BY <1>2, <1>3, <1>4, <1>5, <1>6, <1>7, <1>8 DEF Next

LEMMA SessionBlocks == TypeOK /\ Session => BlockedByRule
<1> SUFFICES ASSUME TypeOK, Session, fallback = "no", worst[active] > 0,
                    active \notin override, readable = "no" \/ mode[active] = "enforced"
             PROVE  ~AllowsNewEntry(active)
  BY DEF BlockedByRule, BlockedUntilRecovered
<1>1. ddState = "limit"
  BY DEF Session, Memory, Agreement, TypeOK
<1>2. mode[active] # "advisory" \/ readable # "yes"
  OBVIOUS
<1>3. QED
  BY <1>1, <1>2 DEF AllowsNewEntry

(* In a session without restarts, switches or plugin hellos, an account that hit  *)
(* its limit is refused until it recovers or is overridden, as long as the last   *)
(* recalculation could read its settings.                                         *)
THEOREM LimitBlocks ==
  ASSUME Faults \subseteq {"settings"}
  PROVE  Spec => []BlockedByRule
<1>1. TypeOK /\ Session /\ [Next]_vars => Session'
  BY SessionStep
<1>2. QED
  BY <1>1, TypeInit, TypeStep, SessionInit, SessionBlocks, PTL DEF Spec

-----------------------------------------------------------------------------
(* Whose drawdown the gate judges *)

(* The registry moves only during a switch, which keeps the engine initialising *)
(* until a recalculation or a reset has been made for the account then active.  *)
Owned ==
  /\ switch.at # "idle" => initializing = "yes"
  /\ switch.at \in {"idle", "started", "back", "backStarted"} => owner \in {active, "rebound"}

LEMMA OwnedStep == TypeOK /\ Owned /\ [Next]_vars => Owned'
<1> SUFFICES ASSUME TypeOK, Owned, [Next]_vars PROVE Owned'
  OBVIOUS
<1>1. CASE Recalc \/ Reinit
  BY <1>1 DEF Recalc, Reinit, Recalculate, Owned
<1>2. CASE Market \/ EvaluateReady \/ ToggleMode \/ SaveSnapshot \/ Backfill \/ SettingsFlip
  BY <1>2 DEF Market, EvaluateReady, ToggleMode, SaveSnapshot, Backfill, SettingsFlip, Owned
<1>3. CASE StartupDone
  BY <1>3 DEF StartupDone, Owned
<1>4. CASE Restart \/ SwitchReset
  BY <1>4 DEF Restart, SwitchReset, Owned, Idle
<1>5. CASE SwitchRestore
  BY <1>5 DEF SwitchRestore, Owned
<1>6. CASE SwitchDone \/ SwitchFails \/ RollbackFails
  BY <1>6 DEF SwitchDone, SwitchFails, RollbackFails, Owned, Idle
<1>7. ASSUME NEW a \in Accounts, Override(a) \/ SwitchActivate(a) \/ Hello(a) PROVE Owned'
  BY <1>7 DEF Override, SwitchActivate, Hello, Owned
<1>8. CASE UNCHANGED vars
  BY <1>8 DEF vars, Owned
<1>9. QED
  BY <1>1, <1>2, <1>3, <1>4, <1>5, <1>6, <1>7, <1>8 DEF Next

(* Whatever fails and in whatever order, a gate that is open for business judges *)
(* the active account by its own state, a hello's rebinding apart.                *)
THEOREM OwnAccountJudged == Spec => []GateOwnState
<1>1. Init => Owned
  BY DEF Init, Owned, Idle
<1>2. Owned => GateOwnState
  BY DEF Owned, GateOwnState
<1>3. QED
  BY <1>1, <1>2, TypeInit, TypeStep, OwnedStep, PTL DEF Spec
=============================================================================
