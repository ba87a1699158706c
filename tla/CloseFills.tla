------------------------------ MODULE CloseFills ------------------------------
(* The fills CloseRows is about: when the exchange makes them, their orders, *)
(* and which disturbances happen.                                            *)
EXTENDS Integers, FiniteSets

CONSTANTS N,          \* the number of fills
          At,         \* At[f]: the exchange's timestamp_ms of fill f
          OrderOf,    \* OrderOf[f]: the order fill f belongs to
          Faults      \* which disturbances this instance has

ASSUME FillsAssumption == N \in Nat /\ N >= 2
ASSUME TimesAssumption ==   \* the exchange's clock does not go back
  /\ At \in [1..N -> Nat] /\ \A f \in 1..N : At[f] # 0
  /\ \A f, g \in 1..N : f <= g => At[f] <= At[g]
ASSUME OrdersAssumption == OrderOf \in [2..N -> 2..N]
ASSUME FaultsAssumption ==
  Faults \subseteq {"late", "slow", "fail", "limited", "rest", "stream", "crash"}
=============================================================================
