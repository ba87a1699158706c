------------------------------ MODULE MCDDGate ------------------------------
(* Two accounts and a scale with a level below, at and above each threshold,   *)
(* and one so deep that its recovery level is the limit itself.                *)
EXTENDS DDGate

CONSTANTS home, other

MCAccounts == {home, other}
MCConfigured == {home}
MCFewLevels == {0, 3, 4}
MCLevels == {0, 2, 3, 4, 8}
=============================================================================
