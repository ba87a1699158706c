----------------------------- MODULE MCDispatch -----------------------------
(* Dispatch with two trades of one ticker.                                   *)
EXTENDS Dispatch

MCSymbolOf == [t \in Trades |-> "x"]
=============================================================================
