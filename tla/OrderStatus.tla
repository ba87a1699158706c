---------------------------- MODULE OrderStatus ----------------------------
(* The order status machine of core/order_state.py.                          *)

Active   == {"new", "partially_filled"}
Terminal == {"filled", "canceled", "expired", "rejected"}
Status   == Active \cup Terminal

\* VALID_TRANSITIONS: where each status may go next; terminal ones nowhere.
ValidTransitions(s) ==
    CASE s = "new"              -> Status \ {"new"}
      [] s = "partially_filled" -> {"filled", "canceled"}
      [] OTHER                  -> {}

ValidateTransition(current, target) == target \in ValidTransitions(current)
=============================================================================
