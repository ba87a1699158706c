---------------------------- MODULE OrderMachine ----------------------------
(* What a table of orders promises if it only ever follows VALID_TRANSITIONS *)
(* of core/order_state.py: an order enters in any status, then moves along   *)
(* the machine, and a terminal status is final.                              *)
EXTENDS OrderStatus

CONSTANT Orders

VARIABLE status   \* the status of every order; "none" before it is known

Init == status = [o \in Orders |-> "none"]

Move(o, s) ==
    /\ status[o] = "none" \/ ValidateTransition(status[o], s)
    /\ status' = [status EXCEPT ![o] = s]

Next == \E o \in Orders, s \in Status : Move(o, s)

Spec == Init /\ [][Next]_status
=============================================================================
