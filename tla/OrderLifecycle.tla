---------------------------- MODULE OrderLifecycle ----------------------------
(***************************************************************************)
(* What the handling of a buyer order promises to clients that follow the  *)
(* workflow: each order walks the rental cycle, and the money is settled   *)
(* in one step, for all the orders that were not rejected, when no vendor  *)
(* has an order left to answer.  OrderFulfilment implements it with        *)
(* handlers that interleave at every await.                                *)
(***************************************************************************)
CONSTANT Orders

VARIABLES
    status,   \* status[o]: the status of order o
    money,    \* "held", "captured" or "canceled"
    charged   \* the orders the buyer paid for

(***************************************************************************)
(* The last three moves are the price of handleOverdueOrders: it loads the *)
(* received orders and saves them later, so an order that was sent back or *)
(* returned in between becomes overdue, and one being returned meanwhile   *)
(* is overdue for a moment.  Nothing else leaves the cycle.                *)
(***************************************************************************)
Moves == {<<"New order", "Sent">>, <<"New order", "Rejected">>,
          <<"Sent", "Received">>, <<"Received", "Sent back">>,
          <<"Received", "Overdue">>, <<"Overdue", "Sent back">>,
          <<"Sent back", "Returned">>,
          <<"Sent back", "Overdue">>, <<"Returned", "Overdue">>,
          <<"Overdue", "Returned">>}

Init ==
    /\ status = [o \in Orders |-> "New order"]
    /\ money = "held"
    /\ charged = {}

Move(o) ==
    /\ \E to \in {m[2] : m \in Moves} :
        /\ <<status[o], to>> \in Moves
        /\ status' = [status EXCEPT ![o] = to]
    /\ UNCHANGED <<money, charged>>

SettleMoney ==
    LET kept == {o \in Orders : status[o] # "Rejected"}
    IN /\ money = "held"
       /\ \A o \in Orders : status[o] # "New order"
       /\ charged' = kept
       /\ money' = IF kept = {} THEN "canceled" ELSE "captured"
       /\ UNCHANGED status

Next == SettleMoney \/ \E o \in Orders : Move(o)

Spec == Init /\ [][Next]_<<status, money, charged>>
=============================================================================
