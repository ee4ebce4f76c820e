----------------------------- MODULE OrderTypes -----------------------------
(***************************************************************************)
(* trader/order/OrderTypes.hpp: local order states, and the part of a      *)
(* Snapshot that decides anything: whether the exchange gave the order an  *)
(* id, its state and its executed quantity.                                *)
(***************************************************************************)
EXTENDS Naturals

CONSTANTS Ids,     \* client order ids
          SideOf,  \* the side each one is submitted with
          QtyOf,   \* the quantity each one is submitted with
          Absent   \* "no such order"

Sides == {"Buy", "Sell"}

States == {"Pending", "Acknowledged", "PartiallyFilled", "Filled",
           "Cancelling", "Cancelled", "Rejected"}

Snapshots == [exchange_order_id : BOOLEAN, state : States, executed : Nat]

\* Mutant: any executed quantity counts as a confirmed fill.
AnyFillConfirms(s) == s.exchange_order_id /\ s.executed > 0

exchange_confirmed_fill(s) ==
  s.state = "Filled" /\ s.exchange_order_id /\ s.executed > 0

\* Order statuses of the exchange ("OTHER": any the code does not name), and
\* OrderManager::map.
Statuses == {"NEW", "PARTIALLY_FILLED", "FILLED", "PENDING_CANCEL", "CANCELED", "EXPIRED",
             "REJECTED", "OTHER"}

map ==
  [status \in Statuses |->
     CASE status = "NEW" -> "Acknowledged"
       [] status = "PARTIALLY_FILLED" -> "PartiallyFilled"
       [] status = "FILLED" -> "Filled"
       [] status = "PENDING_CANCEL" -> "Cancelling"
       [] status \in {"CANCELED", "EXPIRED"} -> "Cancelled"
       [] status = "REJECTED" -> "Rejected"
       [] OTHER -> "Pending"]
=============================================================================
