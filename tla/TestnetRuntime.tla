--------------------------- MODULE TestnetRuntime ---------------------------
(***************************************************************************)
(* trader/execution/TestnetStrategyRuntime.hpp between the price stream's  *)
(* thread, the user-data stream's thread and testnet_main.  The session    *)
(* and the order manager have modules of their own; here they are the      *)
(* calls the runtime makes into them and the updates they publish back on  *)
(* the same thread.  mutex_ is not recursive.                              *)
(***************************************************************************)
EXTENDS Naturals

Threads == {"price", "user", "owner"}
Sides == {"Buy", "Sell"}
NoUpdate == [side |-> "Buy", state |-> "none"]

VARIABLES
  pc,       \* where each thread is
  holder,   \* holder of mutex_
  running,  \* running_
  ready,    \* venue_->ready()
  kill,     \* the venue is killed
  active,   \* active_order_ is not empty
  held,     \* confirmed_quantity_ > 0
  mine,     \* state and side of the order last submitted
  foreign,  \* an order of an earlier process is still open at the exchange
  update    \* the snapshot each thread's on_order_update handles

vars == <<pc, holder, running, ready, kill, active, held, mine, foreign, update>>

Init ==
  /\ pc = [t \in Threads |-> "idle"]
  /\ holder = "free" /\ running = TRUE /\ ready = TRUE /\ kill = FALSE
  /\ active = FALSE /\ held = FALSE
  /\ mine = NoUpdate /\ foreign \in BOOLEAN
  /\ update = [t \in Threads |-> NoUpdate]

Goto(t, label) == pc' = [pc EXCEPT ![t] = label]

-----------------------------------------------------------------------------
(* on_price *)

OnPrice ==
  /\ pc["price"] = "idle" /\ running /\ ready
  /\ Goto("price", "lock")
  /\ UNCHANGED <<holder, running, ready, kill, active, held, mine, foreign, update>>

\* Nothing to do: an order is active, no signal, not approved or no exit.
PriceIgnored ==
  /\ pc["price"] = "lock" /\ holder = "free"
  /\ Goto("price", "idle")
  /\ UNCHANGED <<holder, running, ready, kill, active, held, mine, foreign, update>>

\* An approved entry, or the exit of a confirmed position.  mutex_ stays held.
PriceOrders ==
  /\ pc["price"] = "lock" /\ holder = "free" /\ ~active
  /\ holder' = "price" /\ active' = TRUE
  /\ Goto("price", "submit")
  /\ UNCHANGED <<running, ready, kill, held, mine, foreign, update>>

\* A venue that is no longer ready throws; active_order_ stays set.
SubmitThrows ==
  /\ pc["price"] = "submit" /\ ~ready
  /\ holder' = "free"
  /\ Goto("price", "idle")
  /\ UNCHANGED <<running, ready, kill, active, held, mine, foreign, update>>

Publish(t, side, state) ==
  /\ update' = [update EXCEPT ![t] = [side |-> side, state |-> state]]
  /\ Goto(t, "update")

\* submit_market registers the order and publishes it as Pending.
SubmitPending ==
  /\ pc["price"] = "submit" /\ ready
  /\ LET side == IF held THEN "Sell" ELSE "Buy"
     IN  mine' = [side |-> side, state |-> "Pending"] /\ Publish("price", side, "Pending")
  /\ UNCHANGED <<holder, running, ready, kill, active, held, foreign>>

\* place_market_order, and the publication of its outcome.
Place ==
  /\ pc["price"] = "place"
  /\ \E s \in {"Acknowledged", "Rejected"} :
       mine' = [mine EXCEPT !.state = s] /\ Publish("price", mine.side, s)
  /\ UNCHANGED <<holder, running, ready, kill, active, held, foreign>>

OnPriceReturns ==
  /\ pc["price"] = "placed"
  /\ holder' = "free"
  /\ Goto("price", "idle")
  /\ UNCHANGED <<running, ready, kill, active, held, mine, foreign, update>>

-----------------------------------------------------------------------------
(* on_order_update, on whichever thread publishes *)

Cancellable == mine.state \in {"Pending", "Acknowledged"}
Unsettled == Cancellable \/ foreign

SaveEvent(t) ==
  /\ pc[t] = "update"
  /\ Goto(t, "apply")
  /\ UNCHANGED <<holder, running, ready, kill, active, held, mine, foreign, update>>

\* events_.save throws: the venue is killed, which marks the open orders and
\* publishes each mark through on_order_update on this thread.
SaveFails(t) ==
  /\ pc[t] = "update"
  /\ kill' = TRUE /\ ready' = FALSE
  /\ mine' = IF Cancellable THEN [mine EXCEPT !.state = "Cancelling"] ELSE mine
  /\ Goto(t, IF Unsettled THEN "marks" ELSE "apply")
  /\ UNCHANGED <<holder, running, active, held, foreign, update>>

\* The nested updates need mutex_ and change nothing.
MarksPublished(t) ==
  /\ pc[t] = "marks" /\ holder = "free"
  /\ Goto(t, IF t = "owner" THEN "close" ELSE "apply")
  /\ UNCHANGED <<holder, running, ready, kill, active, held, mine, foreign, update>>

\* The section under mutex_.
ApplyUpdate(t) ==
  /\ pc[t] = "apply" /\ holder = "free"
  /\ LET u == update[t]
     IN  /\ active' = (active /\ u.state \notin {"Rejected", "Cancelled", "Filled"})
         /\ held' = IF u.state = "Filled" THEN u.side = "Buy" ELSE held
  /\ update' = [update EXCEPT ![t] = NoUpdate]
  /\ Goto(t, IF t # "price" THEN "idle" ELSE IF update[t].state = "Pending" THEN "place" ELSE "placed")
  /\ UNCHANGED <<holder, running, ready, kill, mine, foreign>>

-----------------------------------------------------------------------------
(* The other threads *)

\* An executionReport for the runtime's own order or for an earlier process's.
UserReport ==
  /\ pc["user"] = "idle" /\ pc["owner"] # "done"
  /\ \/ /\ foreign /\ foreign' = FALSE /\ UNCHANGED mine
        /\ \E side \in Sides, s \in {"Filled", "Cancelled"} : Publish("user", side, s)
     \/ /\ mine.state \in {"Acknowledged", "Cancelling"} /\ UNCHANGED foreign
        /\ \E s \in {"Filled", "Cancelled"} :
             mine' = [mine EXCEPT !.state = s] /\ Publish("user", mine.side, s)
  /\ UNCHANGED <<holder, running, ready, kill, active, held>>

\* The session loses its stream and recovers it.
SessionChanges ==
  /\ ~kill /\ ready' = ~ready
  /\ UNCHANGED <<pc, holder, running, kill, active, held, mine, foreign, update>>

\* stop(): the price stream's thread is joined, then the session kills, which
\* marks the open orders, and joins the user-data thread.
Stop ==
  /\ pc["owner"] = "idle" /\ running
  /\ running' = FALSE
  /\ Goto("owner", "joinPrice")
  /\ UNCHANGED <<holder, ready, kill, active, held, mine, foreign, update>>

StopVenue ==
  /\ pc["owner"] = "joinPrice" /\ pc["price"] = "idle"
  /\ kill' = TRUE /\ ready' = FALSE
  /\ mine' = IF Cancellable THEN [mine EXCEPT !.state = "Cancelling"] ELSE mine
  /\ Goto("owner", IF Unsettled THEN "marks" ELSE "close")
  /\ UNCHANGED <<holder, running, active, held, foreign, update>>

StopDone ==
  /\ pc["owner"] = "close" /\ pc["user"] = "idle"
  /\ Goto("owner", "done")
  /\ UNCHANGED <<holder, running, ready, kill, active, held, mine, foreign, update>>

-----------------------------------------------------------------------------
Handler(t) == SaveEvent(t) \/ SaveFails(t) \/ MarksPublished(t) \/ ApplyUpdate(t)
Price == PriceIgnored \/ PriceOrders \/ SubmitThrows \/ SubmitPending \/ Place \/ OnPriceReturns \/ Handler("price")
Owner == StopVenue \/ StopDone \/ MarksPublished("owner")

Next ==
  \/ OnPrice \/ Price \/ UserReport \/ Handler("user") \/ Stop \/ Owner \/ SessionChanges

(* Fairness: a thread that has begun an operation goes on with it. *)
FairSpec == Init /\ [][Next]_vars /\ WF_vars(Price) /\ WF_vars(Handler("user")) /\ WF_vars(Owner)

-----------------------------------------------------------------------------
(* docs/TESTNET_RUNTIME.md: "Sentum supports Binance Spot Testnet execution  *)
(* with exchange-confirmed order state".  An order the runtime submits gets  *)
(* beyond Pending: it is acknowledged, rejected or marked for cancellation.  *)
OrdersLeavePending == mine.state = "Pending" ~> mine.state # "Pending"

=============================================================================
