---------------------------- MODULE TradeEngine ----------------------------
(***************************************************************************)
(* trader/TradeEngine.cpp: the paper trading engine of one symbol, with    *)
(* its SimulatedExecutionVenue, the RiskManager's answer and the flags of  *)
(* core/RuntimeControl.hpp it reads.                                       *)
(*                                                                         *)
(* Four threads meet here: the trader thread in run(), the price stream's  *)
(* thread in enqueue_price(), the thread that calls stop(), and the        *)
(* terminal, which requests closes and pauses entries.  Percentages of a   *)
(* price are absolute distances; what strategy, risk limits and clock      *)
(* decide is left open.                                                    *)
(***************************************************************************)
EXTENDS Integers, Sequences

CONSTANTS Prices,      \* prices the market may quote
          Costs,       \* spread and slippage of one fill
          Fee,         \* fees of a round trip
          StopLoss, TakeProfit, Trail,  \* distances of the exit levels
          QueueSize,   \* max_queue_size
          MaxPrices    \* bound: prices received

ASSUME EngineAssumption ==
  /\ Prices \subseteq Nat \ {0}
  /\ Costs \in Nat /\ Fee \in Nat
  /\ StopLoss \in Nat \ {0} /\ TakeProfit \in Nat \ {0} /\ Trail \in Nat
  /\ QueueSize \in Nat \ {0} /\ MaxPrices \in Nat

VARIABLES
  running,     \* running
  trader,      \* where the trader thread is
  event,       \* the event it processes
  reason,      \* why it is closing the position
  queue,       \* price_queue
  received,    \* how many prices were enqueued so far
  feed,        \* price_stream: off, idle, handling a message, stopped
  venue,       \* execution_venue's ready_
  position,    \* position
  total,       \* total_profit
  counted,     \* win_count + lose_count
  completed,   \* net profit of each entry of completed_
  manualClose, \* manual_close_
  paused,      \* entries_paused_
  requested,   \* history: number of the position the last close request found
               \* open, 0 if it found none
  stopper      \* where the thread that calls stop() is

controlVars == <<manualClose, paused, requested>>
tradeVars == <<position, total, counted, completed>>
queueVars == <<queue, received>>
vars == <<running, trader, event, reason, queue, received, feed, venue, position, total,
          counted, completed, manualClose, paused, requested, stopper>>

Flat == [open |-> FALSE, entry |-> 0, highest |-> 0, stop |-> 0, target |-> 0]
NoEvent == [n |-> 0, price |-> 0]

Init ==
  /\ running = FALSE /\ trader = "created" /\ event = NoEvent /\ reason = "none"
  /\ queue = <<>> /\ received = 0 /\ feed = "off" /\ venue = FALSE
  /\ position = Flat /\ total = 0 /\ counted = 0 /\ completed = <<>>
  /\ manualClose = FALSE /\ paused = FALSE /\ requested = 0
  /\ stopper = "idle"

-----------------------------------------------------------------------------
(* run() *)

RunBegin ==
  /\ trader = "created"
  /\ running' = TRUE
  /\ trader' = IF running THEN "exited" ELSE "init"
  /\ UNCHANGED <<event, reason, queueVars, feed, venue, tradeVars, controlVars, stopper>>

\* initialize_components starts the venue, then the price stream is started;
\* opening the trade history may throw.
RunInit ==
  /\ trader = "init"
  /\ \/ venue' = TRUE /\ feed' = "idle" /\ trader' = "loop"
     \/ trader' = "catch" /\ UNCHANGED <<venue, feed>>
  /\ UNCHANGED <<running, event, reason, queueVars, tradeVars, controlVars, stopper>>

RunLoop ==
  /\ trader = "loop"
  /\ trader' = IF running THEN "wait" ELSE "finish"
  /\ UNCHANGED <<running, event, reason, queueVars, feed, venue, tradeVars, controlVars, stopper>>

\* Under queue_mutex: take an event, leave, or find that there is nothing to
\* do yet.  The mutex stays locked until the thread is registered as waiting.
RunTake ==
  /\ trader = "wait"
  /\ \/ /\ queue # <<>>
        /\ event' = Head(queue) /\ queue' = Tail(queue) /\ trader' = "process"
     \/ /\ queue = <<>> /\ ~running
        /\ trader' = "finish" /\ UNCHANGED <<event, queue>>
     \/ /\ queue = <<>> /\ running
        /\ trader' = "blocking" /\ UNCHANGED <<event, queue>>
  /\ UNCHANGED <<running, reason, received, feed, venue, tradeVars, controlVars, stopper>>

RunBlock ==
  /\ trader = "blocking"
  /\ trader' = "waiting"
  /\ UNCHANGED <<running, event, reason, queueVars, feed, venue, tradeVars, controlVars, stopper>>

\* queue_cv may wake without a notification.
SpuriousWake ==
  /\ trader = "waiting"
  /\ trader' = "wait"
  /\ UNCHANGED <<running, event, reason, queueVars, feed, venue, tradeVars, controlVars, stopper>>

Notified == IF trader = "waiting" THEN "wait" ELSE trader

\* The catch block calls stop(), which does nothing when someone else did.
RunCatch ==
  /\ trader = "catch"
  /\ running' = FALSE
  /\ IF running THEN feed # "busy" /\ feed' = "stopped" /\ venue' = FALSE
     ELSE UNCHANGED <<feed, venue>>
  /\ trader' = "exited"
  /\ UNCHANGED <<event, reason, queueVars, tradeVars, controlVars, stopper>>

\* After the loop the stream is stopped and joined, and the venue stopped.
RunFinish ==
  /\ trader = "finish"
  /\ feed # "busy"
  /\ feed' = "stopped"
  /\ venue' = FALSE
  /\ trader' = "exited"
  /\ UNCHANGED <<running, event, reason, queueVars, tradeVars, controlVars, stopper>>

-----------------------------------------------------------------------------
(* process_event and evaluate_at *)

ProcessStale ==
  /\ trader = "process"
  /\ trader' = "loop"
  /\ UNCHANGED <<running, event, reason, queueVars, feed, venue, tradeVars, controlVars, stopper>>

\* Mutant: the trailing stop follows the price down, too.
EvaluateTrailsDown ==
  /\ trader = "process" /\ position.open
  /\ ~manualClose
  /\ position' = [position EXCEPT !.stop = event.price - Trail]
  /\ trader' = "loop"
  /\ UNCHANGED <<running, event, reason, queueVars, feed, venue, total, counted, completed,
                 controlVars, stopper>>

\* With an open position: a close request, then the exit levels.
EvaluateOpen ==
  /\ trader = "process" /\ position.open
  /\ LET p == event.price
         high == p > position.highest
         moved == [position EXCEPT !.highest = IF high THEN p ELSE @,
                                   !.stop = IF high /\ Trail > 0 THEN p - Trail ELSE @]
     IN  IF manualClose
         THEN /\ manualClose' = FALSE
              /\ reason' = "manual_close"
              /\ trader' = "closing"
              /\ UNCHANGED position
         ELSE /\ position' = moved
              /\ \/ /\ p <= moved.stop \/ p >= moved.target
                    /\ reason' = IF p <= moved.stop THEN "stop_loss" ELSE "take_profit"
                    /\ trader' = "closing"
                 \/ /\ p > moved.stop /\ p < moved.target
                    /\ \/ reason' = "maximum_holding_time" /\ trader' = "closing"
                       \/ trader' = "loop" /\ UNCHANGED reason
              /\ UNCHANGED manualClose
  /\ UNCHANGED <<running, event, queueVars, feed, venue, total, counted, completed,
                 paused, requested, stopper>>

\* Mutant: the request stays for the next position.
EvaluateKeepsRequest ==
  /\ trader = "process" /\ ~position.open
  /\ trader' = "entry"
  /\ UNCHANGED <<running, event, reason, queueVars, feed, venue, tradeVars, controlVars, stopper>>

\* Without one: a pending close request is consumed ...
EvaluateFlat ==
  /\ trader = "process" /\ ~position.open
  /\ manualClose' = FALSE
  /\ trader' = "entry"
  /\ UNCHANGED <<running, event, reason, queueVars, feed, venue, tradeVars, paused, requested, stopper>>

\* ... then pause, strategy and risk manager decide on an entry.
EvaluateEntry ==
  /\ trader = "entry"
  /\ \/ trader' = "loop"
     \/ ~paused /\ trader' = "buying"
  /\ UNCHANGED <<running, event, reason, queueVars, feed, venue, tradeVars, controlVars, stopper>>

\* SimulatedExecutionVenue::submit fills at once, at a price worse by Costs for
\* either side.
FilledAt(side) == IF side = "buy" THEN event.price + Costs ELSE event.price - Costs

\* Mutant: the stopped venue still fills orders.
BuyFromStoppedVenue ==
  /\ trader = "buying"
  /\ trader' = "bought"
  /\ UNCHANGED <<running, event, reason, queueVars, feed, venue, tradeVars, controlVars, stopper>>

\* execute() throws once the venue is stopped; otherwise the order is filled.
Buy ==
  /\ trader = "buying"
  /\ trader' = IF venue THEN "bought" ELSE "catch"
  /\ UNCHANGED <<running, event, reason, queueVars, feed, venue, tradeVars, controlVars, stopper>>

\* The fill opens the position; stop() may have returned meanwhile.
OpenPosition ==
  /\ trader = "bought"
  /\ LET fill == FilledAt("buy")
     IN  position' = [open |-> TRUE, entry |-> fill, highest |-> fill,
                      stop |-> fill - StopLoss, target |-> fill + TakeProfit]
  /\ trader' = "loop"
  /\ UNCHANGED <<running, event, reason, queueVars, feed, venue, total, counted, completed,
                 controlVars, stopper>>

\* close_position begins with the order that sells.
Sell ==
  /\ trader = "closing"
  /\ trader' = IF venue THEN "sold" ELSE "catch"
  /\ UNCHANGED <<running, event, reason, queueVars, feed, venue, tradeVars, controlVars, stopper>>

\* Mutant: a failed save is swallowed, the position stays open.
CloseSwallowsFailure ==
  /\ trader = "sold"
  /\ LET profit == FilledAt("sell") - position.entry - Fee
     IN  /\ total' = total + profit /\ counted' = counted + 1
         /\ \/ /\ completed' = Append(completed, profit)
               /\ position' = [position EXCEPT !.open = FALSE]
            \/ UNCHANGED <<completed, position>>
         /\ trader' = "loop"
  /\ UNCHANGED <<running, event, reason, queueVars, feed, venue, controlVars, stopper>>

\* Then the totals are updated, the trade is saved, which may throw, and only
\* then the position is closed.
close_position ==
  /\ trader = "sold"
  /\ LET profit == FilledAt("sell") - position.entry - Fee
     IN  /\ total' = total + profit /\ counted' = counted + 1
         /\ \/ /\ completed' = Append(completed, profit)
               /\ position' = [position EXCEPT !.open = FALSE]
               /\ trader' = "loop"
            \/ trader' = "catch" /\ UNCHANGED <<completed, position>>
  /\ UNCHANGED <<running, event, reason, queueVars, feed, venue, controlVars, stopper>>

-----------------------------------------------------------------------------
(* The price stream *)

FeedReceive ==
  /\ feed = "idle" /\ received < MaxPrices
  /\ feed' = "busy"
  /\ UNCHANGED <<running, trader, event, reason, queueVars, venue, tradeVars, controlVars, stopper>>

\* Mutant: at the limit the new event is dropped.
EnqueueDropsNewest(p) ==
  /\ feed = "busy" /\ trader # "blocking"
  /\ received' = received + 1
  /\ queue' = IF Len(queue) >= QueueSize THEN queue
              ELSE Append(queue, [n |-> received + 1, price |-> p])
  /\ trader' = Notified
  /\ feed' = "idle"
  /\ UNCHANGED <<running, event, reason, venue, tradeVars, controlVars, stopper>>

\* At the limit the oldest event makes room.
enqueue_price(p) ==
  /\ feed = "busy" /\ trader # "blocking"
  /\ received' = received + 1
  /\ queue' = Append(IF Len(queue) >= QueueSize THEN Tail(queue) ELSE queue,
                     [n |-> received + 1, price |-> p])
  /\ trader' = Notified
  /\ feed' = "idle"
  /\ UNCHANGED <<running, event, reason, venue, tradeVars, controlVars, stopper>>

-----------------------------------------------------------------------------
(* stop(), called by the thread that then joins the trader thread *)

StopBegin ==
  /\ stopper = "idle"
  /\ running' = FALSE
  /\ stopper' = IF running THEN "feed" ELSE "ignored"
  /\ UNCHANGED <<trader, event, reason, queueVars, feed, venue, tradeVars, controlVars>>

\* Mutant: the trader thread is joined before it is notified.
StopJoinsTraderFirst ==
  /\ stopper = "feed" /\ feed # "busy" /\ trader = "exited"
  /\ feed' = IF feed = "off" THEN "off" ELSE "stopped"
  /\ stopper' = "venue"
  /\ UNCHANGED <<running, trader, event, reason, queueVars, venue, tradeVars, controlVars>>

\* The stream is stopped and joined.  The trader thread may be doing the same
\* at the end of run(): the second to join a thread throws.
StopFeed ==
  /\ stopper = "feed" /\ feed # "busy"
  /\ feed' = IF feed = "off" THEN "off" ELSE "stopped"
  /\ \/ stopper' = "venue"
     \/ trader = "finish" /\ feed = "idle" /\ stopper' = "threw"
  /\ UNCHANGED <<running, trader, event, reason, queueVars, venue, tradeVars, controlVars>>

StopVenue ==
  /\ stopper = "venue"
  /\ venue' = FALSE
  /\ stopper' = "notify"
  /\ UNCHANGED <<running, trader, event, reason, queueVars, feed, tradeVars, controlVars>>

\* notify_all without the mutex: it wakes only a thread already waiting.
StopNotify ==
  /\ stopper = "notify"
  /\ trader' = Notified
  /\ stopper' = "returned"
  /\ UNCHANGED <<running, event, reason, queueVars, feed, venue, tradeVars, controlVars>>

-----------------------------------------------------------------------------
(* The terminal: RuntimeControl *)

request_manual_close ==
  /\ manualClose' = TRUE
  /\ requested' = IF position.open THEN counted + 1 ELSE 0
  /\ UNCHANGED <<running, trader, event, reason, queueVars, feed, venue, tradeVars, paused, stopper>>

pause_entries ==
  /\ paused' = ~paused
  /\ UNCHANGED <<running, trader, event, reason, queueVars, feed, venue, tradeVars,
                 manualClose, requested, stopper>>

-----------------------------------------------------------------------------
TraderStep ==
  \/ RunBegin \/ RunInit \/ RunLoop \/ RunTake \/ RunBlock \/ RunCatch \/ RunFinish
  \/ ProcessStale \/ EvaluateOpen \/ EvaluateFlat \/ EvaluateEntry
  \/ Buy \/ OpenPosition \/ Sell \/ close_position

Enqueue == \E p \in Prices : enqueue_price(p)
StopStep == StopFeed \/ StopVenue \/ StopNotify

Next ==
  \/ TraderStep \/ SpuriousWake
  \/ FeedReceive \/ Enqueue
  \/ StopBegin \/ StopStep
  \/ request_manual_close \/ pause_entries

\* Every started thread keeps running; prices, operator and spurious wakeups
\* are not promised.
Spec == Init /\ [][Next]_vars
FairSpec == Spec /\ WF_vars(TraderStep) /\ WF_vars(Enqueue) /\ WF_vars(StopStep)

-----------------------------------------------------------------------------
(* Properties *)

\* The queue holds the most recent prices in the order they came, and nothing
\* is processed twice or out of order: at the limit the oldest is dropped.
QueueKeepsNewest ==
  /\ Len(queue) <= QueueSize
  /\ \A k \in 1 .. Len(queue) : queue[k].n = received - Len(queue) + k
  /\ event.n <= received - Len(queue)

\* The sum of a sequence, as a recursive function of how much of it is added.
Sum(s) ==
  LET upTo[i \in 0 .. Len(s)] == IF i = 0 THEN 0 ELSE upTo[i - 1] + s[i] IN upTo[Len(s)]

\* Every trade in the totals is in completed_ and counted once.  The only
\* exception is a trade whose save threw: it was counted, its position is
\* still open, and the engine never trades again.
TradesAddUp ==
  \/ counted = Len(completed) /\ total = Sum(completed)
  \/ /\ counted = Len(completed) + 1 /\ position.open
     /\ trader \in {"catch", "exited"}

\* The orders the venue has filled: every position was bought, every counted
\* trade sold, and one fill may not have been booked yet.
Filled ==
  Len(completed) + counted + (IF position.open THEN 1 ELSE 0)
    + (IF trader \in {"bought", "sold"} THEN 1 ELSE 0)

\* Once stop() stopped the venue no order is filled any more, although the
\* trader thread may still take and evaluate an event it had queued, and even
\* if stop() came before initialize_components started the venue: only an order
\* filled before is still booked.
StopFreezesOrders ==
  [][(stopper \in {"notify", "returned"}) => Filled' = Filled]_vars

\* The stop level of an open position only moves up.  The one exception is the
\* first new high under a trailing distance wider than the stop loss, which the
\* risk configuration does not rule out.
StopOnlyTightens ==
  [][position.open /\ position'.open =>
       \/ position'.stop >= position.stop
       \/ Trail > StopLoss /\ position.highest = position.entry]_vars

\* stop() returns or throws: joining the price stream never waits for the
\* queue's mutex forever.
StopReturns == (stopper = "feed") ~> (stopper \in {"returned", "threw"})

\* A close request made for an open position ends that one or none: when the
\* position closes by itself first, the request does not survive until the
\* next is open.
RequestEndsItsPosition ==
  trader = "closing" /\ reason = "manual_close" => requested \in {0, counted + 1}

\* TradeEngine.cpp:140: "A close request issued while flat must never leak into
\* the next position."
FlatRequestIsDropped ==
  trader = "closing" /\ reason = "manual_close" => requested # 0
=============================================================================
