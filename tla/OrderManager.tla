---------------------------- MODULE OrderManager ----------------------------
(***************************************************************************)
(* trader/order/OrderManager.hpp with its ConfirmedPositionLedger, against *)
(* the exchange it talks to.  Any number of threads call the manager; a    *)
(* REST call is made without the manager's mutex, so its effect at the     *)
(* exchange, the user-data report it causes and the caller's next step are *)
(* separate steps.  A section under the mutex is one step.                 *)
(***************************************************************************)
EXTENDS OrderTypes, Sequences, FiniteSets

CONSTANTS Threads,    \* callers of reconcile, kill and resume
          ForeignIds  \* orders left open by an earlier process

ASSUME OrderAssumption ==
  /\ SideOf \in [Ids -> Sides]
  /\ QtyOf \in [Ids -> Nat \ {0}]
  /\ Absent \notin Snapshots
  /\ ForeignIds \subseteq Ids

VARIABLES
  orders,      \* orders_
  reconciled,  \* reconciled_
  kill,        \* kill_switch_
  submission,  \* where the submit_market call for an id is
  job,         \* what each thread is doing inside the manager
  exchange,    \* external: the exchange's own record of each order
  reports,     \* external: executionReports on their way to the stream thread
  position,    \* ConfirmedPositionLedger: confirmed quantity of the symbol
  credited     \* history: what each order's fills were counted for

exchangeVars == <<exchange, reports>>
ledgerVars == <<position, credited>>
managerVars == <<orders, reconciled, kill, submission, job, exchange, reports,
                 position, credited>>

Orders == [Ids -> Snapshots \cup {Absent}]
Reports == [id : Ids, status : Statuses, executed : Nat]
NoOrders == [i \in Ids |-> Absent]
Idle == [pc |-> "idle", ids |-> {}, target |-> Absent, snapshot |-> NoOrders]

Unknown == [status |-> "none", executed |-> 0]
Open(i) == exchange[i].status \in {"NEW", "PARTIALLY_FILLED"}

Known(i) == orders[i] # Absent
Unresolved(i) ==
  Known(i) /\ orders[i].state \in {"Pending", "Acknowledged", "PartiallyFilled",
                                   "Cancelling"}

ManagerInit ==
  /\ orders = NoOrders
  /\ reconciled = FALSE /\ kill = FALSE
  /\ submission = [i \in Ids |-> IF i \in ForeignIds THEN "foreign" ELSE "none"]
  /\ job = [t \in Threads |-> Idle]
  /\ exchange = [i \in Ids |-> IF i \in ForeignIds
                               THEN [status |-> "NEW", executed |-> 0]
                               ELSE Unknown]
  /\ reports = <<>>
  /\ position = 0 /\ credited = [i \in Ids |-> 0]

-----------------------------------------------------------------------------
(* The exchange (external) *)

\* The exchange changes an order and reports it; the report may never arrive.
ExchangeUpdate(i, status, executed) ==
  /\ exchange' = [exchange EXCEPT ![i] = [status |-> status, executed |-> executed]]
  /\ \/ reports' = Append(reports, [id |-> i, status |-> status, executed |-> executed])
     \/ UNCHANGED reports

ExchangeFill(i) ==
  /\ Open(i)
  /\ \E e \in (exchange[i].executed + 1) .. QtyOf[i] :
       ExchangeUpdate(i, IF e = QtyOf[i] THEN "FILLED" ELSE "PARTIALLY_FILLED", e)
  /\ UNCHANGED <<orders, reconciled, kill, submission, job, ledgerVars>>

ExchangeExpire(i) ==
  /\ Open(i)
  /\ ExchangeUpdate(i, "EXPIRED", exchange[i].executed)
  /\ UNCHANGED <<orders, reconciled, kill, submission, job, ledgerVars>>

\* Reports in flight are lost with the connection.
ReportsLost ==
  /\ reports' = <<>>
  /\ UNCHANGED <<orders, reconciled, kill, submission, job, exchange, ledgerVars>>

-----------------------------------------------------------------------------
(* submit_market *)

\* The checks at the top of submit_market; a caller that fails one throws.
SubmitAdmit(i) ==
  /\ submission[i] = "none"
  /\ reconciled /\ ~kill
  /\ submission' = [submission EXCEPT ![i] = "admitted"]
  /\ UNCHANGED <<orders, reconciled, kill, job, exchangeVars, ledgerVars>>

\* The new order is registered and published as Pending; an id that is
\* already registered throws.
SubmitRegister(i) ==
  /\ submission[i] = "admitted"
  /\ IF Known(i)
     THEN /\ submission' = [submission EXCEPT ![i] = "threw"]
          /\ UNCHANGED orders
     ELSE /\ submission' = [submission EXCEPT ![i] = "placing"]
          /\ orders' = [orders EXCEPT ![i] =
               [exchange_order_id |-> FALSE, state |-> "Pending", executed |-> 0]]
  /\ UNCHANGED <<reconciled, kill, job, exchangeVars, ledgerVars>>

\* place_market_order reaches the exchange and is accepted ...
PlaceAccepted(i) ==
  /\ submission[i] = "placing"
  /\ ExchangeUpdate(i, "NEW", 0)
  /\ submission' = [submission EXCEPT ![i] = "accepted"]
  /\ UNCHANGED <<orders, reconciled, kill, job, ledgerVars>>

\* ... or the call throws: refused or not delivered, or, after the exchange
\* accepted the order, timed out on the way back.
PlaceThrows(i) ==
  /\ submission[i] \in {"placing", "accepted"}
  /\ submission' = [submission EXCEPT ![i] = "failed"]
  /\ UNCHANGED <<orders, reconciled, kill, job, exchangeVars, ledgerVars>>

\* Mutant: the REST acknowledgement of a market order is taken as its fill.
AcknowledgedIsFilled(i) ==
  /\ submission[i] = "accepted"
  /\ IF Known(i)
     THEN /\ orders' = [orders EXCEPT ![i] =
               [@ EXCEPT !.exchange_order_id = TRUE, !.state = "Filled"]]
          /\ submission' = [submission EXCEPT ![i] = "returned"]
     ELSE /\ submission' = [submission EXCEPT ![i] = "threw"]
          /\ UNCHANGED orders
  /\ UNCHANGED <<reconciled, kill, job, exchangeVars, ledgerVars>>

\* The acknowledgement overwrites the local state, whatever the stream has
\* made of it meanwhile; orders_.at throws when a reconciliation dropped it.
SubmitAcknowledged(i) ==
  /\ submission[i] = "accepted"
  /\ IF Known(i)
     THEN /\ orders' = [orders EXCEPT ![i] =
               [@ EXCEPT !.exchange_order_id = TRUE, !.state = "Acknowledged"]]
          /\ submission' = [submission EXCEPT ![i] = "returned"]
     ELSE /\ submission' = [submission EXCEPT ![i] = "threw"]
          /\ UNCHANGED orders
  /\ UNCHANGED <<reconciled, kill, job, exchangeVars, ledgerVars>>

\* The catch block: any exception means Rejected.
SubmitRejected(i) ==
  /\ submission[i] = "failed"
  /\ IF Known(i)
     THEN /\ orders' = [orders EXCEPT ![i].state = "Rejected"]
          /\ submission' = [submission EXCEPT ![i] = "returned"]
     ELSE /\ submission' = [submission EXCEPT ![i] = "threw"]
          /\ UNCHANGED orders
  /\ UNCHANGED <<reconciled, kill, job, exchangeVars, ledgerVars>>

-----------------------------------------------------------------------------
(* on_user_data_event and ConfirmedPositionLedger::on_order_update *)

\* Mutant: a sell takes its quantity from a position that is not there.
LedgerOversells(i, s) ==
  IF ~exchange_confirmed_fill(s)
  THEN UNCHANGED ledgerVars
  ELSE /\ position' = IF SideOf[i] = "Buy" THEN position + s.executed
                      ELSE 0 - s.executed
       /\ credited' = [credited EXCEPT ![i] = @ + s.executed]

\* A confirmed buy adds its quantity; a confirmed sell takes from an existing
\* position, which disappears when nothing is left.
LedgerUpdate(i, s) ==
  IF ~exchange_confirmed_fill(s)
  THEN UNCHANGED ledgerVars
  ELSE /\ position' = IF SideOf[i] = "Buy" THEN position + s.executed
                      ELSE IF s.executed >= position THEN 0
                      ELSE position - s.executed
       /\ credited' = [credited EXCEPT ![i] = @ + s.executed]

\* The stream thread applies the next report: an unknown order is created, a
\* known one overwritten, then the update handler runs on this thread.
on_user_data_event ==
  /\ reports # <<>>
  /\ LET r == Head(reports)
         s == [exchange_order_id |-> TRUE, state |-> map[r.status],
               executed |-> r.executed]
     IN  /\ orders' = [orders EXCEPT ![r.id] = s]
         /\ LedgerUpdate(r.id, s)
  /\ reports' = Tail(reports)
  /\ UNCHANGED <<reconciled, kill, submission, job, exchange>>

-----------------------------------------------------------------------------
(* reconcile_startup *)

\* from_rest of what open_orders() answers.
OpenOrders ==
  [i \in Ids |-> IF Open(i) THEN [exchange_order_id |-> TRUE,
                                  state |-> map[exchange[i].status],
                                  executed |-> exchange[i].executed]
                 ELSE Absent]

\* The open orders are fetched without the mutex ...
ReconcileFetch(t) ==
  /\ job[t].pc = "idle"
  /\ job' = [job EXCEPT ![t] = [pc |-> "apply", ids |-> {}, target |-> Absent,
                                snapshot |-> OpenOrders]]
  /\ UNCHANGED <<orders, reconciled, kill, submission, exchangeVars, ledgerVars>>

\* ... and then replaces every local order.
ReconcileApply(t) ==
  /\ job[t].pc = "apply"
  /\ orders' = job[t].snapshot
  /\ reconciled' = TRUE
  /\ job' = [job EXCEPT ![t] = Idle]
  /\ UNCHANGED <<kill, submission, exchangeVars, ledgerVars>>

-----------------------------------------------------------------------------
(* activate_kill_switch and cancel *)

KillSet(t) ==
  /\ job[t].pc = "idle"
  /\ kill' = TRUE
  /\ job' = [job EXCEPT ![t].pc = "collect"]
  /\ UNCHANGED <<orders, reconciled, submission, exchangeVars, ledgerVars>>

Cancellable(i) ==
  Known(i) /\ orders[i].state \in {"Pending", "Acknowledged", "PartiallyFilled"}

KillCollect(t) ==
  /\ job[t].pc = "collect"
  /\ job' = [job EXCEPT ![t].pc = "cancel", ![t].ids = {i \in Ids : Cancellable(i)}]
  /\ UNCHANGED <<orders, reconciled, kill, submission, exchangeVars, ledgerVars>>

\* cancel() called for one order.
CancelBegin(t, i) ==
  /\ job[t].pc = "idle"
  /\ job' = [job EXCEPT ![t].pc = "cancel", ![t].ids = {i}]
  /\ UNCHANGED <<orders, reconciled, kill, submission, exchangeVars, ledgerVars>>

\* cancel(): an order gone meanwhile throws, a finished one is left alone;
\* otherwise it is marked and published before the REST call.
CancelMark(t, i) ==
  /\ job[t].pc = "cancel" /\ i \in job[t].ids
  /\ IF Unresolved(i)
     THEN /\ orders' = [orders EXCEPT ![i].state = "Cancelling"]
          /\ job' = [job EXCEPT ![t].pc = "rest", ![t].ids = @ \ {i}, ![t].target = i]
     ELSE /\ job' = [job EXCEPT ![t].ids = @ \ {i}]
          /\ UNCHANGED orders
  /\ UNCHANGED <<reconciled, kill, submission, exchangeVars, ledgerVars>>

\* The exchange cancels an open order; it knows no other, and a call that
\* fails is swallowed by activate_kill_switch.
CancelRest(t) ==
  /\ job[t].pc = "rest"
  /\ \/ /\ Open(job[t].target)
        /\ ExchangeUpdate(job[t].target, "CANCELED", exchange[job[t].target].executed)
     \/ UNCHANGED exchangeVars
  /\ job' = [job EXCEPT ![t].pc = "cancel", ![t].target = Absent]
  /\ UNCHANGED <<orders, reconciled, kill, submission, ledgerVars>>

KillDone(t) ==
  /\ job[t].pc = "cancel" /\ job[t].ids = {}
  /\ job' = [job EXCEPT ![t] = Idle]
  /\ UNCHANGED <<orders, reconciled, kill, submission, exchangeVars, ledgerVars>>

\* Mutant: unresolved orders do not stand in the way of a resume.
ClearUnresolved(t) ==
  /\ job[t].pc = "idle"
  /\ reconciled
  /\ kill' = FALSE
  /\ UNCHANGED <<orders, reconciled, submission, job, exchangeVars, ledgerVars>>

\* clear_kill_switch_for_reconciled_resume, when it does not throw.
ClearKillSwitch(t) ==
  /\ job[t].pc = "idle"
  /\ reconciled /\ \A i \in Ids : ~Unresolved(i)
  /\ kill' = FALSE
  /\ UNCHANGED <<orders, reconciled, submission, job, exchangeVars, ledgerVars>>

-----------------------------------------------------------------------------
SubmitStep(i) ==
  SubmitRegister(i) \/ PlaceAccepted(i) \/ PlaceThrows(i)
    \/ SubmitAcknowledged(i) \/ SubmitRejected(i)

JobStep(t) ==
  ReconcileApply(t) \/ KillCollect(t) \/ (\E i \in Ids : CancelMark(t, i))
    \/ CancelRest(t) \/ KillDone(t)

ExchangeStep == \E i \in Ids : ExchangeFill(i) \/ ExchangeExpire(i)

ManagerNext ==
  \/ \E i \in Ids : SubmitAdmit(i) \/ SubmitStep(i)
  \/ \E t \in Threads : ReconcileFetch(t) \/ KillSet(t) \/ ClearKillSwitch(t) \/ JobStep(t)
                        \/ \E i \in Ids : CancelBegin(t, i)
  \/ on_user_data_event
  \/ ExchangeStep
  \/ ReportsLost

ManagerSpec == ManagerInit /\ [][ManagerNext]_managerVars

-----------------------------------------------------------------------------
(* Properties *)

JobPcs == {"idle", "apply", "collect", "cancel", "rest"}
Jobs == [pc : JobPcs, ids : SUBSET Ids, target : Ids \cup {Absent}, snapshot : Orders]
Submissions == {"none", "foreign", "admitted", "placing", "accepted", "failed",
                "returned", "threw"}
ExchangeOrders == [status : Statuses \cup {"none"}, executed : Nat]

ManagerTypeOK ==
  /\ orders \in Orders
  /\ reconciled \in BOOLEAN /\ kill \in BOOLEAN
  /\ submission \in [Ids -> Submissions]
  /\ job \in [Threads -> Jobs]
  /\ \A t \in Threads : job[t].pc = "rest" => job[t].target \in Ids
  /\ exchange \in [Ids -> ExchangeOrders]
  /\ reports \in Seq(Reports)
  /\ position \in Nat
  /\ credited \in [Ids -> Nat]

\* What the manager says was executed, the exchange executed: no interleaving
\* of acknowledgement, report, cancellation and reconciliation makes a local
\* order more filled than the exchange's order.
LocalFillsAreReal ==
  \A i \in Ids :
    Known(i) => /\ orders[i].executed <= exchange[i].executed
                /\ orders[i].state = "Filled" => exchange[i].status = "FILLED"

\* "It never consumes order intents or REST acknowledgements; only exchange-
\* confirmed FILLED events": each order is counted at most once, for exactly
\* the quantity the exchange filled.
LedgerCountsFillsOnce ==
  \A i \in Ids : credited[i] # 0 =>
    credited[i] = QtyOf[i] /\ exchange[i].status = "FILLED"

\* What keeps the two above true.  An order's fills and its status agree at the
\* exchange, and it has none before the order was placed.
ExchangeConsistent ==
  \A i \in Ids :
    /\ exchange[i].status = "none" => exchange[i].executed = 0
    /\ exchange[i].status = "FILLED" => exchange[i].executed = QtyOf[i]
    /\ Open(i) => exchange[i].executed < QtyOf[i]
    /\ submission[i] \in {"none", "admitted", "placing"} => exchange[i].status = "none"

\* Reports under way describe fills that happened, and the FILLED report of an
\* order is sent once and is on its way only until the ledger has counted it.
ReportsAreReal ==
  \A n \in 1 .. Len(reports) :
    LET r == reports[n]
    IN  /\ r.executed <= exchange[r.id].executed
        /\ r.status = "FILLED" =>
             /\ exchange[r.id].status = "FILLED" /\ r.executed = QtyOf[r.id]
             /\ credited[r.id] = 0
             /\ \A m \in 1 .. Len(reports) :
                  reports[m].id = r.id /\ reports[m].status = "FILLED" => m = n

\* A list of open orders that was fetched but not applied yet may be stale,
\* but what it says was executed was executed.
SnapshotsAreReal ==
  \A t \in Threads, i \in Ids :
    job[t].snapshot[i] # Absent =>
      /\ job[t].snapshot[i].executed <= exchange[i].executed
      /\ job[t].snapshot[i].state # "Filled"

ManagerInv ==
  /\ ManagerTypeOK /\ LocalFillsAreReal /\ LedgerCountsFillsOnce
  /\ ExchangeConsistent /\ ReportsAreReal /\ SnapshotsAreReal
=============================================================================
