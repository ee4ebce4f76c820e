----------------------- MODULE LiveOrderSessionProofs -----------------------
(***************************************************************************)
(* The order manager: proofs that it never reports more than the exchange  *)
(* executed and that its ledger counts every filled order at most once,    *)
(* for any orders, quantities and number of threads.  ManagerInv is        *)
(* inductive.  Only five actions touch the exchange; all of them go        *)
(* through ExchangeUpdate, whose effect on the invariant is proved once,   *)
(* in ExchangeUpdateKeeps.                                                 *)
(*                                                                         *)
(* The session: proofs that it only takes steps the order manager's own    *)
(* specification allows, so what is proved of the manager holds in every   *)
(* session; that submissions are never enabled before a reconciliation;    *)
(* that the kill switch stays on until a resume; and that a stopped        *)
(* session stays quiet.                                                    *)
(***************************************************************************)
EXTENDS LiveOrderSession, TLAPS

-----------------------------------------------------------------------------
(* The order manager *)

\* What ManagerTypeOK and ExchangeConsistent say of exchange and reports alone.
ExchangeTypeOK ==
  /\ exchange \in [Ids -> ExchangeOrders]
  /\ reports \in Seq(Reports)

FillsMatchStatus ==
  \A i \in Ids :
    /\ exchange[i].status = "none" => exchange[i].executed = 0
    /\ exchange[i].status = "FILLED" => exchange[i].executed = QtyOf[i]
    /\ Open(i) => exchange[i].executed < QtyOf[i]

\* OrderManager::map sends only FILLED to Filled, and every status to a state.
LEMMA MapStates ==
  ASSUME NEW status \in Statuses
  PROVE  /\ map[status] \in States
         /\ map[status] = "Filled" <=> status = "FILLED"
  BY DEF map, Statuses, States

\* The manager starts with no orders, no reports and nothing executed.
LEMMA InitManagerInv == ManagerInit => ManagerInv
<1> SUFFICES ASSUME ManagerInit PROVE ManagerInv
  OBVIOUS
<1> USE OrderAssumption
<1>1. ManagerTypeOK
  <2>1. NoOrders \in Orders /\ orders \in Orders
    BY DEF ManagerInit, NoOrders, Orders
  <2>2. Idle \in Jobs
    BY <2>1 DEF Idle, Jobs, JobPcs
  <2>3. /\ job \in [Threads -> Jobs]
        /\ \A t \in Threads : job[t].pc = "rest" => job[t].target \in Ids
    BY <2>2 DEF ManagerInit, Idle
  <2>4. exchange \in [Ids -> ExchangeOrders]
    BY DEF ManagerInit, Unknown, Statuses, ExchangeOrders
  <2>5. reports \in Seq(Reports)
    BY DEF ManagerInit
  <2>6. /\ submission \in [Ids -> Submissions]
        /\ reconciled \in BOOLEAN /\ kill \in BOOLEAN
        /\ position \in Nat /\ credited \in [Ids -> Nat]
    BY DEF ManagerInit, Submissions
  <2> QED
    BY <2>1, <2>3, <2>4, <2>5, <2>6 DEF ManagerTypeOK
<1>2. LocalFillsAreReal /\ LedgerCountsFillsOnce /\ SnapshotsAreReal
  BY DEF ManagerInit, LocalFillsAreReal, LedgerCountsFillsOnce, SnapshotsAreReal,
         NoOrders, Idle, Known
<1>3. ExchangeConsistent
  <2> SUFFICES ASSUME NEW i \in Ids
               PROVE  /\ exchange[i].status \in {"none", "NEW"}
                      /\ exchange[i].executed = 0 /\ 0 < QtyOf[i]
                      /\ i \notin ForeignIds => exchange[i].status = "none"
                      /\ submission[i] # "foreign" => i \notin ForeignIds
    BY DEF ManagerInit, ExchangeConsistent, Open
  <2>1. exchange[i] = IF i \in ForeignIds THEN [status |-> "NEW", executed |-> 0]
                      ELSE [status |-> "none", executed |-> 0]
    BY DEF ManagerInit, Unknown
  <2> QED
    BY <2>1 DEF ManagerInit
<1>4. ReportsAreReal
  BY DEF ManagerInit, ReportsAreReal
<1> QED
  BY <1>1, <1>2, <1>3, <1>4 DEF ManagerInv

\* The exchange changes an order that is not finished and reports it or not:
\* fills only grow, a filled order stays filled, and its report is the first.
LEMMA ExchangeUpdateKeeps ==
  ASSUME ManagerInv,
         NEW i \in Ids, NEW status \in Statuses, NEW e \in Nat,
         exchange[i].status \in {"none", "NEW", "PARTIALLY_FILLED"},
         exchange[i].executed <= e,
         status = "FILLED" => e = QtyOf[i],
         status \in {"NEW", "PARTIALLY_FILLED"} => e < QtyOf[i],
         ExchangeUpdate(i, status, e), UNCHANGED <<orders, ledgerVars>>
  PROVE  /\ ExchangeTypeOK' /\ FillsMatchStatus'
         /\ LocalFillsAreReal' /\ LedgerCountsFillsOnce' /\ ReportsAreReal'
         /\ \A j \in Ids : exchange[j].executed <= exchange'[j].executed
<1> DEFINE report == [id |-> i, status |-> status, executed |-> e]
<1> USE DEF ledgerVars
<1>0. ManagerTypeOK /\ ExchangeConsistent
  BY DEF ManagerInv
<1>1. exchange' \in [Ids -> ExchangeOrders]
  BY <1>0 DEF ManagerTypeOK, ExchangeUpdate, ExchangeOrders
<1>2. report \in Reports
  BY DEF Reports
<1>3. reports' \in Seq(Reports)
  <2>1. reports' = Append(reports, report) \/ reports' = reports
    BY DEF ExchangeUpdate
  <2>2. reports \in Seq(Reports)
    BY <1>0 DEF ManagerTypeOK
  <2>3. \A r \in Reports : Append(reports, r) \in Seq(Reports)
    BY <2>2
  <2> HIDE DEF report
  <2> QED
    BY <2>1, <2>2, <2>3, <1>2
<1>4. /\ exchange'[i] = [status |-> status, executed |-> e]
      /\ \A j \in Ids : j # i => exchange'[j] = exchange[j]
  BY <1>0 DEF ManagerTypeOK, ExchangeUpdate, ExchangeOrders
<1>5. /\ \A j \in Ids : exchange[j].executed <= exchange'[j].executed
      /\ \A j \in Ids : exchange[j].status = "FILLED" =>
                          j # i /\ exchange'[j].status = "FILLED"
  <2> SUFFICES ASSUME NEW j \in Ids
               PROVE  /\ exchange[j].executed <= exchange'[j].executed
                      /\ exchange[j].status = "FILLED" =>
                           j # i /\ exchange'[j].status = "FILLED"
    OBVIOUS
  <2>1. exchange[j] \in ExchangeOrders
    BY <1>0 DEF ManagerTypeOK
  <2> QED
    BY <1>4, <2>1 DEF ExchangeOrders
<1>6. FillsMatchStatus'
  BY <1>0, <1>4 DEF FillsMatchStatus, ExchangeConsistent, Open, Statuses
<1>7. LocalFillsAreReal'
  <2> SUFFICES ASSUME NEW j \in Ids, orders[j] # Absent
               PROVE  /\ orders[j].executed <= exchange'[j].executed
                      /\ orders[j].state = "Filled" => exchange'[j].status = "FILLED"
    BY DEF LocalFillsAreReal, Known
  <2>1. orders[j] \in Snapshots /\ exchange[j].executed \in Nat /\ exchange'[j].executed \in Nat
    BY <1>0, <1>1 DEF ManagerTypeOK, Orders, ExchangeOrders
  <2>2. /\ orders[j].executed <= exchange[j].executed
        /\ orders[j].state = "Filled" => exchange[j].status = "FILLED"
    BY DEF ManagerInv, LocalFillsAreReal, Known
  <2> QED
    BY <2>1, <2>2, <1>5 DEF Snapshots
<1>8. LedgerCountsFillsOnce'
  BY <1>5 DEF ManagerInv, LedgerCountsFillsOnce
<1>9. ReportsAreReal'
  <2>1. \A n \in 1 .. Len(reports) :
          /\ reports[n] \in Reports
          /\ reports[n].executed <= exchange'[reports[n].id].executed
          /\ reports[n].status = "FILLED" =>
               /\ reports[n].id # i
               /\ exchange'[reports[n].id].status = "FILLED"
               /\ reports[n].executed = QtyOf[reports[n].id]
               /\ credited[reports[n].id] = 0
               /\ \A m \in 1 .. Len(reports) :
                    reports[m].id = reports[n].id /\ reports[m].status = "FILLED" => m = n
    <3> SUFFICES ASSUME NEW n \in 1 .. Len(reports)
                 PROVE  /\ reports[n] \in Reports
                        /\ reports[n].executed <= exchange'[reports[n].id].executed
                        /\ reports[n].status = "FILLED" =>
                             /\ reports[n].id # i
                             /\ exchange'[reports[n].id].status = "FILLED"
                             /\ reports[n].executed = QtyOf[reports[n].id]
                             /\ credited[reports[n].id] = 0
                             /\ \A m \in 1 .. Len(reports) :
                                  reports[m].id = reports[n].id /\ reports[m].status = "FILLED" => m = n
      OBVIOUS
    <3>1. reports[n] \in Reports
      BY <1>0 DEF ManagerTypeOK
    <3>2. exchange[reports[n].id].executed \in Nat /\ exchange'[reports[n].id].executed \in Nat
      BY <3>1, <1>0, <1>1 DEF ManagerTypeOK, Reports, ExchangeOrders
    <3> QED
      BY <3>1, <3>2, <1>5 DEF ManagerInv, ReportsAreReal, Reports
  <2>2. CASE reports' = reports
    BY <2>1, <2>2 DEF ReportsAreReal
  <2>3. CASE reports' = Append(reports, report)
    <3>1. /\ Len(reports') = Len(reports) + 1 /\ Len(reports) \in Nat
          /\ reports'[Len(reports) + 1] = report
          /\ \A n \in 1 .. Len(reports) : reports'[n] = reports[n]
      BY <2>3, <1>0, <1>2 DEF ManagerTypeOK
    <3>2. status = "FILLED" => credited[i] = 0
      BY DEF ManagerInv, LedgerCountsFillsOnce
    <3>3. ASSUME NEW n \in 1 .. Len(reports')
          PROVE  /\ reports'[n].executed <= exchange'[reports'[n].id].executed
                 /\ reports'[n].status = "FILLED" =>
                      /\ exchange'[reports'[n].id].status = "FILLED"
                      /\ reports'[n].executed = QtyOf[reports'[n].id]
                      /\ credited[reports'[n].id] = 0
                      /\ \A m \in 1 .. Len(reports') :
                           reports'[m].id = reports'[n].id /\ reports'[m].status = "FILLED" => m = n
      <4>1. CASE n \in 1 .. Len(reports)
        <5>1. reports'[n] = reports[n]
          BY <4>1, <3>1
        <5>2. ASSUME NEW m \in 1 .. Len(reports'), reports[n].status = "FILLED",
                     reports'[m].id = reports[n].id, reports'[m].status = "FILLED"
              PROVE  m = n
          <6>1. m # Len(reports) + 1
            BY <5>2, <4>1, <3>1, <2>1
          <6> QED
            BY <6>1, <5>2, <4>1, <3>1, <2>1
        <5> QED
          BY <4>1, <5>1, <5>2, <2>1
      <4>2. CASE n = Len(reports) + 1
        BY <4>2, <3>1, <3>2, <2>1, <1>4 DEF Reports
      <4> QED
        BY <4>1, <4>2, <3>1
    <3> QED
      BY <3>3 DEF ReportsAreReal
  <2> QED
    BY <2>2, <2>3 DEF ExchangeUpdate
<1> QED
  BY <1>1, <1>3, <1>5, <1>6, <1>7, <1>8, <1>9 DEF ExchangeTypeOK

\* The steps of submit_market keep the invariant: they write no executed
\* quantity and never the state Filled.
LEMMA SubmitKeeps ==
  ASSUME ManagerInv, NEW i \in Ids, SubmitAdmit(i) \/ SubmitStep(i)
  PROVE  ManagerInv'
<1> USE OrderAssumption DEF ledgerVars, exchangeVars
<1>0. /\ ManagerTypeOK /\ LocalFillsAreReal /\ LedgerCountsFillsOnce
      /\ ExchangeConsistent /\ ReportsAreReal /\ SnapshotsAreReal
  BY DEF ManagerInv
<1>1. /\ submission' \in [Ids -> Submissions] /\ submission'[i] # "none"
      /\ \A j \in Ids : j # i => submission'[j] = submission[j]
  BY <1>0 DEF ManagerTypeOK, Submissions, SubmitStep, SubmitAdmit, SubmitRegister,
     PlaceAccepted, PlaceThrows, SubmitAcknowledged, SubmitRejected
<1>2. UNCHANGED <<reconciled, kill, job, position, credited>>
  BY DEF SubmitStep, SubmitAdmit, SubmitRegister, PlaceAccepted, PlaceThrows,
     SubmitAcknowledged, SubmitRejected
<1>3. CASE PlaceAccepted(i)
  <2>0. UNCHANGED orders /\ submission[i] = "placing" /\ submission'[i] = "accepted"
    BY <1>0, <1>3 DEF PlaceAccepted, ManagerTypeOK
  <2>1. exchange[i].status = "none" /\ exchange[i].executed = 0 /\ 0 < QtyOf[i]
    BY <1>0, <2>0 DEF ExchangeConsistent
  <2>2. /\ ExchangeTypeOK' /\ FillsMatchStatus'
        /\ LocalFillsAreReal' /\ LedgerCountsFillsOnce' /\ ReportsAreReal'
        /\ \A j \in Ids : exchange[j].executed <= exchange'[j].executed
    BY <1>2, <1>3, <2>0, <2>1, ExchangeUpdateKeeps DEF PlaceAccepted, Statuses
  <2>3. \A j \in Ids : j # i => exchange'[j] = exchange[j]
    BY <1>0, <1>3 DEF PlaceAccepted, ExchangeUpdate, ManagerTypeOK
  <2>4. ExchangeConsistent'
    BY <1>0, <1>1, <2>0, <2>2, <2>3 DEF FillsMatchStatus, ExchangeConsistent, Open
  <2>5. SnapshotsAreReal'
    <3> SUFFICES ASSUME NEW t \in Threads, NEW j \in Ids, job[t].snapshot[j] # Absent
                 PROVE  /\ job[t].snapshot[j].executed <= exchange'[j].executed
                        /\ job[t].snapshot[j].state # "Filled"
      BY <1>2 DEF SnapshotsAreReal
    <3>1. /\ job[t].snapshot[j] \in Snapshots
          /\ exchange[j].executed \in Nat /\ exchange'[j].executed \in Nat
      BY <1>0, <2>2 DEF ManagerTypeOK, ExchangeTypeOK, Jobs, Orders, ExchangeOrders
    <3> QED
      BY <3>1, <1>0, <2>2 DEF SnapshotsAreReal, Snapshots
  <2>6. ManagerTypeOK'
    BY <1>0, <1>1, <1>2, <2>0, <2>2 DEF ManagerTypeOK, ExchangeTypeOK
  <2> QED
    BY <2>2, <2>4, <2>5, <2>6 DEF ManagerInv
<1>4. CASE SubmitAdmit(i) \/ SubmitRegister(i) \/ PlaceThrows(i)
             \/ SubmitAcknowledged(i) \/ SubmitRejected(i)
  <2>1. UNCHANGED <<exchange, reports>>
    BY <1>4 DEF SubmitAdmit, SubmitRegister, PlaceThrows, SubmitAcknowledged, SubmitRejected
  <2>2. \/ UNCHANGED orders
        \/ /\ orders' = [orders EXCEPT ![i] =
                [exchange_order_id |-> FALSE, state |-> "Pending", executed |-> 0]]
        \/ /\ orders[i] # Absent
           /\ \E b \in BOOLEAN, st \in States \ {"Filled"} :
                orders'= [orders EXCEPT ![i] =
                  [exchange_order_id |-> b, state |-> st, executed |-> orders[i].executed]]
    <3>1. CASE SubmitAdmit(i) \/ SubmitRegister(i) \/ PlaceThrows(i)
      BY <3>1 DEF SubmitAdmit, SubmitRegister, PlaceThrows
    <3>2. ASSUME orders[i] # Absent
          PROVE  orders[i] = [exchange_order_id |-> orders[i].exchange_order_id,
                              state |-> orders[i].state, executed |-> orders[i].executed]
                 /\ orders[i].exchange_order_id \in BOOLEAN
      BY <3>2, <1>0 DEF ManagerTypeOK, Orders, Snapshots
    <3>3. CASE SubmitAcknowledged(i)
      <4>1. CASE orders[i] = Absent
        BY <3>3, <4>1 DEF SubmitAcknowledged, Known
      <4>2. CASE orders[i] # Absent
        <5>1. orders' = [orders EXCEPT ![i] = [exchange_order_id |-> TRUE,
                 state |-> "Acknowledged", executed |-> orders[i].executed]]
          BY <3>2, <3>3, <4>2 DEF SubmitAcknowledged, Known
        <5> QED
          BY <5>1, <4>2 DEF States
      <4> QED
        BY <4>1, <4>2
    <3>4. CASE SubmitRejected(i)
      BY <3>2, <3>4 DEF SubmitRejected, Known, States
    <3> QED
      BY <1>4, <3>1, <3>3, <3>4
  <2>3. /\ orders' \in Orders
        /\ \A j \in Ids : orders'[j] # Absent /\ orders'[j] # orders[j] =>
             /\ orders'[j].state # "Filled"
             /\ \/ orders'[j].executed = 0
                \/ orders[j] # Absent /\ orders'[j].executed = orders[j].executed
    <3>0. orders \in Orders
      BY <1>0 DEF ManagerTypeOK
    <3>1. CASE UNCHANGED orders
      BY <3>0, <3>1
    <3>2. CASE orders' = [orders EXCEPT ![i] =
                 [exchange_order_id |-> FALSE, state |-> "Pending", executed |-> 0]]
      <4>1. [exchange_order_id |-> FALSE, state |-> "Pending", executed |-> 0] \in Snapshots
        BY DEF Snapshots, States
      <4>2. orders' \in Orders
        BY <3>0, <3>2, <4>1 DEF Orders
      <4>3. /\ orders'[i].state = "Pending" /\ orders'[i].executed = 0
            /\ \A j \in Ids : j # i => orders'[j] = orders[j]
        BY <3>0, <3>2 DEF Orders
      <4> QED
        BY <4>2, <4>3
    <3>3. ASSUME orders[i] # Absent, NEW b \in BOOLEAN, NEW st \in States \ {"Filled"},
                 orders'= [orders EXCEPT ![i] =
                   [exchange_order_id |-> b, state |-> st, executed |-> orders[i].executed]]
          PROVE  <2>3!1 /\ <2>3!2
      BY <3>0, <3>3 DEF Orders, Snapshots, States
    <3> QED
      BY <2>2, <3>1, <3>2, <3>3
  <2>4. LocalFillsAreReal'
    <3> SUFFICES ASSUME NEW j \in Ids, orders'[j] # Absent
                 PROVE  /\ orders'[j].executed <= exchange[j].executed
                        /\ orders'[j].state = "Filled" => exchange[j].status = "FILLED"
      BY <2>1 DEF LocalFillsAreReal, Known
    <3>1. exchange[j].executed \in Nat
      BY <1>0 DEF ManagerTypeOK, ExchangeOrders
    <3> QED
      BY <3>1, <2>3, <1>0 DEF LocalFillsAreReal, Known
  <2>5. ExchangeConsistent'
    <3>1. submission'[i] \in {"none", "admitted", "placing"} => exchange[i].status = "none"
      BY <1>0, <1>4 DEF SubmitAdmit, SubmitRegister, PlaceThrows, SubmitAcknowledged,
         SubmitRejected, ExchangeConsistent, ManagerTypeOK
    <3> QED
      BY <1>0, <1>1, <2>1, <3>1 DEF ExchangeConsistent, Open
  <2>6. LedgerCountsFillsOnce' /\ ReportsAreReal' /\ SnapshotsAreReal'
    BY <1>0, <1>2, <2>1 DEF LedgerCountsFillsOnce, ReportsAreReal, SnapshotsAreReal
  <2>7. ManagerTypeOK'
    BY <1>0, <1>1, <1>2, <2>1, <2>3 DEF ManagerTypeOK
  <2> QED
    BY <2>4, <2>5, <2>6, <2>7 DEF ManagerInv
<1> QED
  BY <1>3, <1>4 DEF SubmitStep

\* The steps of reconcile_startup, activate_kill_switch, cancel and resume.
LEMMA JobKeeps ==
  ASSUME ManagerInv, NEW t \in Threads,
         \/ ReconcileFetch(t) \/ KillSet(t) \/ ClearKillSwitch(t) \/ JobStep(t)
         \/ \E i \in Ids : CancelBegin(t, i)
  PROVE  ManagerInv'
<1> USE OrderAssumption DEF ledgerVars, exchangeVars
<1>0. /\ ManagerTypeOK /\ LocalFillsAreReal /\ LedgerCountsFillsOnce
      /\ ExchangeConsistent /\ ReportsAreReal /\ SnapshotsAreReal
  BY DEF ManagerInv
<1>1. NoOrders \in Orders /\ Idle \in Jobs /\ Idle.snapshot = NoOrders /\ Idle.pc # "rest"
  BY DEF NoOrders, Orders, Idle, Jobs, JobPcs
<1>2. /\ job \in [Threads -> Jobs] /\ job[t] \in Jobs
      /\ orders \in Orders /\ exchange \in [Ids -> ExchangeOrders]
  BY <1>0 DEF ManagerTypeOK
<1>3. UNCHANGED <<submission, position, credited>>
  BY DEF ReconcileFetch, KillSet, ClearKillSwitch, JobStep, ReconcileApply, KillCollect,
     CancelBegin, CancelMark, CancelRest, KillDone
<1>4. ASSUME UNCHANGED <<exchange, reports>>, reconciled' \in BOOLEAN, kill' \in BOOLEAN,
             orders' \in Orders, LocalFillsAreReal', SnapshotsAreReal',
             job' \in [Threads -> Jobs],
             \A u \in Threads : job'[u].pc = "rest" => job'[u].target \in Ids
      PROVE  ManagerInv'
  <2>1. LedgerCountsFillsOnce' /\ ExchangeConsistent' /\ ReportsAreReal'
    BY <1>0, <1>3, <1>4 DEF LedgerCountsFillsOnce, ExchangeConsistent, ReportsAreReal, Open
  <2>2. ManagerTypeOK'
    BY <1>0, <1>3, <1>4 DEF ManagerTypeOK
  <2> QED
    BY <1>4, <2>1, <2>2 DEF ManagerInv
<1>5. ASSUME UNCHANGED <<orders, exchange>> PROVE LocalFillsAreReal'
  BY <1>0, <1>5 DEF LocalFillsAreReal, Known
<1>6. CASE ReconcileFetch(t)
  <2>1. \A i \in Ids : Open(i) => /\ map[exchange[i].status] \in States
                                  /\ map[exchange[i].status] # "Filled"
    BY MapStates DEF Open, Statuses
  <2>2. OpenOrders \in Orders
    BY <2>1, <1>2 DEF OpenOrders, Orders, Snapshots, ExchangeOrders
  <2>3. \A i \in Ids : OpenOrders[i] # Absent => /\ OpenOrders[i].executed <= exchange[i].executed
                                           /\ OpenOrders[i].state # "Filled"
    BY <2>1, <1>2 DEF OpenOrders, ExchangeOrders
  <2>4. job' = [job EXCEPT ![t] = [pc |-> "apply", ids |-> {}, target |-> Absent,
                                   snapshot |-> OpenOrders]]
    BY <1>6 DEF ReconcileFetch
  <2>5. [pc |-> "apply", ids |-> {}, target |-> Absent, snapshot |-> OpenOrders] \in Jobs
    BY <2>2 DEF Jobs, JobPcs
  <2>6. /\ job'[t].pc = "apply" /\ job'[t].snapshot = OpenOrders /\ job' \in [Threads -> Jobs]
        /\ \A u \in Threads : u # t => job'[u] = job[u]
    BY <2>4, <2>5, <1>2
  <2>7. UNCHANGED <<orders, reconciled, kill, exchange, reports>>
    BY <1>6 DEF ReconcileFetch
  <2>8. SnapshotsAreReal'
    BY <1>0, <2>3, <2>6, <2>7 DEF SnapshotsAreReal
  <2>9. \A u \in Threads : job'[u].pc = "rest" => job'[u].target \in Ids
    BY <1>0, <2>6 DEF ManagerTypeOK
  <2> QED
    BY <1>0, <1>4, <1>5, <2>6, <2>7, <2>8, <2>9 DEF ManagerTypeOK
<1>7. CASE ReconcileApply(t)
  <2>1. /\ UNCHANGED <<kill, exchange, reports>> /\ reconciled' = TRUE
        /\ orders' = job[t].snapshot /\ job' = [job EXCEPT ![t] = Idle]
    BY <1>7 DEF ReconcileApply
  <2>2. orders' \in Orders
    BY <2>1, <1>2 DEF Jobs
  <2>3. /\ job'[t] = Idle /\ job' \in [Threads -> Jobs]
        /\ \A u \in Threads : u # t => job'[u] = job[u]
    BY <2>1, <1>1, <1>2
  <2>4. LocalFillsAreReal'
    BY <1>0, <2>1 DEF LocalFillsAreReal, SnapshotsAreReal, Known
  <2>5. SnapshotsAreReal'
    BY <1>0, <1>1, <2>1, <2>3 DEF SnapshotsAreReal, NoOrders
  <2>6. \A u \in Threads : job'[u].pc = "rest" => job'[u].target \in Ids
    BY <1>0, <1>1, <2>3 DEF ManagerTypeOK
  <2> QED
    BY <1>0, <1>4, <2>1, <2>2, <2>3, <2>4, <2>5, <2>6 DEF ManagerTypeOK
<1>8. CASE \/ KillSet(t) \/ KillCollect(t) \/ KillDone(t) \/ ClearKillSwitch(t)
            \/ \E i \in Ids : CancelBegin(t, i)
  <2>1. UNCHANGED <<orders, reconciled, exchange, reports>> /\ kill' \in BOOLEAN
    BY <1>0, <1>8 DEF KillSet, KillCollect, KillDone, ClearKillSwitch, CancelBegin,
       ManagerTypeOK
  <2>2. /\ job' \in [Threads -> Jobs]
        /\ \A u \in Threads : u # t => job'[u] = job[u]
        /\ job'[t].snapshot = job[t].snapshot \/ job'[t] = Idle
        /\ job'[t].pc = "rest" => job'[t] = job[t]
    <3>1. CASE KillSet(t)
      BY <3>1, <1>2 DEF KillSet, Jobs, JobPcs
    <3>2. CASE KillCollect(t)
      BY <3>2, <1>2 DEF KillCollect, Jobs, JobPcs
    <3>3. CASE KillDone(t)
      BY <3>3, <1>1, <1>2 DEF KillDone
    <3>4. CASE ClearKillSwitch(t)
      BY <3>4, <1>2 DEF ClearKillSwitch
    <3>5. CASE \E i \in Ids : CancelBegin(t, i)
      <4>1. PICK i \in Ids : CancelBegin(t, i)
        BY <3>5
      <4>2. job' = [job EXCEPT ![t].pc = "cancel", ![t].ids = {i}] /\ {i} \in SUBSET Ids
        BY <4>1 DEF CancelBegin
      <4> QED
        BY <4>2, <1>2 DEF Jobs, JobPcs
    <3> QED
      BY <1>8, <3>1, <3>2, <3>3, <3>4, <3>5
  <2>3. SnapshotsAreReal'
    BY <1>0, <1>1, <2>1, <2>2 DEF SnapshotsAreReal, NoOrders
  <2>4. \A u \in Threads : job'[u].pc = "rest" => job'[u].target \in Ids
    BY <1>0, <2>2 DEF ManagerTypeOK
  <2> QED
    BY <1>0, <1>4, <1>5, <2>1, <2>2, <2>3, <2>4 DEF ManagerTypeOK
<1>9. ASSUME NEW i \in Ids, CancelMark(t, i) PROVE ManagerInv'
  <2>1. UNCHANGED <<reconciled, kill, exchange, reports>>
    BY <1>9 DEF CancelMark
  <2>2. /\ job' \in [Threads -> Jobs]
        /\ \A u \in Threads : u # t => job'[u] = job[u]
        /\ job'[t].snapshot = job[t].snapshot
        /\ job'[t].pc = "rest" => job'[t].target = i
    <3>1. CASE Unresolved(i)
      BY <3>1, <1>2, <1>9 DEF CancelMark, Jobs, JobPcs
    <3>2. CASE ~Unresolved(i)
      BY <3>2, <1>2, <1>9 DEF CancelMark, Jobs, JobPcs
    <3> QED
      BY <3>1, <3>2
  <2>3. SnapshotsAreReal'
    BY <1>0, <2>1, <2>2 DEF SnapshotsAreReal
  <2>4. \A u \in Threads : job'[u].pc = "rest" => job'[u].target \in Ids
    BY <1>0, <2>2 DEF ManagerTypeOK
  <2>5. orders' \in Orders /\ LocalFillsAreReal'
    <3>1. CASE Unresolved(i)
      <4>1. orders' = [orders EXCEPT ![i].state = "Cancelling"] /\ orders[i] \in Snapshots
        BY <3>1, <1>2, <1>9 DEF CancelMark, Unresolved, Known, Orders
      <4>2. /\ orders'[i] \in Snapshots /\ orders'[i].state = "Cancelling"
            /\ orders'[i].executed = orders[i].executed
            /\ \A j \in Ids : j # i => orders'[j] = orders[j]
        BY <4>1, <1>2 DEF Orders, Snapshots, States
      <4>3. orders' \in Orders
        BY <4>1, <4>2, <1>2 DEF Orders
      <4>4. orders[i] # Absent
        BY <3>1 DEF Unresolved, Known
      <4> QED
        BY <1>0, <2>1, <4>2, <4>3, <4>4 DEF LocalFillsAreReal, Known
    <3>2. CASE ~Unresolved(i)
      BY <3>2, <1>2, <1>5, <1>9, <2>1 DEF CancelMark
    <3> QED
      BY <3>1, <3>2
  <2> QED
    BY <1>0, <1>4, <2>1, <2>2, <2>3, <2>4, <2>5 DEF ManagerTypeOK
<1>10. CASE CancelRest(t)
  <2> DEFINE i == job[t].target
  <2>0. i \in Ids
    BY <1>0, <1>10 DEF ManagerTypeOK, CancelRest
  <2> HIDE DEF i
  <2>1. UNCHANGED <<orders, reconciled, kill>>
    BY <1>10 DEF CancelRest
  <2>2. /\ job' \in [Threads -> Jobs]
        /\ \A u \in Threads : u # t => job'[u] = job[u]
        /\ job'[t].snapshot = job[t].snapshot /\ job'[t].pc = "cancel"
    BY <1>2, <1>10 DEF CancelRest, Jobs, JobPcs
  <2>4. \A u \in Threads : job'[u].pc = "rest" => job'[u].target \in Ids
    BY <1>0, <2>2 DEF ManagerTypeOK
  <2>5. CASE UNCHANGED <<exchange, reports>>
    <3>1. SnapshotsAreReal'
      BY <1>0, <2>2, <2>5 DEF SnapshotsAreReal
    <3> QED
      BY <1>0, <1>2, <1>4, <1>5, <2>1, <2>2, <2>4, <2>5, <3>1 DEF ManagerTypeOK
  <2>6. CASE Open(i) /\ ExchangeUpdate(i, "CANCELED", exchange[i].executed)
    <3>1. /\ ExchangeTypeOK' /\ FillsMatchStatus'
          /\ LocalFillsAreReal' /\ LedgerCountsFillsOnce' /\ ReportsAreReal'
          /\ \A j \in Ids : exchange[j].executed <= exchange'[j].executed
      <4>1. exchange[i].executed \in Nat
        BY <1>2, <2>0 DEF ExchangeOrders
      <4> QED
        BY <1>3, <2>0, <2>1, <2>6, <4>1, ExchangeUpdateKeeps DEF Open, Statuses
    <3>2. /\ \A j \in Ids : j # i => exchange'[j] = exchange[j]
          /\ submission[i] \notin {"none", "admitted", "placing"}
      BY <1>0, <1>2, <2>0, <2>6 DEF ExchangeUpdate, ExchangeConsistent, Open
    <3>3. ExchangeConsistent'
      BY <1>0, <1>3, <3>1, <3>2 DEF ExchangeConsistent, FillsMatchStatus, Open
    <3>4. SnapshotsAreReal'
      <4> SUFFICES ASSUME NEW u \in Threads, NEW j \in Ids, job[u].snapshot[j] # Absent
                   PROVE  /\ job[u].snapshot[j].executed <= exchange'[j].executed
                          /\ job[u].snapshot[j].state # "Filled"
        BY <2>2 DEF SnapshotsAreReal
      <4>1. /\ job[u].snapshot[j] \in Snapshots
            /\ exchange[j].executed \in Nat /\ exchange'[j].executed \in Nat
        BY <1>2, <3>1 DEF ExchangeTypeOK, Jobs, Orders, ExchangeOrders
      <4> QED
        BY <4>1, <1>0, <3>1 DEF SnapshotsAreReal, Snapshots
    <3>5. ManagerTypeOK'
      BY <1>0, <1>3, <2>1, <2>2, <2>4, <3>1 DEF ManagerTypeOK, ExchangeTypeOK
    <3> QED
      BY <3>1, <3>3, <3>4, <3>5 DEF ManagerInv
  <2> QED
    BY <1>10, <2>5, <2>6 DEF CancelRest, i
<1> QED
  BY <1>6, <1>7, <1>8, <1>9, <1>10 DEF JobStep

\* The steps of the exchange and of the connection.
LEMMA ExchangeKeeps ==
  ASSUME ManagerInv, ExchangeStep \/ ReportsLost PROVE ManagerInv'
<1> USE OrderAssumption DEF ledgerVars, exchangeVars
<1>0. /\ ManagerTypeOK /\ LocalFillsAreReal /\ LedgerCountsFillsOnce
      /\ ExchangeConsistent /\ ReportsAreReal /\ SnapshotsAreReal
  BY DEF ManagerInv
<1>1. UNCHANGED <<orders, reconciled, kill, submission, job, position, credited>>
  BY DEF ExchangeStep, ExchangeFill, ExchangeExpire, ReportsLost
<1>2. CASE ReportsLost
  <2>1. reports' = <<>> /\ exchange' = exchange
    BY <1>2 DEF ReportsLost
  <2>2. reports' \in Seq(Reports) /\ ReportsAreReal'
    BY <2>1 DEF ReportsAreReal
  <2>3. LocalFillsAreReal' /\ LedgerCountsFillsOnce' /\ ExchangeConsistent' /\ SnapshotsAreReal'
    BY <1>0, <1>1, <2>1 DEF LocalFillsAreReal, LedgerCountsFillsOnce, ExchangeConsistent,
       SnapshotsAreReal, Known, Open
  <2>4. ManagerTypeOK'
    BY <1>0, <1>1, <2>1, <2>2 DEF ManagerTypeOK
  <2> QED
    BY <2>2, <2>3, <2>4 DEF ManagerInv
<1>3. ASSUME NEW i \in Ids, ExchangeFill(i) \/ ExchangeExpire(i) PROVE ManagerInv'
  <2>1. Open(i) /\ exchange[i].executed \in Nat /\ QtyOf[i] \in Nat
    BY <1>0, <1>3 DEF ExchangeFill, ExchangeExpire, ManagerTypeOK, ExchangeOrders
  <2>2. \E status \in Statuses, e \in Nat :
          /\ ExchangeUpdate(i, status, e) /\ exchange[i].executed <= e
          /\ status = "FILLED" => e = QtyOf[i]
          /\ status \in {"NEW", "PARTIALLY_FILLED"} => e < QtyOf[i]
    <3>1. CASE ExchangeFill(i)
      <4>1. PICK e \in (exchange[i].executed + 1) .. QtyOf[i] :
              ExchangeUpdate(i, IF e = QtyOf[i] THEN "FILLED" ELSE "PARTIALLY_FILLED", e)
        BY <3>1 DEF ExchangeFill
      <4>2. e \in Nat /\ exchange[i].executed <= e /\ e <= QtyOf[i]
        BY <2>1
      <4>3. CASE e = QtyOf[i]
        BY <4>1, <4>2, <4>3 DEF Statuses
      <4>4. CASE e # QtyOf[i]
        BY <2>1, <4>1, <4>2, <4>4 DEF Statuses
      <4> QED
        BY <4>3, <4>4
    <3>2. CASE ExchangeExpire(i)
      BY <2>1, <3>2 DEF ExchangeExpire, Statuses
    <3> QED
      BY <1>3, <3>1, <3>2
  <2>3. PICK status \in Statuses, e \in Nat :
          /\ ExchangeUpdate(i, status, e) /\ exchange[i].executed <= e
          /\ status = "FILLED" => e = QtyOf[i]
          /\ status \in {"NEW", "PARTIALLY_FILLED"} => e < QtyOf[i]
    BY <2>2
  <2>4. /\ ExchangeTypeOK' /\ FillsMatchStatus'
        /\ LocalFillsAreReal' /\ LedgerCountsFillsOnce' /\ ReportsAreReal'
        /\ \A j \in Ids : exchange[j].executed <= exchange'[j].executed
    BY <1>1, <2>1, <2>3, ExchangeUpdateKeeps DEF Open
  <2>5. /\ \A j \in Ids : j # i => exchange'[j] = exchange[j]
        /\ submission[i] \notin {"none", "admitted", "placing"}
    BY <1>0, <2>1, <2>3 DEF ExchangeUpdate, ExchangeConsistent, Open, ManagerTypeOK
  <2>6. ExchangeConsistent'
    BY <1>0, <1>1, <2>4, <2>5 DEF ExchangeConsistent, FillsMatchStatus, Open
  <2>7. SnapshotsAreReal'
    <3> SUFFICES ASSUME NEW u \in Threads, NEW j \in Ids, job[u].snapshot[j] # Absent
                 PROVE  /\ job[u].snapshot[j].executed <= exchange'[j].executed
                        /\ job[u].snapshot[j].state # "Filled"
      BY <1>1 DEF SnapshotsAreReal
    <3>1. /\ job[u].snapshot[j] \in Snapshots
          /\ exchange[j].executed \in Nat /\ exchange'[j].executed \in Nat
      BY <1>0, <2>4 DEF ExchangeTypeOK, Jobs, Orders, ExchangeOrders, ManagerTypeOK
    <3> QED
      BY <3>1, <1>0, <2>4 DEF SnapshotsAreReal, Snapshots
  <2>8. ManagerTypeOK'
    BY <1>0, <1>1, <2>4 DEF ManagerTypeOK, ExchangeTypeOK
  <2> QED
    BY <2>4, <2>6, <2>7, <2>8 DEF ManagerInv
<1> QED
  BY <1>2, <1>3 DEF ExchangeStep

\* A report is applied and the ledger told: the only step that writes Filled.
LEMMA ReportKeeps ==
  ASSUME ManagerInv, on_user_data_event PROVE ManagerInv'
<1> USE OrderAssumption DEF ledgerVars, exchangeVars
<1> DEFINE r == reports[1]
           s == [exchange_order_id |-> TRUE, state |-> map[r.status], executed |-> r.executed]
<1>0. /\ ManagerTypeOK /\ LocalFillsAreReal /\ LedgerCountsFillsOnce
      /\ ExchangeConsistent /\ ReportsAreReal /\ SnapshotsAreReal
  BY DEF ManagerInv
<1>1. /\ Head(reports) = reports[1] /\ 1 \in 1 .. Len(reports)
      /\ reports \in Seq(Reports) /\ reports # <<>>
  BY <1>0 DEF ManagerTypeOK, on_user_data_event
<1>2. r \in Reports /\ r.id \in Ids /\ r.status \in Statuses /\ r.executed \in Nat
  <2>1. r \in Reports
    BY <1>1
  <2> QED
    BY <2>1 DEF Reports
<1>3. /\ s \in Snapshots /\ s.executed = r.executed /\ s.state = map[r.status]
      /\ s.state = "Filled" <=> r.status = "FILLED"
  BY <1>2, MapStates DEF Snapshots
<1>4. /\ orders' = [orders EXCEPT ![r.id] = s] /\ LedgerUpdate(r.id, s)
      /\ reports' = Tail(reports)
      /\ UNCHANGED <<reconciled, kill, submission, job, exchange>>
  BY <1>1 DEF on_user_data_event
<1>5. /\ r.executed <= exchange[r.id].executed
      /\ r.status = "FILLED" =>
           /\ exchange[r.id].status = "FILLED" /\ r.executed = QtyOf[r.id] /\ credited[r.id] = 0
           /\ \A m \in 1 .. Len(reports) :
                reports[m].id = r.id /\ reports[m].status = "FILLED" => m = 1
  BY <1>0, <1>1 DEF ReportsAreReal
<1>6. LocalFillsAreReal' /\ orders' \in Orders
  <2>1. orders' \in Orders /\ orders'[r.id] = s
        /\ \A j \in Ids : j # r.id => orders'[j] = orders[j]
    BY <1>0, <1>2, <1>3, <1>4 DEF ManagerTypeOK, Orders
  <2> HIDE DEF s, r
  <2> QED
    BY <1>0, <1>3, <1>4, <1>5, <2>1 DEF LocalFillsAreReal, Known
<1>7. /\ credited' \in [Ids -> Nat] /\ position' \in Nat
      /\ \A j \in Ids : credited'[j] # credited[j] =>
           j = r.id /\ r.status = "FILLED" /\ credited'[j] = QtyOf[j]
  <2>0. credited \in [Ids -> Nat] /\ position \in Nat
    BY <1>0 DEF ManagerTypeOK
  <2> HIDE DEF s, r
  <2>1. CASE ~exchange_confirmed_fill(s)
    BY <1>4, <2>0, <2>1 DEF LedgerUpdate
  <2>2. CASE exchange_confirmed_fill(s)
    <3>1. r.status = "FILLED"
      BY <1>3, <2>0, <2>2 DEF exchange_confirmed_fill
    <3>2. credited' = [credited EXCEPT ![r.id] = @ + r.executed] /\ position' \in Nat
      BY <1>2, <1>3, <1>4, <2>0, <2>2 DEF LedgerUpdate
    <3> QED
      BY <1>2, <1>5, <2>0, <3>1, <3>2
  <2> QED
    BY <2>1, <2>2
<1>8. LedgerCountsFillsOnce'
  BY <1>0, <1>2, <1>4, <1>5, <1>7 DEF LedgerCountsFillsOnce
<1>9. reports' \in Seq(Reports) /\ ReportsAreReal'
  <2>1. /\ reports' \in Seq(Reports) /\ Len(reports) \in Nat /\ Len(reports') = Len(reports) - 1
        /\ \A n \in 1 .. Len(reports') : reports'[n] = reports[n + 1] /\ n + 1 \in 1 .. Len(reports)
    BY <1>1, <1>4
  <2>2. ASSUME NEW n \in 1 .. Len(reports')
        PROVE  /\ reports'[n].executed <= exchange[reports'[n].id].executed
               /\ reports'[n].status = "FILLED" =>
                    /\ exchange[reports'[n].id].status = "FILLED"
                    /\ reports'[n].executed = QtyOf[reports'[n].id]
                    /\ credited'[reports'[n].id] = 0
                    /\ \A m \in 1 .. Len(reports') :
                         reports'[m].id = reports'[n].id /\ reports'[m].status = "FILLED" => m = n
    <3>1. /\ reports'[n] = reports[n + 1] /\ n + 1 \in 1 .. Len(reports) /\ n + 1 # 1
          /\ reports[n + 1] \in Reports
      BY <1>1, <2>1
    <3>2. reports[n + 1].id \in Ids
      BY <3>1 DEF Reports
    <3>3. /\ reports[n + 1].executed <= exchange[reports[n + 1].id].executed
          /\ reports[n + 1].status = "FILLED" =>
               /\ exchange[reports[n + 1].id].status = "FILLED"
               /\ reports[n + 1].executed = QtyOf[reports[n + 1].id]
               /\ credited[reports[n + 1].id] = 0
               /\ \A m \in 1 .. Len(reports) :
                    reports[m].id = reports[n + 1].id /\ reports[m].status = "FILLED" => m = n + 1
      BY <1>0, <3>1 DEF ReportsAreReal
    <3>4. reports[n + 1].status = "FILLED" => credited'[reports[n + 1].id] = 0
      BY <1>5, <1>7, <3>1, <3>2, <3>3
    <3>5. ASSUME NEW m \in 1 .. Len(reports'), reports[n + 1].status = "FILLED",
                 reports'[m].id = reports[n + 1].id, reports'[m].status = "FILLED"
          PROVE  m = n
      <4>1. m + 1 = n + 1
        BY <2>1, <3>3, <3>5
      <4> QED
        BY <2>1, <4>1
    <3> QED
      BY <3>1, <3>3, <3>4, <3>5
  <2> QED
    BY <1>4, <2>1, <2>2 DEF ReportsAreReal
<1>10. ExchangeConsistent' /\ SnapshotsAreReal'
  BY <1>0, <1>4 DEF ExchangeConsistent, SnapshotsAreReal, Open
<1>11. ManagerTypeOK'
  BY <1>0, <1>4, <1>6, <1>7, <1>9 DEF ManagerTypeOK
<1> QED
  BY <1>6, <1>8, <1>9, <1>10, <1>11 DEF ManagerInv

\* Every step of the manager, the exchange or the connection keeps it.
LEMMA NextManagerInv == ManagerInv /\ [ManagerNext]_managerVars => ManagerInv'
<1> SUFFICES ASSUME ManagerInv, [ManagerNext]_managerVars PROVE ManagerInv'
  OBVIOUS
<1>1. CASE UNCHANGED managerVars
  <2> USE <1>1 DEF managerVars, ManagerInv
  <2>1. ManagerTypeOK'
    BY DEF ManagerTypeOK
  <2>2. LocalFillsAreReal' /\ ReportsAreReal' /\ SnapshotsAreReal'
    BY DEF LocalFillsAreReal, ReportsAreReal, SnapshotsAreReal, Known
  <2>3. LedgerCountsFillsOnce' /\ ExchangeConsistent'
    BY DEF LedgerCountsFillsOnce, ExchangeConsistent, Known, Open
  <2> QED
    BY <2>1, <2>2, <2>3
<1> QED
  BY <1>1, SubmitKeeps, JobKeeps, ExchangeKeeps, ReportKeeps DEF ManagerNext

\* The inductive invariant holds in every reachable state.
LEMMA SpecManagerInv == ManagerSpec => []ManagerInv
  BY InitManagerInv, NextManagerInv, PTL DEF ManagerSpec

\* The manager's variables keep their types, whatever callers, exchange and
\* stream do.
THEOREM ManagerTypeCorrect == ManagerSpec => []ManagerTypeOK
<1>1. ManagerInv => ManagerTypeOK
  BY DEF ManagerInv
<1> QED
  BY <1>1, SpecManagerInv, PTL

\* OrderManager never shows an order as more filled than the exchange has it,
\* however acknowledgements, reports, cancellations and reconciliations of any
\* number of threads interleave.
THEOREM FillsAreReal == ManagerSpec => []LocalFillsAreReal
<1>1. ManagerInv => LocalFillsAreReal
  BY DEF ManagerInv
<1> QED
  BY <1>1, SpecManagerInv, PTL

\* ConfirmedPositionLedger counts each order at most once and for exactly the
\* quantity the exchange filled.
THEOREM LedgerIsExact == ManagerSpec => []LedgerCountsFillsOnce
<1>1. ManagerInv => LedgerCountsFillsOnce
  BY DEF ManagerInv
<1> QED
  BY <1>1, SpecManagerInv, PTL

-----------------------------------------------------------------------------
(* The session *)

\* Each step of a session thread is a step of the manager or leaves it alone.
LEMMA ThreadUsesManager ==
  ASSUME NEW t \in SessionThreads, ThreadStep(t)
  PROVE  [ManagerNext]_managerVars
<1>1. t \in Threads
  BY SessionAssumption
<1>2. CASE KillBegin(t)
  BY <1>1, <1>2 DEF KillBegin, ManagerNext
<1>3. CASE Fetch(t)
  BY <1>1, <1>3 DEF Fetch, ManagerNext
<1>4. CASE Apply(t)
  BY <1>1, <1>4 DEF Apply, ManagerNext, JobStep
<1>5. CASE StopStream(t)
  BY <1>5 DEF StopStream, ManagerNext
<1>6. CASE KillReturn(t) \/ RecoverBegin(t) \/ OpenStream(t) \/ LoadKill(t)
             \/ StoreReady(t) \/ Recovered(t) \/ Thrown(t)
  BY <1>6 DEF KillReturn, RecoverBegin, OpenStream, LoadKill, StoreReady, Recovered, Thrown
<1> QED
  BY <1>2, <1>3, <1>4, <1>5, <1>6 DEF ThreadStep

\* Every step of a session is a step of the manager or leaves it alone.
LEMMA StepUsesManager == [SessionNext]_vars => [ManagerNext]_managerVars
<1> SUFFICES ASSUME [SessionNext]_vars PROVE [ManagerNext]_managerVars
  OBVIOUS
<1> USE SessionAssumption DEF SessionThreads
<1>1. CASE UNCHANGED vars
  BY <1>1 DEF vars
<1>2. CASE start \/ stop \/ resume_after_reconcile \/ killCall
  BY <1>2 DEF start, stop, resume_after_reconcile, killCall
<1>3. CASE ThreadStep("owner") \/ ThreadStep("supervisor") \/ ThreadStep("killer")
  BY <1>3, ThreadUsesManager
<1>4. CASE ResumeClear
  BY <1>4 DEF ResumeClear, ManagerNext
<1>5. CASE ResumeReady \/ StopJoin
  BY <1>5 DEF ResumeReady, StopJoin
<1>6. CASE StopClose \/ StreamInterrupted
  BY <1>6 DEF StopClose, StreamInterrupted, ManagerNext
<1>7. CASE SupervisorWake \/ KeepaliveDue \/ KeepaliveFails \/ StreamConnects
  BY <1>7 DEF SupervisorWake, KeepaliveDue, KeepaliveFails, StreamConnects
<1>8. CASE \E i \in Ids : submit(i)
  BY <1>8 DEF submit, ManagerNext
<1>9. CASE ManagerStep
  BY <1>9 DEF ManagerStep, ManagerNext
<1>10. CASE StreamDelivers
  BY <1>10 DEF StreamDelivers, ManagerNext
<1> QED
  BY <1>1, <1>2, <1>3, <1>4, <1>5, <1>6, <1>7, <1>8, <1>9, <1>10
     DEF SessionNext, OwnerStep, SupervisorStep

\* LiveOrderSession drives OrderManager only through its operations: every
\* behaviour of a session is one of the manager's specification.
LEMMA SessionUsesManager == SessionSafetySpec => ManagerSpec
<1>1. SessionInit => ManagerInit
  BY DEF SessionInit
<1> QED
  BY <1>1, StepUsesManager, PTL DEF SessionSafetySpec, ManagerSpec

\* In every session the ledger counts each order at most once and exactly.
COROLLARY SessionLedgerIsExact == SessionSafetySpec => []LedgerCountsFillsOnce
  BY SessionUsesManager, LedgerIsExact, PTL

-----------------------------------------------------------------------------
\* Why ready_ implies reconciled_: every path that stores true in ready_ has
\* completed a reconciliation, and reconciled_ is never reset.
AfterReconciling == Replacing \cup {"replace", "recovered", "clear", "resumed"}

ReadyInv ==
  /\ ReadyIsReconciled
  /\ pc \in [SessionThreads -> Pcs]
  /\ \A t \in SessionThreads :
       pc[t] \in AfterReconciling => reconciled

\* The manager never takes a reconciliation back.
LEMMA ReconciledStays ==
  ASSUME [ManagerNext]_managerVars, reconciled PROVE reconciled'
<1> USE DEF managerVars
<1>1. ASSUME NEW i \in Ids, SubmitAdmit(i) \/ SubmitStep(i) PROVE reconciled'
  BY <1>1 DEF SubmitStep, SubmitAdmit, SubmitRegister, PlaceAccepted, PlaceThrows,
     SubmitAcknowledged, SubmitRejected
<1>2. ASSUME NEW t \in Threads,
             \/ ReconcileFetch(t) \/ KillSet(t) \/ ClearKillSwitch(t) \/ JobStep(t)
             \/ \E i \in Ids : CancelBegin(t, i)
      PROVE  reconciled'
  BY <1>2 DEF ReconcileFetch, KillSet, ClearKillSwitch, JobStep, ReconcileApply,
     KillCollect, CancelBegin, CancelMark, CancelRest, KillDone
<1>3. CASE on_user_data_event \/ ReportsLost \/ ExchangeStep
  BY <1>3 DEF on_user_data_event, ReportsLost, ExchangeStep, ExchangeFill, ExchangeExpire
<1> QED
  BY <1>1, <1>2, <1>3 DEF ManagerNext

\* A step that leaves ready_ and the program counters to what the invariant
\* already allows keeps it.
LEMMA ReadyKept ==
  ASSUME ReadyInv, [SessionNext]_vars,
         pc' \in [SessionThreads -> Pcs],
         ready' => ready \/ reconciled,
         \A t \in SessionThreads :
           pc'[t] \in AfterReconciling =>
             \/ reconciled'
             \/ pc[t] \in AfterReconciling
  PROVE  ReadyInv'
<1>1. reconciled => reconciled'
  BY StepUsesManager, ReconciledStays
<1> QED
  BY <1>1 DEF ReadyInv, ReadyIsReconciled

\* Every step of a session keeps the inductive invariant.
LEMMA NextReadyInv == ReadyInv /\ [SessionNext]_vars => ReadyInv'
<1> SUFFICES ASSUME ReadyInv, [SessionNext]_vars PROVE ReadyInv'
  OBVIOUS
<1> USE DEF SessionThreads, Goto, Return, sessionVars, Pcs, AfterReconciling, Replacing
<1>0. pc \in [SessionThreads -> Pcs]
  BY DEF ReadyInv
<1>1. ASSUME NEW t \in SessionThreads, ThreadStep(t) PROVE ReadyInv'
  <2>1. CASE KillBegin(t)
    BY <1>0, <2>1, ReadyKept DEF KillBegin
  <2>2. CASE KillReturn(t)
    BY <1>0, <2>2, ReadyKept DEF KillReturn
  <2>3. CASE RecoverBegin(t)
    BY <1>0, <2>3, ReadyKept DEF RecoverBegin
  <2>4. CASE Fetch(t)
    BY <1>0, <2>4, ReadyKept DEF Fetch
  <2>5. CASE Apply(t)
    BY <1>0, <2>5, ReadyKept DEF Apply, ReconcileApply
  <2>6. CASE StopStream(t)
    BY <1>0, <2>6, ReadyKept DEF StopStream
  <2>7. CASE OpenStream(t)
    BY <1>0, <2>7, ReadyKept DEF OpenStream
  <2>8. CASE Recovered(t)
    BY <1>0, <2>8, ReadyKept DEF Recovered
  <2>9. CASE Thrown(t)
    BY <1>0, <2>9, ReadyKept DEF Thrown
  <2>10. CASE LoadKill(t)
    BY <1>0, <2>10, ReadyKept DEF LoadKill
  <2>11. CASE StoreReady(t)
    <3>1. reconciled
      BY <2>11 DEF StoreReady, ReadyInv
    <3> QED
      BY <1>0, <2>11, <3>1, ReadyKept DEF StoreReady
  <2> QED
    BY <1>1, <2>1, <2>2, <2>3, <2>4, <2>5, <2>6, <2>7, <2>8, <2>9, <2>10, <2>11 DEF ThreadStep
<1>2. CASE start \/ stop \/ resume_after_reconcile \/ killCall
  BY <1>0, <1>2, ReadyKept DEF start, stop, resume_after_reconcile, killCall
<1>3. CASE ResumeClear
  BY <1>0, <1>3, ReadyKept DEF ResumeClear
<1>4. CASE ResumeReady
  <2>1. reconciled
    BY <1>4 DEF ResumeReady, ReadyInv
  <2> QED
    BY <1>0, <1>4, <2>1, ReadyKept DEF ResumeReady
<1>5. CASE StopJoin \/ StopClose
  BY <1>0, <1>5, ReadyKept DEF StopJoin, StopClose
<1>6. CASE SupervisorWake \/ KeepaliveDue \/ KeepaliveFails
  BY <1>0, <1>6, ReadyKept DEF SupervisorWake, KeepaliveDue, KeepaliveFails
<1>7. CASE UNCHANGED <<pc, ready>>
  BY <1>0, <1>7, ReadyKept
<1>8. CASE StreamConnects \/ StreamInterrupted \/ StreamDelivers \/ ManagerStep
             \/ (\E i \in Ids : submit(i)) \/ UNCHANGED vars
  BY <1>7, <1>8 DEF StreamConnects, StreamInterrupted, StreamDelivers, ManagerStep, submit, vars
<1> QED
  BY <1>1, <1>2, <1>3, <1>4, <1>5, <1>6, <1>8 DEF SessionNext, OwnerStep, SupervisorStep

\* Submissions are enabled only after a reconciliation, in every interleaving
\* of start, resume, kill, stop and the supervisor.
THEOREM ReadyAfterReconciliation == SessionSafetySpec => []ReadyIsReconciled
<1>1. SessionInit => ReadyInv
  <2> SUFFICES ASSUME SessionInit PROVE ReadyInv
    OBVIOUS
  <2>1. pc = [t \in SessionThreads |-> IF t = "supervisor" THEN "off" ELSE "idle"] /\ ~ready
    BY DEF SessionInit
  <2>2. pc \in [SessionThreads -> Pcs]
    BY <2>1 DEF Pcs
  <2>3. \A t \in SessionThreads : pc[t] \in {"off", "idle"}
    BY <2>1
  <2> QED
    BY <2>1, <2>2, <2>3 DEF ReadyInv, ReadyIsReconciled, AfterReconciling, Replacing
<1>2. ReadyInv => ReadyIsReconciled
  BY DEF ReadyInv
<1> QED
  BY <1>1, <1>2, NextReadyInv, PTL DEF SessionSafetySpec

-----------------------------------------------------------------------------
\* Nothing but the owner's resume clears the kill switch.
LEMMA KillStays ==
  ASSUME [SessionNext]_vars, kill, ~kill'
  PROVE  ResumeClear
<1> USE DEF managerVars, vars
<1>1. ASSUME NEW t, ThreadStep(t) PROVE kill'
  BY <1>1 DEF ThreadStep, KillBegin, KillSet, KillReturn, RecoverBegin, Fetch, ReconcileFetch,
     Apply, ReconcileApply, StopStream, ReportsLost, OpenStream, LoadKill,
     StoreReady, Recovered, Thrown
<1>2. CASE start \/ stop \/ resume_after_reconcile \/ killCall \/ KeepaliveDue
  BY <1>2 DEF start, stop, resume_after_reconcile, killCall, KeepaliveDue
<1>3. CASE ResumeReady \/ StopJoin \/ StopClose \/ SupervisorWake \/ KeepaliveFails
  BY <1>3 DEF ResumeReady, StopJoin, StopClose, SupervisorWake, KeepaliveFails, ReportsLost
<1>4. ASSUME NEW i \in Ids, submit(i) PROVE kill'
  BY <1>4 DEF submit, SubmitAdmit
<1>5. CASE ManagerStep
  <2>1. ASSUME NEW i \in Ids, SubmitStep(i) PROVE kill'
    BY <2>1 DEF SubmitStep, SubmitRegister, PlaceAccepted, PlaceThrows, SubmitAcknowledged,
       SubmitRejected
  <2>2. ASSUME NEW t, JobStep(t) PROVE kill'
    BY <2>2 DEF JobStep, ReconcileApply, KillCollect, CancelMark, CancelRest, KillDone
  <2>3. CASE ExchangeStep
    BY <2>3 DEF ExchangeStep, ExchangeFill, ExchangeExpire
  <2> QED
    BY <1>5, <2>1, <2>2, <2>3 DEF ManagerStep
<1>6. CASE StreamConnects \/ StreamInterrupted \/ StreamDelivers
  BY <1>6 DEF StreamConnects, StreamInterrupted, ReportsLost, StreamDelivers, on_user_data_event
<1> QED
  BY <1>1, <1>2, <1>3, <1>4, <1>5, <1>6 DEF SessionNext, OwnerStep, SupervisorStep

\* KillIsLatched: a kill() from any thread survives every interleaving until
\* resume_after_reconcile finds every known order resolved.
THEOREM KillStaysLatched == SessionSafetySpec => KillIsLatched
<1>1. [SessionNext]_vars =>
        [kill /\ ~kill' => pc["owner"] = "clear" /\ \A i \in Ids : ~Unresolved(i)]_vars
  <2> SUFFICES ASSUME [SessionNext]_vars, kill, ~kill'
               PROVE  pc["owner"] = "clear" /\ \A i \in Ids : ~Unresolved(i)
    OBVIOUS
  <2>1. ResumeClear
    BY KillStays
  <2> QED
    BY <2>1 DEF ResumeClear, ClearKillSwitch, managerVars
<1> QED
  BY <1>1, PTL DEF SessionSafetySpec, KillIsLatched

-----------------------------------------------------------------------------
Tasks == {"none", "start", "stop", "resume", "kill", "supervise"}

\* Which thread does what: only the owner starts, resumes and stops.
RolesInv ==
  /\ pc \in [SessionThreads -> Pcs] /\ task \in [SessionThreads -> Tasks]
  /\ task["owner"] \in {"none", "start", "stop", "resume"}
  /\ task["supervisor"] \in {"none", "supervise"}
  /\ task["killer"] \in {"none", "kill"} /\ pc["killer"] \in {"idle", "kill", "killing"}

\* How far stop() has come, and what nobody undoes behind its back.
StoppingInv ==
  /\ pc["owner"] \in {"kill", "killing", "join", "close", "stopped"} =>
       task["owner"] = "stop" /\ ~started
  /\ pc["owner"] \in {"killing", "join", "close", "stopped"} => kill
  /\ pc["owner"] \in {"close", "stopped"} => pc["supervisor"] \in {"off", "exited"}
  /\ pc["owner"] = "stopped" => stream = "none"

QuietInv == RolesInv /\ StoppingInv

LEMMA NextRolesInv == RolesInv /\ [SessionNext]_vars => RolesInv'
<1> SUFFICES ASSUME RolesInv, [SessionNext]_vars PROVE RolesInv'
  OBVIOUS
<1> USE DEF RolesInv, SessionThreads, Goto, Return, sessionVars, Pcs, Tasks
<1>1. ASSUME NEW t \in SessionThreads, ThreadStep(t) PROVE RolesInv'
  <2>1. CASE KillBegin(t)
    BY <2>1 DEF KillBegin
  <2>2. CASE KillReturn(t)
    BY <2>2 DEF KillReturn
  <2>3. CASE RecoverBegin(t)
    BY <2>3 DEF RecoverBegin
  <2>4. CASE Fetch(t)
    BY <2>4 DEF Fetch
  <2>5. CASE Apply(t)
    BY <2>5 DEF Apply
  <2>6. CASE StopStream(t)
    BY <2>6 DEF StopStream
  <2>7. CASE OpenStream(t)
    BY <2>7 DEF OpenStream
  <2>8. CASE Recovered(t)
    BY <2>8 DEF Recovered
  <2>9. CASE Thrown(t)
    BY <2>9 DEF Thrown
  <2>10. CASE LoadKill(t)
    BY <2>10 DEF LoadKill
  <2>11. CASE StoreReady(t)
    BY <2>11 DEF StoreReady
  <2> QED
    BY <1>1, <2>1, <2>2, <2>3, <2>4, <2>5, <2>6, <2>7, <2>8, <2>9, <2>10, <2>11 DEF ThreadStep
<1>2. CASE start \/ stop \/ resume_after_reconcile \/ killCall
  BY <1>2 DEF start, stop, resume_after_reconcile, killCall
<1>3. CASE ResumeClear \/ ResumeReady \/ StopJoin \/ StopClose
  BY <1>3 DEF ResumeClear, ResumeReady, StopJoin, StopClose
<1>4. CASE SupervisorWake \/ KeepaliveDue \/ KeepaliveFails
  BY <1>4 DEF SupervisorWake, KeepaliveDue, KeepaliveFails
<1>5. CASE StreamConnects \/ StreamInterrupted \/ StreamDelivers \/ ManagerStep
             \/ (\E i \in Ids : submit(i)) \/ UNCHANGED vars
  <2>1. UNCHANGED <<pc, task>>
    BY <1>5 DEF StreamConnects, StreamInterrupted, StreamDelivers, ManagerStep, submit, vars
  <2> QED
    BY <2>1
<1> QED
  BY <1>1, <1>2, <1>3, <1>4, <1>5 DEF SessionNext, OwnerStep, SupervisorStep

LEMMA NextStoppingInv == QuietInv /\ [SessionNext]_vars => StoppingInv'
<1> SUFFICES ASSUME QuietInv, [SessionNext]_vars PROVE StoppingInv'
  OBVIOUS
<1>0. RolesInv /\ StoppingInv /\ pc \in [SessionThreads -> Pcs] /\ task \in [SessionThreads -> Tasks]
  BY DEF QuietInv, RolesInv
<1>k. kill => kill' \/ pc["owner"] = "clear"
  BY KillStays DEF ResumeClear
<1> USE <1>0, <1>k DEF RolesInv, StoppingInv, SessionThreads, Goto, Return, sessionVars
<1>1. ASSUME NEW t \in SessionThreads, ThreadStep(t) PROVE StoppingInv'
  <2>1. CASE KillBegin(t)
    BY <2>1 DEF KillBegin, KillSet
  <2>2. CASE KillReturn(t)
    BY <2>2 DEF KillReturn
  <2>3. CASE RecoverBegin(t)
    BY <2>3 DEF RecoverBegin
  <2>4. CASE Fetch(t)
    BY <2>4 DEF Fetch
  <2>5. CASE Apply(t)
    BY <2>5 DEF Apply
  <2>6. CASE StopStream(t)
    BY <2>6 DEF StopStream
  <2>7. CASE OpenStream(t)
    BY <2>7 DEF OpenStream
  <2>8. CASE Recovered(t)
    BY <2>8 DEF Recovered
  <2>9. CASE Thrown(t)
    BY <2>9 DEF Thrown
  <2>10. CASE LoadKill(t)
    BY <2>10 DEF LoadKill
  <2>11. CASE StoreReady(t)
    BY <2>11 DEF StoreReady
  <2> QED
    BY <1>1, <2>1, <2>2, <2>3, <2>4, <2>5, <2>6, <2>7, <2>8, <2>9, <2>10, <2>11 DEF ThreadStep
<1>2. CASE start \/ stop \/ resume_after_reconcile \/ killCall
  BY <1>2 DEF start, stop, resume_after_reconcile, killCall
<1>3. CASE ResumeClear
  BY <1>3 DEF ResumeClear
<1>4. CASE ResumeReady
  BY <1>4 DEF ResumeReady
<1>5. CASE StopJoin \/ StopClose
  BY <1>5 DEF StopJoin, StopClose
<1>6. CASE SupervisorWake \/ KeepaliveDue \/ KeepaliveFails
  BY <1>6 DEF SupervisorWake, KeepaliveDue, KeepaliveFails
<1>7. CASE StreamConnects \/ StreamInterrupted
  BY <1>7 DEF StreamConnects, StreamInterrupted
<1>8. CASE StreamDelivers \/ ManagerStep \/ (\E i \in Ids : submit(i)) \/ UNCHANGED vars
  <2>1. UNCHANGED <<pc, task, started, ready, stream>>
    BY <1>8 DEF StreamDelivers, ManagerStep, submit, vars
  <2> QED
    BY <2>1
<1> QED
  BY <1>1, <1>2, <1>3, <1>4, <1>5, <1>6, <1>7, <1>8 DEF SessionNext, OwnerStep, SupervisorStep

\* StoppedIsQuiet in every session: after stop() no interleaving of a late
\* recovery, a kill() and the stream brings anything back; submissions stay
\* off even if a stale store left ready_ true.
THEOREM StopStaysQuiet == SessionSafetySpec => []StoppedIsQuiet
<1>1. SessionInit => QuietInv
  <2> SUFFICES ASSUME SessionInit PROVE QuietInv
    OBVIOUS
  <2>1. /\ pc = [t \in SessionThreads |-> IF t = "supervisor" THEN "off" ELSE "idle"]
        /\ task = [t \in SessionThreads |-> "none"]
    BY DEF SessionInit
  <2>2. pc \in [SessionThreads -> Pcs] /\ task \in [SessionThreads -> Tasks]
    BY <2>1 DEF Pcs, Tasks
  <2>3. /\ pc["owner"] = "idle" /\ pc["killer"] = "idle"
        /\ \A t \in SessionThreads : task[t] = "none"
    BY <2>1 DEF SessionThreads
  <2> QED
    BY <2>2, <2>3 DEF QuietInv, RolesInv, StoppingInv, SessionThreads
<1>2. QuietInv /\ [SessionNext]_vars => QuietInv'
  BY NextRolesInv, NextStoppingInv DEF QuietInv
<1>3. QuietInv => StoppedIsQuiet
  BY DEF QuietInv, StoppingInv, StoppedIsQuiet
<1> QED
  BY <1>1, <1>2, <1>3, PTL DEF SessionSafetySpec
=============================================================================
