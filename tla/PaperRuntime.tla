---------------------------- MODULE PaperRuntime ----------------------------
(***************************************************************************)
(* core/ExecutionEngine.cpp: the paper runtime around one trade engine at  *)
(* a time, with the operator's choices of core/RuntimeControl.hpp, the     *)
(* books of trader/paper/PaperAccount.hpp and the log worker of            *)
(* utils/AsyncLogger.cpp.                                                  *)
(*                                                                         *)
(* "main" is the coordinator run_main_loop, "monitor" is monitor_scanner,  *)
(* "owner" is paper_main, which calls stop() and then the destructor.      *)
(* The trader thread runs the TradeEngine that the member `trader' owns;   *)
(* no lock guards that member.  A use of a destroyed engine, a second join *)
(* of a thread and an assignment to a joinable thread end the process      *)
(* (`fault').  An exception out of stop_trader ends run_main_loop, or      *)
(* leaves stop(): then the destructor calls stop() once more, and a second *)
(* exception ends the process.  Every trade earns one unit and symbols are *)
(* only present or absent.                                                 *)
(***************************************************************************)
EXTENDS Integers

CONSTANTS Initial,      \* paperInitialBalance
          AutoSettings, \* auto_symbol as configured
          MaxTrades,    \* bound: trades closed
          MaxEvents     \* bound: changes made by the operator and engines that fail

ASSUME RuntimeAssumption ==
  /\ Initial \in Nat /\ AutoSettings \subseteq BOOLEAN
  /\ MaxTrades \in Nat /\ MaxEvents \in Nat

VARIABLES
  pc,        \* where each thread is
  stops,     \* calls of stop() so far
  running,   \* running
  trader,    \* trader: the engine it owns, or None
  thr,       \* trader_thread: not joinable, or how far its thread is; "hung" in
             \* the join of its engine's log worker
  active,    \* trader_active
  accounted, \* accounted_profit_
  delta,     \* delta of the booking a thread is making
  total,     \* total_profit read by run_main_loop
  account,   \* the account in memory
  file,      \* the account file
  pending,   \* pending_scanner_symbol is not empty
  current,   \* current_symbol is not empty
  auto,      \* auto_symbol_
  manual,    \* manual_symbol_ is not empty
  gen,       \* generation_
  applied,   \* applied_control_generation_
  seen,      \* generation read by apply_runtime_control
  restart,   \* restart_symbol is not empty
  collecting, \* the collector has not been stopped
  worker,    \* where the log worker is
  fault,     \* history: the process did something undefined
  failures,  \* history: engines that failed
  earned,    \* history: profit of all trades closed
  throws,    \* history: exceptions out of stop_trader or a booking
  overlap    \* history: two threads were in the trader's life cycle at once

controlVars == <<pending, current, auto, manual, gen, applied, seen, restart, collecting>>
bookVars == <<accounted, delta, total, account, file>>
lifeVars == <<trader, thr, active>>
history == <<failures, earned, throws>>
vars == <<pc, stops, running, lifeVars, controlVars, bookVars, worker, fault, history, overlap>>

Threads == {"owner", "main", "monitor"}
Trading == {"on", "ignored"}     \* the engine runs; in the second case stop() came too early
None == [on |-> "none", open |-> FALSE, profit |-> 0]

New == [equity |-> Initial, closed |-> 0]
Disk(state, books) == [state |-> state, books |-> books]

(* Labels at which a thread uses the trader member, its thread or accounted_profit_. *)
Stopping == {"st.read", "st.book", "st.save", "st.zero", "st.stop", "st.join", "st.reset", "st.lost"}
Starting == {"sf.join", "sf.make", "sf.zero", "sf.active", "sf.thread", "sf.lost"}
Booking == {"k.control", "k.book", "k.apply", "k.save", "k.show"}
Section == Stopping \cup Starting \cup Booking

\* init(): the account is loaded; a configured symbol is pending.
Init ==
  /\ pc = [owner |-> "o.wait", main |-> "k.start", monitor |-> "m.new"]
  /\ stops = 0 /\ running = TRUE
  /\ trader = None /\ thr = "none" /\ active = FALSE
  /\ accounted = 0 /\ delta = [t \in Threads |-> 0] /\ total = 0
  /\ account = New /\ file = Disk("current", New)
  /\ auto \in AutoSettings /\ manual = ~auto /\ pending = manual /\ current = FALSE
  /\ gen = 0 /\ applied = 0 /\ seen = 0 /\ restart = FALSE /\ collecting = TRUE
  /\ worker = "loop"
  /\ fault = FALSE /\ failures = 0 /\ earned = 0 /\ throws = 0 /\ overlap = FALSE

Goto(t, label) == pc' = [pc EXCEPT ![t] = label]

\* scanner_signal_cv is notified: a monitor that waits is woken, one that is
\* about to wait misses it.
Woken(labels) ==
  [labels EXCEPT !["monitor"] = CASE @ = "m.wait" -> "m.pred" [] @ = "m.block" -> "m.lost" [] OTHER -> @]

\* A step that only moves a thread on.
Move(t, label) ==
  /\ Goto(t, label)
  /\ UNCHANGED <<stops, running, lifeVars, controlVars, bookVars, worker, fault, history>>

\* The process ends, whatever its threads were doing, and a new one loads the
\* account; load() turns a missing or unreadable file into a new account.
Off == [t \in Threads |-> "off"]
Ends ==
  /\ pc' = Off /\ stops' = 0 /\ running' = FALSE
  /\ trader' = None /\ thr' = "none" /\ active' = FALSE
  /\ accounted' = 0 /\ delta' = [t \in Threads |-> 0] /\ total' = 0
  /\ account' = file.books /\ UNCHANGED file
  /\ pending' = FALSE /\ current' = FALSE /\ auto' = TRUE /\ manual' = FALSE
  /\ gen' = 0 /\ applied' = 0 /\ seen' = 0 /\ restart' = FALSE /\ collecting' = FALSE
  /\ worker' = "done" /\ failures' = 0 /\ earned' = 0 /\ UNCHANGED throws

Fault == fault' = TRUE /\ Ends

\* Where an exception takes a thread: main and monitor leave through their
\* catch blocks, which end the runtime (only main's wakes the monitor); owner
\* leaves stop() for the destructor.  What the thread remembered is gone.
Thrown(t) ==
  /\ running' = FALSE
  /\ pc' = CASE t = "main" -> Woken([pc EXCEPT !["main"] = "k.done"])
            [] t = "monitor" -> [pc EXCEPT !["monitor"] = "m.done"]
            [] OTHER -> [pc EXCEPT !["owner"] = "o.unwind"]
  /\ delta' = [delta EXCEPT ![t] = 0]
  /\ IF t = "main" THEN total' = 0 /\ seen' = 0 /\ restart' = FALSE ELSE UNCHANGED <<total, seen, restart>>
  /\ UNCHANGED <<pending, current, auto, manual, gen, applied, collecting, stops, worker, fault,
                 failures, earned>>

\* An exception out of stop_trader or a booking; out of the destructor it ends
\* the process.
Throws(t) ==
  \/ (t = "main" \/ stops = 1) /\ Thrown(t) /\ throws' = throws + 1
  \/ t = "owner" /\ stops = 2 /\ Ends /\ UNCHANGED fault

-----------------------------------------------------------------------------
(* PaperAccount *)

\* apply_realized_profit: the mutex is held until the account is saved.
Apply(t) ==
  /\ \A u \in Threads : pc[u] \notin {"st.save", "k.save"}
  /\ account' = [equity |-> account.equity + delta[t], closed |-> account.closed + 1]
  /\ UNCHANGED file

\* Mutant: the account is not saved.
Save_Forgotten == UNCHANGED <<account, file>>

\* create_directories throws before anything is written.
SaveFails(t) ==
  /\ Throws(t)
  /\ pc' # Off => file' = Disk("failed", file.books) /\ UNCHANGED <<account, accounted, lifeVars>>

\* save_locked: a short write is not noticed and renamed into place; after a
\* failed rename the old file is removed and the rename tried once more.  The
\* file then holds the account, an older one, or nothing that can be read (for
\* load() a new account).
Save ==
  /\ file' \in {Disk("current", account), Disk("failed", file.books), Disk("failed", New)}
  /\ UNCHANGED account

-----------------------------------------------------------------------------
(* stop_trader, called by owner and main.  main only calls it with a trader. *)

AfterStop(t) ==
  IF t = "owner" THEN "o.collector" ELSE IF restart THEN "sf.join" ELSE "k.applied"

StRead(t) ==
  /\ pc[t] = "st.read"
  /\ \/ /\ trader = None
        /\ Goto(t, IF t = "owner" THEN "st.join" ELSE AfterStop(t))
        /\ UNCHANGED delta
     \/ /\ trader # None
        /\ delta' = [delta EXCEPT ![t] = trader.profit - accounted]
        /\ Goto(t, IF trader.profit # accounted THEN "st.book" ELSE "st.zero")
  /\ UNCHANGED <<accounted, total, account, file, stops, running, lifeVars, controlVars, worker, fault, history>>

StBook(t) ==
  /\ pc[t] = "st.book"
  /\ Apply(t)
  /\ Goto(t, "st.save")
  /\ UNCHANGED <<accounted, delta, total, stops, running, lifeVars, controlVars, worker, fault, history>>

StSave(t) ==
  /\ pc[t] = "st.save"
  /\ \/ /\ Save
        /\ Goto(t, "st.zero")
        /\ UNCHANGED <<accounted, delta, total, stops, running, lifeVars, controlVars, worker, fault, history>>
     \/ SaveFails(t)

StZero(t) ==
  /\ pc[t] = "st.zero"
  /\ accounted' = 0 /\ delta' = [delta EXCEPT ![t] = 0]
  /\ Goto(t, "st.stop")
  /\ UNCHANGED <<total, account, file, stops, running, lifeVars, controlVars, worker, fault, history>>

\* TradeEngine::stop() is undone by a run() that has yet to begin, and its
\* notification is lost on a trader thread that is about to wait.  When run()
\* is ending too, both join the price stream and the second throws: run()
\* ("raced"), or stop() (StStopThrows).
Stopped(on) ==
  CASE on \in Trading -> {"off", "missed", "raced"} [] on = "idle" -> {"early"} [] OTHER -> {on}

StStop(t) ==
  /\ pc[t] = "st.stop"
  /\ \/ trader = None /\ Fault
     \/ /\ trader # None
        /\ trader' \in {[trader EXCEPT !.on = o] : o \in Stopped(trader.on)}
        /\ Goto(t, "st.join")
        /\ UNCHANGED <<bookVars, thr, active, stops, running, controlVars, worker, fault, history>>

StStopThrows(t) ==
  /\ pc[t] = "st.stop" /\ trader.on \in Trading /\ thr = "running"
  /\ Throws(t)
  /\ pc' # Off => /\ trader' = [trader EXCEPT !.on = "off"]
                  /\ UNCHANGED <<thr, active, accounted, account, file>>

\* Joining a thread that another thread is joining is undefined.
Join(t, next) ==
  \/ thr = "none" /\ Move(t, next)
  \/ thr # "none" /\ (\E u \in Threads \ {t} : pc[u] \in {"st.join", "sf.join"}) /\ Fault
  \/ /\ thr = "finished" /\ thr' = "none"
     /\ Goto(t, next)
     /\ UNCHANGED <<trader, active, stops, running, controlVars, bookVars, worker, fault, history>>

StJoin(t) == pc[t] = "st.join" /\ Join(t, "st.reset")

\* An engine in use may not be destroyed.  One whose run() threw at its end
\* still has its log worker, whose join in the destructor may hang.
InUse == thr \in {"running", "hung"}
Destroyed(t, next, lost) ==
  Goto(t, next) \/ (trader.on = "raced" /\ Goto(t, lost))

StReset(t) ==
  /\ pc[t] = "st.reset"
  /\ \/ InUse /\ Fault
     \/ /\ ~InUse
        /\ trader' = None
        /\ Destroyed(t, AfterStop(t), "st.lost")
        /\ active' = (active /\ pc'[t] = "st.lost")
        /\ UNCHANGED <<thr, stops, running, controlVars, bookVars, worker, fault, history>>

stop_trader(t) ==
  \/ StRead(t) \/ StBook(t) \/ StSave(t) \/ StZero(t) \/ StStop(t) \/ StStopThrows(t)
  \/ StJoin(t) \/ StReset(t)

-----------------------------------------------------------------------------
(* start_trader_for, called by main and monitor *)

SfJoin(t) == pc[t] = "sf.join" /\ Join(t, "sf.make")

\* Loading the risk configuration or creating strategy and engine may throw.
SfThrow(t) ==
  /\ pc[t] = "sf.make"
  /\ Thrown(t)
  /\ UNCHANGED <<lifeVars, accounted, account, file, throws>>

\* The new engine replaces, and destroys, the old one.
SfMake(t) ==
  /\ pc[t] = "sf.make"
  /\ \/ InUse /\ Fault
     \/ /\ ~InUse
        /\ trader' = [None EXCEPT !.on = "idle"]
        /\ Destroyed(t, "sf.zero", "sf.lost")
        /\ UNCHANGED <<thr, active, stops, running, controlVars, bookVars, worker, fault, history>>

SfZero(t) ==
  /\ pc[t] = "sf.zero"
  /\ accounted' = 0
  /\ Goto(t, "sf.active")
  /\ UNCHANGED <<delta, total, account, file, stops, running, lifeVars, controlVars, worker, fault, history>>

SfActive(t) ==
  /\ pc[t] = "sf.active"
  /\ active' = TRUE
  /\ Goto(t, "sf.thread")
  /\ UNCHANGED <<trader, thr, stops, running, controlVars, bookVars, worker, fault, history>>

\* Assigning to a joinable thread calls std::terminate.
SfThread(t) ==
  /\ pc[t] = "sf.thread"
  /\ \/ thr # "none" /\ Fault
     \/ /\ thr = "none" /\ thr' = "created"
        /\ Goto(t, IF t = "main" THEN "k.applied" ELSE "m.pred")
        /\ UNCHANGED <<trader, active, bookVars, stops, running, controlVars, worker, fault, history>>

start_trader_for(t) ==
  SfJoin(t) \/ SfThrow(t) \/ SfMake(t) \/ SfZero(t) \/ SfActive(t) \/ SfThread(t)

-----------------------------------------------------------------------------
(* The trader thread: TradeEngine::run() as seen from outside *)

TraderBegin ==
  /\ thr = "created"
  /\ \/ trader = None /\ Fault
     \/ /\ trader # None
        /\ thr' = IF trader.on \in Trading THEN "finished" ELSE "running"
        /\ active' = (trader.on \notin Trading /\ active)
        /\ trader' = [trader EXCEPT !.on = IF @ = "early" THEN "ignored" ELSE "on"]
        /\ UNCHANGED <<pc, stops, running, controlVars, bookVars, worker, fault, history>>

TraderOpens ==
  /\ thr = "running" /\ trader.on \in Trading /\ ~trader.open /\ earned < MaxTrades
  /\ trader' = [trader EXCEPT !.open = TRUE]
  /\ UNCHANGED <<pc, thr, active, stops, running, controlVars, bookVars, worker, fault, history>>

TraderCloses ==
  /\ thr = "running" /\ trader.on \in Trading /\ trader.open
  /\ trader' = [trader EXCEPT !.open = FALSE, !.profit = @ + 1]
  /\ earned' = earned + 1
  /\ UNCHANGED <<pc, thr, active, stops, running, controlVars, bookVars, worker, fault, failures, throws>>

\* run() ends by joining its log worker, which may have missed the notification
\* (AsyncLogger), unless joining the price stream threw.
TraderReturns ==
  /\ thr = "running" /\ trader.on \in {"off", "raced"}
  /\ \/ thr' = "finished" /\ active' = FALSE
     \/ trader.on = "off" /\ thr' = "hung" /\ UNCHANGED active
  /\ UNCHANGED <<pc, trader, stops, running, controlVars, bookVars, worker, fault, history>>

\* An exception in run(): its catch block stops the engine.
TraderFails ==
  /\ thr = "running" /\ trader.on \in Trading /\ gen + failures < MaxEvents
  /\ trader' = [trader EXCEPT !.on = "off"]
  /\ failures' = failures + 1
  /\ UNCHANGED <<pc, thr, active, stops, running, controlVars, bookVars, worker, fault, earned, throws>>

-----------------------------------------------------------------------------
(* run_main_loop *)

MainStart ==
  /\ pc["main"] = "k.start"
  /\ pc' = [pc EXCEPT !["main"] = "k.wait", !["monitor"] = "m.pred"]
  /\ UNCHANGED <<stops, running, lifeVars, controlVars, bookVars, worker, fault, history>>

\* Once a second, and at once when stopped.
MainLoop == pc["main"] = "k.wait" /\ Move("main", IF running THEN "k.control" ELSE "k.done")

\* apply_runtime_control up to the choice of the symbol: a change waits for an
\* open position.
MainControl ==
  /\ pc["main"] = "k.control"
  /\ \/ /\ gen = applied \/ trader.open
        /\ Goto("main", "k.book")
        /\ UNCHANGED <<seen, restart>>
     \/ /\ gen # applied /\ ~trader.open
        /\ seen' = gen /\ restart' = (current \/ (~auto /\ manual))
        /\ Goto("main", "st.read")
  /\ UNCHANGED <<pending, current, auto, manual, gen, applied, collecting, stops, running, lifeVars, bookVars, worker, fault, history>>

MainApplied ==
  /\ pc["main"] = "k.applied"
  /\ applied' = seen /\ seen' = 0 /\ restart' = FALSE
  /\ Goto("main", "k.book")
  /\ UNCHANGED <<pending, current, auto, manual, gen, collecting, stops, running, lifeVars, bookVars, worker, fault, history>>

MainBook ==
  /\ pc["main"] = "k.book"
  /\ \/ /\ trader = None
        /\ Goto("main", "k.wait") /\ UNCHANGED <<total, delta>>
     \/ /\ trader # None
        /\ total' = trader.profit
        /\ delta' = [delta EXCEPT !["main"] = trader.profit - accounted]
        /\ Goto("main", IF trader.profit # accounted THEN "k.apply" ELSE "k.show")
  /\ UNCHANGED <<accounted, account, file, stops, running, lifeVars, controlVars, worker, fault, history>>

MainApply ==
  /\ pc["main"] = "k.apply"
  /\ Apply("main")
  /\ Goto("main", "k.save")
  /\ UNCHANGED <<accounted, delta, total, stops, running, lifeVars, controlVars, worker, fault, history>>

\* Mutant: the booked profit is not remembered.
MainSave_Unaccounted ==
  /\ pc["main"] = "k.save"
  /\ Save
  /\ Goto("main", "k.show")
  /\ UNCHANGED <<accounted, delta, total, stops, running, lifeVars, controlVars, worker, fault, history>>

MainSave ==
  /\ pc["main"] = "k.save"
  /\ \/ /\ Save
        /\ accounted' = total
        /\ Goto("main", "k.show")
        /\ UNCHANGED <<delta, total, stops, running, lifeVars, controlVars, worker, fault, history>>
     \/ SaveFails("main")

\* The trader's figures for the dashboard.
MainShow ==
  /\ pc["main"] = "k.show"
  /\ \/ trader = None /\ Fault
     \/ /\ trader # None
        /\ delta' = [delta EXCEPT !["main"] = 0] /\ total' = 0
        /\ Goto("main", "k.wait")
        /\ UNCHANGED <<accounted, account, file, stops, running, lifeVars, controlVars, worker, fault, history>>

Main ==
  \/ MainStart \/ MainLoop \/ MainControl \/ MainApplied \/ MainBook \/ MainApply \/ MainSave
  \/ MainShow \/ stop_trader("main") \/ start_trader_for("main")

-----------------------------------------------------------------------------
(* monitor_scanner *)

\* Under scanner_signal_mutex: leave, take a symbol, or find nothing to do and
\* keep the mutex until registered as waiting.
MonitorTake ==
  /\ pc["monitor"] = "m.pred"
  /\ \/ ~running /\ Goto("monitor", "m.done") /\ UNCHANGED pending
     \/ /\ running /\ (pending \/ ~auto)
        /\ pending' = FALSE
        /\ Goto("monitor", IF auto \/ manual THEN "m.gate" ELSE "m.pred")
     \/ running /\ ~pending /\ auto /\ Goto("monitor", "m.block") /\ UNCHANGED pending
  /\ UNCHANGED <<current, auto, manual, gen, applied, seen, restart, collecting, stops, running, lifeVars, bookVars, worker, fault, history>>

MonitorBlock == pc["monitor"] = "m.block" /\ Move("monitor", "m.wait")

\* With a trader the symbol is dropped after a short sleep.
MonitorGate ==
  /\ pc["monitor"] = "m.gate"
  /\ current' = (current \/ ~active)
  /\ Goto("monitor", IF active THEN "m.pred" ELSE "sf.join")
  /\ UNCHANGED <<pending, auto, manual, gen, applied, seen, restart, collecting, stops, running, lifeVars, bookVars, worker, fault, history>>

Monitor == MonitorTake \/ MonitorBlock \/ MonitorGate \/ start_trader_for("monitor")

-----------------------------------------------------------------------------
(* stop(), first from paper_main and then from the destructor *)

\* The second call returns at once when every thread has been joined.
NextStop == IF pc["owner"] # "o.again" \/ thr # "none" THEN "st.read" ELSE "o.logger"


OwnerStop ==
  /\ pc["owner"] \in {"o.wait", "o.unwind", "o.again"}
  /\ stops' = stops + 1
  /\ running' = FALSE
  /\ pc' = Woken([pc EXCEPT !["owner"] = NextStop])
  /\ UNCHANGED <<lifeVars, controlVars, bookVars, worker, fault, history>>

\* collector->stop() returns; no scanner signal follows.
OwnerCollector ==
  /\ pc["owner"] = "o.collector"
  /\ collecting' = FALSE
  /\ Goto("owner", "o.joinMain")
  /\ UNCHANGED <<pending, current, auto, manual, gen, applied, seen, restart, stops, running, lifeVars,
                 bookVars, worker, fault, history>>

OwnerJoinMain == pc["owner"] = "o.joinMain" /\ pc["main"] = "k.done" /\ Move("owner", "o.joinMonitor")

OwnerJoinMonitor ==
  /\ pc["owner"] = "o.joinMonitor" /\ pc["monitor"] = "m.done"
  /\ Move("owner", IF stops = 1 THEN "o.again" ELSE "o.logger")

\* AsyncLogger::stop() clears its flag and notifies.  Until then the worker is
\* somewhere in its loop: it will see the flag, or it has found nothing to do
\* and is not registered as waiting yet.
OwnerLogger ==
  /\ pc["owner"] = "o.logger"
  /\ worker' \in {"woken", "blocking"}
  /\ Goto("owner", "o.joinLogger")
  /\ UNCHANGED <<stops, running, lifeVars, controlVars, bookVars, fault, history>>

WorkerStep ==
  /\ \/ worker = "woken" /\ worker' = "done"
     \/ worker = "blocking" /\ worker' = "waiting"
  /\ UNCHANGED <<pc, stops, running, lifeVars, controlVars, bookVars, fault, history>>

\* The worker is joined and the members are destroyed.
OwnerDone ==
  /\ pc["owner"] = "o.joinLogger" /\ worker = "done"
  /\ \/ thr # "none" /\ Fault
     \/ thr = "none" /\ Move("owner", "o.done")

Owner ==
  \/ OwnerStop \/ OwnerCollector \/ OwnerJoinMain \/ OwnerJoinMonitor \/ OwnerLogger \/ OwnerDone
  \/ stop_trader("owner")

-----------------------------------------------------------------------------
(* Everyone else *)

\* The scanner's top-changed handler, which locks scanner_signal_mutex.
ScannerSignal ==
  /\ collecting /\ pc["monitor"] # "m.block"
  /\ auto /\ ~active
  /\ pending' = TRUE
  /\ pc' = Woken(pc)
  /\ UNCHANGED <<current, auto, manual, gen, applied, seen, restart, collecting, stops, running, lifeVars, bookVars, worker, fault, history>>

\* set_strategy, set_auto_symbol and set_manual_symbol from the terminal.
OperatorChange ==
  /\ pc["owner"] = "o.wait" /\ gen + failures < MaxEvents
  /\ gen' = gen + 1
  /\ \/ UNCHANGED <<auto, manual>>
     \/ auto' = TRUE /\ UNCHANGED manual
     \/ auto' = FALSE /\ manual' = TRUE
  /\ UNCHANGED <<pc, pending, current, applied, seen, restart, collecting, stops, running, lifeVars, bookVars, worker, fault, history>>

\* The process may die at any point.
Crash == pc # Off /\ Ends /\ UNCHANGED <<fault, overlap>>

-----------------------------------------------------------------------------
Overlapping == \E t, u \in Threads : t # u /\ pc[t] \in Section /\ pc[u] \in Section

\* Part of every step of a living process.
Tracked == pc # Off /\ overlap' = (overlap \/ Overlapping')

Run ==
  /\ \/ Owner \/ Main \/ Monitor
     \/ TraderBegin \/ TraderOpens \/ TraderCloses \/ TraderReturns \/ TraderFails
     \/ ScannerSignal \/ OperatorChange \/ WorkerStep
  /\ Tracked

Restarted == pc = Off /\ UNCHANGED vars

Next == Run \/ Crash \/ Restarted

Spec == Init /\ [][Next]_vars

(* Fairness: every thread that can go on does (the log worker only has steps *)
(* of its own while owner waits for it); nobody has to signal, change, trade *)
(* or fail.                                                                  *)
FairSpec ==
  /\ Spec
  /\ WF_vars(((stops # 0 /\ Owner) \/ WorkerStep) /\ Tracked)
  /\ WF_vars(Main /\ Tracked) /\ WF_vars(Monitor /\ Tracked)
  /\ WF_vars((TraderBegin \/ TraderReturns) /\ Tracked)

-----------------------------------------------------------------------------
(* As long as owner, main and monitor take turns in the trader's life cycle   *)
(* and no exception leaves a save or TradeEngine::stop(), no engine is used   *)
(* after its end, no thread is joined twice or overwritten, and the account   *)
(* holds no more profit, and counts no more trades, than the engines made.    *)
(* Each such exception has what the engines made booked at most once more.    *)
SerialIsSound ==
  ~overlap => /\ throws = 0 => ~fault
              /\ pc # Off => /\ account.equity <= Initial + (throws + 1) * earned
                             /\ account.closed <= (throws + 1) * earned

(* A process that dies leaves an account file that lacks at most the booking  *)
(* in progress, unless saving the account failed.                             *)
DurableBookings ==
  [][Crash => \/ file.state # "current"
              \/ account' = account
              \/ /\ \E t \in Threads : pc[t] \in {"st.save", "k.save"}
                 /\ account.closed = account'.closed + 1]_vars

(* docs/TRADING_CONSOLE.md:53: "Strategy and symbol changes are deferred       *)
(* while a position is open.  They are applied only after the current         *)
(* position exits."  main destroys no engine with an open position.           *)
ChangesWaitForExit == pc["main"] = "st.reset" => ~trader.open

(* A call of stop() returns, and so does the destructor's, or the process     *)
(* dies (stops is 0 again), unless a notification was lost on a monitor,      *)
(* trader or log worker about to wait, an engine was stopped before it ran,   *)
(* or, after two threads were in the life cycle at once, one joins a thread   *)
(* whose engine nobody stops.                                                 *)
Stuck ==
  \/ pc["monitor"] = "m.lost"
  \/ worker = "waiting" \/ thr = "hung" \/ \E t \in Threads : pc[t] \in {"st.lost", "sf.lost"}
  \/ thr = "running" /\ trader.on \in {"missed", "ignored"}
  \/ overlap /\ thr = "running" /\ trader.on = "on" /\ \E t \in Threads : pc[t] \in {"st.join", "sf.join"}
=============================================================================
