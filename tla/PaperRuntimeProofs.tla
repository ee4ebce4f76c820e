------------------------- MODULE PaperRuntimeProofs -------------------------
(***************************************************************************)
(* The paper runtime for every initial balance and any number of trades,   *)
(* failures and changes by the operator: bookings are durable, and a life  *)
(* cycle whose threads take turns is sound but for what exceptions cost.   *)
(***************************************************************************)
EXTENDS PaperRuntime, TLAPS

Books == [equity : Int, closed : Int]
Engines == [on : {"none", "idle", "early", "on", "ignored", "off", "missed", "raced"},
            open : BOOLEAN, profit : Nat]
Labels ==
  {"st.read", "st.book", "st.save", "st.zero", "st.stop", "st.join", "st.reset", "st.lost",
   "sf.join", "sf.make", "sf.zero", "sf.active", "sf.thread", "sf.lost",
   "k.start", "k.wait", "k.control", "k.applied", "k.book", "k.apply", "k.save", "k.show", "k.done",
   "m.new", "m.pred", "m.block", "m.wait", "m.lost", "m.gate", "m.done",
   "o.wait", "o.unwind", "o.again", "o.collector", "o.joinMain", "o.joinMonitor", "o.logger", "o.joinLogger",
   "o.done", "off"}

BookTypes ==
  /\ account \in Books /\ file \in [state : {"current", "failed"}, books : Books]
  /\ accounted \in Int /\ total \in Int /\ delta \in [Threads -> Int]
  /\ earned \in Nat /\ throws \in Nat

PaperTypeOK ==
  /\ BookTypes /\ pc \in [Threads -> Labels]
  /\ trader \in Engines /\ (trader = None \/ trader.on # "none")
  /\ pc["main"] = "k.start" => pc["monitor"] = "m.new"

-----------------------------------------------------------------------------
(* The kinds of steps *)

\* Steps that touch neither the trader nor the books.
Quiet ==
  \/ MainStart \/ MainLoop \/ MainControl \/ MainApplied
  \/ MonitorTake \/ MonitorBlock \/ MonitorGate
  \/ OwnerStop \/ OwnerCollector \/ OwnerJoinMain \/ OwnerJoinMonitor \/ OwnerLogger
  \/ (OwnerDone /\ thr = "none")
  \/ WorkerStep \/ ScannerSignal \/ OperatorChange

TraderThread == TraderOpens \/ TraderCloses \/ TraderReturns \/ TraderFails

\* Saves without an exception.
Saved(t) ==
  /\ pc[t] = "st.save" /\ Save /\ Goto(t, "st.zero")
  /\ UNCHANGED <<accounted, delta, total, stops, lifeVars, fault, history>>
MainSaved ==
  /\ pc["main"] = "k.save" /\ Save /\ accounted' = total /\ Goto("main", "k.show")
  /\ UNCHANGED <<delta, total, stops, lifeVars, fault, history>>

Calls(t) == \/ StRead(t) \/ StBook(t) \/ Saved(t) \/ StZero(t) \/ StStop(t) \/ StJoin(t) \/ StReset(t)
            \/ SfJoin(t) \/ SfMake(t) \/ SfZero(t) \/ SfActive(t) \/ SfThread(t)

MainBooks == MainBook \/ MainApply \/ MainSaved \/ MainShow

\* Exceptions that the process survives.
Raises(t) ==
  /\ Thrown(t) /\ UNCHANGED <<thr, accounted, account>>
  /\ \/ t # "owner" /\ pc[t] = "sf.make" /\ UNCHANGED <<trader, file, throws>>
     \/ /\ pc[t] \in {"st.save", "k.save"} /\ throws' = throws + 1
        /\ file' = Disk("failed", file.books) /\ UNCHANGED trader
     \/ /\ pc[t] = "st.stop" /\ trader.on \in Trading /\ throws' = throws + 1
        /\ trader' = [trader EXCEPT !.on = "off"] /\ UNCHANGED file

LEMMA ThrownLabel ==
  ASSUME pc \in [Threads -> Labels], NEW t \in Threads, Thrown(t)
  PROVE  /\ pc' \in [Threads -> Labels] /\ pc'[t] \in {"k.done", "m.done", "o.unwind"} /\ pc' # Off
         /\ t = "main" => pc'["main"] = "k.done" /\ pc'["owner"] = pc["owner"]
         /\ t # "main" => \A u \in Threads \ {t} : pc'[u] = pc[u]
         /\ \/ pc'["monitor"] \in {pc["monitor"], "m.done"}
            \/ pc["monitor"] = "m.wait" /\ pc'["monitor"] = "m.pred"
            \/ pc["monitor"] = "m.block" /\ pc'["monitor"] = "m.lost"
BY DEF Thrown, Woken, Threads, Labels, Off

LEMMA Kinds ==
  ASSUME Next, pc \in [Threads -> Labels]
  PROVE  \/ Crash \/ UNCHANGED vars \/ (Ends /\ pc # Off /\ UNCHANGED fault /\ overlap' = (overlap \/ Overlapping'))
         \/ /\ pc # Off /\ overlap' = (overlap \/ Overlapping')
            /\ \/ Quiet \/ TraderBegin \/ TraderThread \/ MainBooks
               \/ \E t \in Threads : Calls(t)
               \/ \E t \in Threads : Raises(t)
               \/ OwnerDone /\ thr # "none"
<1>1. \A t \in {"owner", "main"} : SaveFails(t) /\ pc[t] \in {"st.save", "k.save"} => (Ends /\ UNCHANGED fault) \/ Raises(t)
  BY ThrownLabel DEF SaveFails, Throws, Raises, Threads, lifeVars
<1>2. \A t \in {"owner", "main"} : StStopThrows(t) => (Ends /\ UNCHANGED fault) \/ Raises(t)
  BY ThrownLabel DEF StStopThrows, Throws, Raises, Threads
<1>3. \A t \in {"main", "monitor"} : SfThrow(t) => Raises(t)
  BY DEF SfThrow, Raises, lifeVars
<1>4. \A t \in {"owner", "main"} : StSave(t) => Saved(t) \/ (SaveFails(t) /\ pc[t] = "st.save")
  BY DEF StSave, Saved
<1>5. MainSave => MainSaved \/ (SaveFails("main") /\ pc["main"] = "k.save")
  BY DEF MainSave, MainSaved
<1> QED
  BY <1>1, <1>2, <1>3, <1>4, <1>5 DEF Next, Run, Restarted, Tracked, Owner, Main, Monitor, stop_trader,
     start_trader_for, Quiet, TraderThread, MainBooks, Calls, Threads

\* Where a quiet step may take a thread: to no label that promises something
\* about the trader or the books, and from none where they are unsettled.
Unsettled == {"st.save", "st.zero", "st.stop", "k.save", "st.join", "st.reset", "sf.zero", "sf.lost"}
Promising == Unsettled \cup {"st.book", "sf.make", "sf.active", "sf.thread", "k.apply", "k.show"}

\* A thread may go from label a to label b in a quiet step.
May(a, b) == b = a \/ (a \notin Unsettled /\ b \notin Promising)
Moves(q, r) == r \in [Threads -> Labels] /\ \A t \in Threads : May(q[t], r[t])

LEMMA MovesOne ==
  ASSUME NEW q \in [Threads -> Labels], NEW t \in Threads, NEW label \in Labels, May(q[t], label)
  PROVE  Moves(q, [q EXCEPT ![t] = label])
BY DEF Moves, May

LEMMA MovesTwice ==
  ASSUME NEW q \in [Threads -> Labels], NEW r \in [Threads -> Labels], NEW s \in [Threads -> Labels],
         Moves(q, r), Moves(r, s)
  PROVE  Moves(q, s)
BY DEF Moves, May, Unsettled, Promising, Labels

LEMMA MovesWoken ==
  ASSUME NEW q \in [Threads -> Labels]
  PROVE  Moves(q, Woken(q))
<1>1. CASE q["monitor"] = "m.wait"
  <2>1. Woken(q) = [q EXCEPT !["monitor"] = "m.pred"]
    BY <1>1 DEF Woken
  <2> QED
    BY <1>1, <2>1, MovesOne DEF Threads, May, Unsettled, Promising, Labels
<1>2. CASE q["monitor"] = "m.block"
  <2>1. Woken(q) = [q EXCEPT !["monitor"] = "m.lost"]
    BY <1>2 DEF Woken
  <2> QED
    BY <1>2, <2>1, MovesOne DEF Threads, May, Unsettled, Promising, Labels
<1>3. CASE q["monitor"] \notin {"m.wait", "m.block"}
  <2>1. Woken(q) = q
    BY <1>3 DEF Woken, Threads
  <2> QED
    BY <2>1 DEF Moves, May
<1> QED
  BY <1>1, <1>2, <1>3

LEMMA QuietFrame ==
  ASSUME Quiet, pc \in [Threads -> Labels], pc["main"] = "k.start" => pc["monitor"] = "m.new"
  PROVE  /\ UNCHANGED <<trader, thr, accounted, delta, total, account, file, fault, earned, throws>>
         /\ Moves(pc, pc')
<1>1. UNCHANGED <<trader, thr, accounted, delta, total, account, file, fault, earned, throws>>
  BY DEF Quiet, Goto, Move, lifeVars, bookVars, history, MainStart, MainLoop, MainControl,
     MainApplied, MonitorTake, MonitorBlock, MonitorGate, OwnerStop, OwnerCollector,
     OwnerJoinMain, OwnerJoinMonitor, OwnerLogger, OwnerDone, WorkerStep, OperatorChange,
     ScannerSignal
<1> SUFFICES Moves(pc, pc')
  BY <1>1
<1> USE DEF Goto, Move
<1>2. ASSUME NEW t \in Threads, NEW label \in Labels, pc' = [pc EXCEPT ![t] = label],
             pc[t] \notin Unsettled, label \notin Promising
      PROVE  Moves(pc, pc')
  BY <1>2, MovesOne DEF May
<1>3. "main" \in Threads /\ "monitor" \in Threads /\ "owner" \in Threads
  BY DEF Threads
<1>4. CASE MainStart
  BY <1>3, <1>4 DEF MainStart, Moves, May, Unsettled, Promising, Labels
<1>5. CASE MainLoop \/ MainControl \/ MainApplied
  BY <1>2, <1>3, <1>5 DEF MainLoop, MainControl, MainApplied, Unsettled, Promising, Labels
<1>6. CASE MonitorTake \/ MonitorBlock \/ MonitorGate
  BY <1>2, <1>3, <1>6 DEF MonitorTake, MonitorBlock, MonitorGate, Unsettled, Promising, Labels
<1>7. CASE OwnerStop
  <2>1. PICK label \in {"st.read", "o.logger"} : pc' = Woken([pc EXCEPT !["owner"] = label])
    BY <1>7 DEF OwnerStop, NextStop
  <2>2. PICK q : q = [pc EXCEPT !["owner"] = label]
    OBVIOUS
  <2>3. q \in [Threads -> Labels] /\ Moves(pc, q)
    BY <1>3, <1>7, <2>1, <2>2, MovesOne DEF OwnerStop, May, Unsettled, Promising, Labels
  <2>4. Moves(q, Woken(q)) /\ Woken(q) \in [Threads -> Labels]
    BY <2>3, MovesWoken DEF Moves
  <2> QED
    BY <2>1, <2>2, <2>3, <2>4, MovesTwice
<1>8. CASE OwnerCollector \/ OwnerJoinMain \/ OwnerJoinMonitor \/ OwnerLogger
  BY <1>2, <1>3, <1>8 DEF OwnerCollector, OwnerJoinMain, OwnerJoinMonitor, OwnerLogger,
     Unsettled, Promising, Labels
<1>9. CASE OwnerDone /\ thr = "none"
  BY <1>2, <1>3, <1>9 DEF OwnerDone, Unsettled, Promising, Labels
<1>10. CASE WorkerStep \/ OperatorChange
  BY <1>10 DEF WorkerStep, OperatorChange, Moves, May
<1>11. CASE ScannerSignal
  BY <1>11, MovesWoken DEF ScannerSignal
<1> QED
  BY <1>4, <1>5, <1>6, <1>7, <1>8, <1>9, <1>10, <1>11 DEF Quiet

\* The end of the process keeps nothing but the account file.
LEMMA EndsFrame ==
  ASSUME Ends, PaperTypeOK
  PROVE  PaperTypeOK' /\ pc' = Off /\ account' = file'.books
<1>1. /\ pc' = [t \in Threads |-> "off"] /\ pc' \in [Threads -> Labels]
      /\ pc'["main"] = "off"
  BY DEF Ends, Off, Threads, Labels
<1>2. trader' = None /\ None \in Engines
  BY DEF Ends, None, Engines
<1>3. BookTypes'
  BY DEF Ends, PaperTypeOK, BookTypes
<1> QED
  BY <1>1, <1>2, <1>3 DEF Ends, Off, PaperTypeOK

\* A step of one thread to another label.
LEMMA OneStep ==
  ASSUME PaperTypeOK, NEW t \in Threads, NEW label \in Labels, Goto(t, label),
         pc[t] \notin {"m.new"}, label # "k.start"
  PROVE  /\ pc' \in [Threads -> Labels] /\ pc'[t] = label
         /\ \A u \in Threads \ {t} : pc'[u] = pc[u]
         /\ pc'["main"] = "k.start" => pc'["monitor"] = "m.new"
BY DEF PaperTypeOK, Goto, Threads

\* A call that does not end the process moves its thread and nobody else.
LEMMA CallMoves ==
  ASSUME PaperTypeOK, NEW t \in Threads, Calls(t), ~Fault
  PROVE  /\ pc' \in [Threads -> Labels] /\ \A u \in Threads \ {t} : pc'[u] = pc[u]
         /\ pc'["main"] = "k.start" => pc'["monitor"] = "m.new"
         /\ UNCHANGED <<earned, throws, fault>>
<1>1. UNCHANGED <<earned, throws, fault>>
  BY DEF Calls, StRead, StBook, Saved, StZero, StStop, StJoin, StReset, SfJoin, SfMake, SfZero, SfActive,
     SfThread, Join, Move, history
<1>2. /\ pc[t] # "m.new"
      /\ \E label \in Labels \ {"k.start"} : Goto(t, label)
  <2> USE DEF Labels
  <2>1. CASE StRead(t)
    BY <2>1 DEF StRead, AfterStop
  <2>2. CASE StBook(t) \/ Saved(t) \/ StZero(t) \/ StStop(t)
    BY <2>2 DEF StBook, Saved, StZero, StStop
  <2>3. CASE StJoin(t) \/ SfJoin(t)
    BY <2>3 DEF StJoin, SfJoin, Join, Move
  <2>4. CASE StReset(t)
    BY <2>4 DEF StReset, AfterStop, Destroyed
  <2>5. CASE SfMake(t) \/ SfZero(t) \/ SfActive(t) \/ SfThread(t)
    BY <2>5 DEF SfMake, SfZero, SfActive, SfThread, Destroyed
  <2> QED
    BY <2>1, <2>2, <2>3, <2>4, <2>5 DEF Calls
<1> QED
  BY <1>1, <1>2, OneStep

LEMMA NewIsBooks == New \in Books
BY RuntimeAssumption DEF New, Books

LEMMA Fresh ==
  /\ None \in Engines /\ [None EXCEPT !.on = "idle"] \in Engines
  /\ [None EXCEPT !.on = "idle"].on = "idle" /\ [None EXCEPT !.on = "idle"].profit = 0
  /\ [None EXCEPT !.on = "idle"] # None /\ ~None.open /\ ~[None EXCEPT !.on = "idle"].open
BY DEF None, Engines

LEMMA NextPaperType == PaperTypeOK /\ [Next]_vars => PaperTypeOK'
<1> SUFFICES ASSUME PaperTypeOK, [Next]_vars PROVE PaperTypeOK'
  OBVIOUS
<1>1. CASE Ends
  BY <1>1, EndsFrame
<1>2. CASE UNCHANGED vars
  BY <1>2 DEF vars, lifeVars, bookVars, history, PaperTypeOK, BookTypes
<1>3. CASE Quiet
  <2>1. /\ UNCHANGED <<trader, accounted, delta, total, account, file, earned, throws>>
        /\ pc' \in [Threads -> Labels]
    BY <1>3, QuietFrame DEF PaperTypeOK, Moves
  <2>2. pc'["main"] = "k.start" => pc'["monitor"] = "m.new"
    BY <1>3 DEF PaperTypeOK, Quiet, MainStart, MainLoop, MainControl, MainApplied, MonitorTake,
       MonitorBlock, MonitorGate, OwnerStop, OwnerCollector, OwnerJoinMain, OwnerJoinMonitor,
       OwnerLogger, OwnerDone, WorkerStep, ScannerSignal, OperatorChange, Woken, Goto,
       Move, Threads
  <2> QED
    BY <2>1, <2>2 DEF PaperTypeOK, BookTypes
<1>4. CASE ~Ends /\ (TraderBegin \/ TraderThread)
  <2>1. /\ UNCHANGED <<pc, accounted, delta, total, account, file>>
        /\ earned' = earned \/ earned' = earned + 1
        /\ throws' = throws
    BY <1>4 DEF TraderBegin, TraderThread, TraderOpens, TraderCloses, TraderReturns, TraderFails,
       Fault, bookVars, history
  <2>2. trader' \in Engines /\ (trader' = None \/ trader'.on # "none")
    <3>1. CASE TraderBegin
      BY <1>4, <3>1 DEF TraderBegin, Fault, PaperTypeOK, Engines, None
    <3>2. CASE TraderThread
      <4> USE DEF PaperTypeOK, Engines, Trading
      <4>1. CASE TraderOpens
        BY <4>1 DEF TraderOpens
      <4>2. CASE TraderCloses
        <5>1. trader.profit + 1 \in Nat /\ trader.on \in Trading
          BY <4>2 DEF TraderCloses
        <5>2. trader' = [trader EXCEPT !.open = FALSE, !.profit = trader.profit + 1]
          BY <4>2 DEF TraderCloses
        <5>3. trader' \in Engines /\ trader'.on = trader.on
          BY <5>1, <5>2
        <5> QED
          BY <5>1, <5>3
      <4>3. CASE TraderReturns
        BY <4>3 DEF TraderReturns
      <4>4. CASE TraderFails
        BY <4>4 DEF TraderFails
      <4> QED
        BY <3>2, <4>1, <4>2, <4>3, <4>4 DEF TraderThread
    <3> QED
      BY <1>4, <3>1, <3>2
  <2> QED
    BY <2>1, <2>2 DEF PaperTypeOK, BookTypes
<1>5. CASE ~Ends /\ MainBooks
  <2>1. UNCHANGED <<trader, earned, throws>>
    BY <1>5 DEF MainBooks, MainBook, MainApply, MainSaved, MainShow, Fault, lifeVars, history
  <2>2. \E label \in Labels \ {"k.start"} : Goto("main", label)
    BY <1>5 DEF MainBooks, MainBook, MainApply, MainSaved, MainShow, Fault, Labels
  <2>3. pc["main"] # "m.new" /\ "main" \in Threads
    BY <1>5 DEF MainBooks, MainBook, MainApply, MainSaved, MainShow, Threads
  <2>4. /\ pc' \in [Threads -> Labels]
        /\ pc'["main"] = "k.start" => pc'["monitor"] = "m.new"
    BY <2>2, <2>3, OneStep
  <2>5. BookTypes'
    <3>1. CASE MainBook \/ MainShow
      BY <1>5, <2>1, <3>1 DEF MainBook, MainShow, Fault, PaperTypeOK, BookTypes, Engines
    <3>2. CASE MainApply
      BY <2>1, <2>3, <3>2 DEF MainApply, Apply, PaperTypeOK, BookTypes, Books
    <3>3. CASE MainSaved
      BY <2>1, <3>3, NewIsBooks DEF MainSaved, Save, Disk, PaperTypeOK, BookTypes
    <3> QED
      BY <1>5, <3>1, <3>2, <3>3 DEF MainBooks
  <2> QED
    BY <2>1, <2>4, <2>5 DEF PaperTypeOK
<1>6. ASSUME NEW t \in Threads, Calls(t), ~Ends PROVE PaperTypeOK'
  <2>1. /\ pc' \in [Threads -> Labels] /\ UNCHANGED <<earned, throws>>
        /\ pc'["main"] = "k.start" => pc'["monitor"] = "m.new"
    BY <1>6, CallMoves DEF Fault
  <2>2. BookTypes' /\ trader' \in Engines /\ (trader' = None \/ trader'.on # "none")
    <3> USE <2>1 DEF PaperTypeOK, BookTypes
    <3>1. CASE StRead(t)
      BY <3>1 DEF StRead, Engines, lifeVars
    <3>2. CASE StBook(t)
      BY <3>2 DEF StBook, Apply, Books, lifeVars
    <3>3. CASE Saved(t) \/ StZero(t) \/ SfZero(t)
      BY <3>3, NewIsBooks DEF Saved, StZero, SfZero, Save, Disk, lifeVars
    <3>4. CASE StStop(t)
      <4>1. /\ UNCHANGED <<accounted, delta, total, account, file>> /\ trader # None
            /\ \E o \in Stopped(trader.on) : trader' = [trader EXCEPT !.on = o]
        BY <1>6, <3>4 DEF StStop, Fault, bookVars
      <4>2. \A o \in Stopped(trader.on) :
              o \in {"idle", "early", "on", "ignored", "off", "missed", "raced"}
        BY <4>1 DEF Stopped, Trading, Engines, None
      <4> QED
        BY <4>1, <4>2 DEF Engines
    <3>5. CASE StJoin(t) \/ SfJoin(t)
      BY <1>6, <3>5 DEF StJoin, SfJoin, Join, Fault, Move, bookVars, lifeVars
    <3>6. CASE StReset(t) \/ SfMake(t)
      <4>1. UNCHANGED <<accounted, delta, total, account, file>>
        BY <1>6, <3>6 DEF StReset, SfMake, Fault, bookVars
      <4>2. trader' = None \/ trader' = [None EXCEPT !.on = "idle"]
        BY <1>6, <3>6 DEF StReset, SfMake, Fault
      <4> QED
        BY <4>1, <4>2, Fresh
    <3>7. CASE SfActive(t) \/ SfThread(t)
      BY <1>6, <3>7 DEF SfActive, SfThread, Fault, bookVars
    <3> QED
      BY <1>6, <3>1, <3>2, <3>3, <3>4, <3>5, <3>6, <3>7 DEF Calls
  <2> QED
    BY <2>1, <2>2 DEF PaperTypeOK
<1>7. CASE OwnerDone /\ thr # "none"
  BY <1>1, <1>7 DEF OwnerDone, Fault
<1>8. CASE Crash
  BY <1>1, <1>8 DEF Crash
<1>9. ASSUME NEW t \in Threads, Raises(t) PROVE PaperTypeOK'
  <2>1. /\ pc' \in [Threads -> Labels]
        /\ pc'["main"] = "k.start" => pc'["monitor"] = "m.new"
    BY <1>9, ThrownLabel DEF PaperTypeOK, Raises, Threads
  <2>2. /\ accounted' = accounted /\ account' = account /\ earned' = earned
        /\ delta' = [delta EXCEPT ![t] = 0] /\ (total' = total \/ total' = 0)
        /\ throws' = throws \/ throws' = throws + 1
        /\ file' = file \/ file' = Disk("failed", file.books)
    BY <1>9 DEF Raises, Thrown
  <2>3. BookTypes'
    BY <2>2 DEF PaperTypeOK, BookTypes, Disk
  <2>4. trader' \in Engines /\ (trader' = None \/ trader'.on # "none")
    BY <1>9 DEF Raises, PaperTypeOK, Engines
  <2> QED
    BY <2>1, <2>3, <2>4 DEF PaperTypeOK
<1> QED
  BY <1>1, <1>2, <1>3, <1>4, <1>5, <1>6, <1>7, <1>8, <1>9, Kinds DEF PaperTypeOK

-----------------------------------------------------------------------------
(* The account file *)

Saving == {"st.save", "k.save"}

\* The mutex of the account is held by one thread at a time, and a file that was
\* always saved lags behind the account by the booking of its holder.
FileInv ==
  /\ \A t, u \in Threads : pc[t] \in Saving /\ pc[u] \in Saving => t = u
  /\ \/ file.state # "current" \/ file.books = account
     \/ /\ \E t \in Threads : pc[t] \in Saving
        /\ account.closed = file.books.closed + 1

\* The operations on the account, as calls of one thread.
LEMMA ApplyKeepsFile ==
  ASSUME PaperTypeOK, FileInv, NEW t \in Threads, Apply(t), Goto(t, "st.save") \/ Goto(t, "k.save")
  PROVE  FileInv'
<1>1. \A u \in Threads : pc[u] \notin Saving
  BY DEF Apply, Saving
<1>2. file' = file /\ account'.closed = account.closed + 1
  BY DEF Apply
<1>3. pc'[t] \in Saving /\ \A u \in Threads \ {t} : pc'[u] = pc[u]
  BY DEF Goto, PaperTypeOK, Saving
<1> QED
  BY <1>1, <1>2, <1>3 DEF FileInv

LEMMA SaveKeepsFile ==
  ASSUME PaperTypeOK, FileInv, NEW t \in Threads, pc[t] \in Saving, Save,
         Goto(t, "st.zero") \/ Goto(t, "k.show")
  PROVE  FileInv'
<1>1. file'.state = "failed" \/ file'.books = account'
  BY DEF Save, Disk
<1>2. \A u \in Threads : pc'[u] \notin Saving
  BY DEF FileInv, Goto, PaperTypeOK, Saving
<1> QED
  BY <1>1, <1>2 DEF FileInv

\* Steps that leave the account alone and no thread in or out of a save.
LEMMA OthersKeepFile ==
  ASSUME FileInv, UNCHANGED <<account, file>>,
         \A t \in Threads : pc'[t] \in Saving <=> pc[t] \in Saving
  PROVE  FileInv'
BY DEF FileInv

LEMMA NextFileInv == PaperTypeOK /\ FileInv /\ [Next]_vars => FileInv'
<1> SUFFICES ASSUME PaperTypeOK, FileInv, [Next]_vars PROVE FileInv'
  OBVIOUS
<1>1. CASE Ends
  <2>1. account' = file'.books /\ \A t \in Threads : pc'[t] \notin Saving
    BY <1>1, EndsFrame DEF Off, Saving
  <2> QED
    BY <2>1 DEF FileInv
<1>2. CASE UNCHANGED vars
  BY <1>2, OthersKeepFile DEF vars, bookVars
<1>3. CASE Quiet
  <2>1. UNCHANGED <<account, file>> /\ Moves(pc, pc')
    BY <1>3, QuietFrame DEF PaperTypeOK
  <2>2. \A t \in Threads : pc'[t] \in Saving <=> pc[t] \in Saving
    BY <2>1 DEF Moves, May, Unsettled, Promising, Saving
  <2> QED
    BY <2>1, <2>2, OthersKeepFile
<1>4. CASE ~Ends /\ (TraderBegin \/ TraderThread)
  BY <1>4, OthersKeepFile DEF TraderBegin, TraderThread, TraderOpens, TraderCloses, TraderReturns,
     TraderFails, Fault, bookVars
<1>5. CASE ~Ends /\ MainBooks
  <2>1. "main" \in Threads
    BY DEF Threads
  <2>2. CASE MainBook \/ MainShow
    <3>1. /\ UNCHANGED <<account, file>>
          /\ \E label \in Labels \ Saving : Goto("main", label)
          /\ pc["main"] \notin Saving
      BY <1>5, <2>2 DEF MainBook, MainShow, Fault, Labels, Saving
    <3>2. \A t \in Threads : pc'[t] \in Saving <=> pc[t] \in Saving
      BY <2>1, <3>1 DEF Goto, PaperTypeOK
    <3> QED
      BY <3>1, <3>2, OthersKeepFile
  <2>3. CASE MainApply
    BY <2>1, <2>3, ApplyKeepsFile DEF MainApply
  <2>4. CASE MainSaved
    BY <2>1, <2>4, SaveKeepsFile DEF MainSaved, Saving
  <2> QED
    BY <1>5, <2>2, <2>3, <2>4 DEF MainBooks
<1>6. ASSUME NEW t \in Threads, Calls(t), ~Ends PROVE FileInv'
  <2>1. CASE StBook(t)
    BY <2>1, ApplyKeepsFile DEF StBook
  <2>2. CASE Saved(t)
    BY <2>2, SaveKeepsFile DEF Saved, Saving
  <2>3. CASE \/ StRead(t) \/ StZero(t) \/ StStop(t) \/ StJoin(t) \/ StReset(t)
            \/ SfJoin(t) \/ SfMake(t) \/ SfZero(t) \/ SfActive(t) \/ SfThread(t)
    <3>1. /\ UNCHANGED <<account, file>>
          /\ \E label \in Labels \ Saving : Goto(t, label)
          /\ pc[t] \notin Saving
      BY <1>6, <2>3 DEF StRead, StZero, StStop, StJoin, StReset, SfJoin, SfMake, SfZero, SfActive,
         SfThread, Join, Move, Destroyed, AfterStop, Fault, Labels, Saving, bookVars
    <3>2. \A u \in Threads : pc'[u] \in Saving <=> pc[u] \in Saving
      BY <3>1 DEF Goto, PaperTypeOK
    <3> QED
      BY <3>1, <3>2, OthersKeepFile
  <2> QED
    BY <1>6, <2>1, <2>2, <2>3 DEF Calls
<1>7. CASE OwnerDone /\ thr # "none"
  BY <1>1, <1>7 DEF OwnerDone, Fault
<1>8. CASE Crash
  BY <1>1, <1>8 DEF Crash
<1>9. ASSUME NEW t \in Threads, Raises(t) PROVE FileInv'
  <2>1. /\ account' = account /\ pc'[t] \notin Saving
        /\ \A u \in Threads : pc'[u] \in Saving => pc[u] \in Saving /\ pc'[u] = pc[u]
        /\ \A u \in Threads \ {t} : pc[u] \in Saving => pc'[u] = pc[u]
    <3>1. /\ pc \in [Threads -> Labels] /\ pc' \in [Threads -> Labels] /\ account' = account
          /\ pc'[t] \in {"k.done", "m.done", "o.unwind"}
      BY <1>9, ThrownLabel DEF Raises, PaperTypeOK
    <3>2. CASE t # "main"
      <4>1. \A u \in Threads \ {t} : pc'[u] = pc[u]
        BY <1>9, <3>2, ThrownLabel DEF Raises, PaperTypeOK
      <4> QED
        BY <3>1, <4>1 DEF Saving
    <3>3. CASE t = "main"
      <4>1. /\ pc'["owner"] = pc["owner"]
            /\ pc'["monitor"] = pc["monitor"]
               \/ (pc["monitor"] \in {"m.wait", "m.block"} /\ pc'["monitor"] \in {"m.pred", "m.lost"})
        BY <1>9, <3>1, <3>3 DEF Raises, Thrown, Woken, Threads
      <4> QED
        BY <3>1, <3>3, <4>1 DEF Saving, Threads
    <3> QED
      BY <3>2, <3>3
  <2>2. \/ file'.state = "failed"
        \/ file' = file /\ pc[t] \notin Saving
    BY <1>9 DEF Raises, Disk, Saving
  <2> QED
    BY <2>1, <2>2 DEF FileInv
<1> QED
  BY <1>1, <1>2, <1>3, <1>4, <1>5, <1>6, <1>7, <1>8, <1>9, Kinds DEF PaperTypeOK

LEMMA InitPaper == Init => PaperTypeOK /\ FileInv
<1> SUFFICES ASSUME Init PROVE PaperTypeOK /\ FileInv
  OBVIOUS
<1>1. /\ pc \in [Threads -> Labels] /\ pc["owner"] = "o.wait" /\ pc["main"] = "k.start"
      /\ pc["monitor"] = "m.new"
  BY DEF Init, Threads, Labels
<1>2. PaperTypeOK
  BY <1>1, NewIsBooks DEF Init, PaperTypeOK, BookTypes, Disk, None, Engines
<1>3. \A t \in Threads : pc[t] \notin Saving
  BY <1>1 DEF Threads, Saving
<1> QED
  BY <1>2, <1>3 DEF FileInv, Init, Disk

\* Where the threads of ExecutionEngine are, the types of the account and the
\* trader, and PaperAccount's file behind its mutex, in every reachable state.
THEOREM PaperInvariant == Spec => [](PaperTypeOK /\ FileInv)
  BY InitPaper, NextPaperType, NextFileInv, PTL DEF Spec

\* DurableBookings: wherever the process dies, the account file that
\* PaperAccount::load reads lacks at most the booking in progress, unless a save
\* failed before.
THEOREM BookingsAreDurable == Spec => DurableBookings
<1>1. PaperTypeOK /\ FileInv /\ [Next]_vars =>
        [Crash => \/ file.state # "current"
                  \/ account' = account
                  \/ /\ \E t \in Threads : pc[t] \in {"st.save", "k.save"}
                     /\ account.closed = account'.closed + 1]_vars
  BY DEF Crash, Ends, FileInv, Saving
<1> QED
  BY <1>1, PaperInvariant, PTL DEF Spec, DurableBookings

-----------------------------------------------------------------------------
(* The life cycle *)

LEMMA MoreThrows == PaperTypeOK /\ [Next]_vars => throws' \in {throws, throws + 1}
<1> SUFFICES ASSUME PaperTypeOK, [Next]_vars PROVE throws' \in {throws, throws + 1}
  OBVIOUS
<1>1. CASE Ends \/ UNCHANGED vars
  BY <1>1 DEF Ends, vars, history
<1>2. CASE Quiet
  BY <1>2, QuietFrame DEF PaperTypeOK
<1>3. CASE TraderBegin \/ TraderThread \/ MainBooks
  BY <1>3, <1>1 DEF TraderBegin, TraderThread, TraderOpens, TraderCloses, TraderReturns, TraderFails,
     MainBooks, MainBook, MainApply, MainSaved, MainShow, Fault, history
<1>4. ASSUME NEW t \in Threads, Calls(t) PROVE throws' = throws
  BY <1>1, <1>4, CallMoves DEF Fault, Ends
<1>5. ASSUME NEW t \in Threads, Raises(t) PROVE throws' \in {throws, throws + 1}
  BY <1>5 DEF Raises
<1> QED
  BY <1>1, <1>2, <1>3, <1>4, <1>5, Kinds DEF Crash, OwnerDone, Fault, PaperTypeOK

\* What stop() has joined, and that the last engine's thread is gone before the
\* members are destroyed, until an exception ends a stop() early.
StopsInOrder ==
  /\ stops \in {0, 1, 2}
  /\ stops = 0 => pc["owner"] \in {"o.wait", "off"}
  /\ pc["owner"] = "o.wait" => stops = 0
  /\ pc["owner"] # "o.unwind"
  /\ pc["owner"] = "o.again" => stops = 1
  /\ pc["owner"] = "o.joinMonitor" => pc["main"] = "k.done"
  /\ pc["owner"] \in {"o.again", "o.logger", "o.joinLogger", "o.done"} \/ stops = 2 =>
       pc["main"] = "k.done" /\ pc["monitor"] = "m.done"
  /\ pc["owner"] \in {"o.logger", "o.joinLogger", "o.done"} => thr = "none"
  /\ stops = 2 /\ pc["owner"] \in {"st.reset", "o.collector", "o.joinMain", "o.joinMonitor"} =>
       thr = "none"

DoneInv == throws = 0 => StopsInOrder

LEMMA NextDoneInv == PaperTypeOK /\ DoneInv /\ [Next]_vars => DoneInv'
<1> SUFFICES ASSUME PaperTypeOK, StopsInOrder, [Next]_vars, throws' = throws PROVE StopsInOrder'
  <2>1. throws' \in {throws, throws + 1} \/ ~PaperTypeOK \/ ~[Next]_vars
    BY MoreThrows
  <2> QED
    BY <2>1 DEF PaperTypeOK, BookTypes, DoneInv
<1>0. pc \in [Threads -> Labels] /\ "owner" \in Threads /\ "main" \in Threads /\ "monitor" \in Threads
  BY DEF PaperTypeOK, Threads
<1>1. CASE Ends
  BY <1>0, <1>1 DEF Ends, Off, StopsInOrder
<1>2. CASE UNCHANGED vars
  BY <1>2 DEF vars, lifeVars, StopsInOrder
<1>3. CASE Quiet
  <2>1. thr' = thr
    BY <1>3, QuietFrame DEF PaperTypeOK
  <2> USE <1>0, <2>1 DEF StopsInOrder, Goto, Move
  <2>2. CASE MainStart \/ MainLoop \/ MainControl \/ MainApplied
    BY <2>2 DEF MainStart, MainLoop, MainControl, MainApplied
  <2>3. CASE MonitorTake \/ MonitorBlock \/ MonitorGate
    BY <2>3 DEF MonitorTake, MonitorBlock, MonitorGate
  <2>4. CASE OwnerStop
    <3>1. /\ pc'["main"] = pc["main"] /\ (pc["monitor"] = "m.done" => pc'["monitor"] = "m.done")
          /\ pc'["owner"] = NextStop
          /\ stops' = stops + 1
      BY <2>4 DEF OwnerStop, Woken, NextStop
    <3>2. pc["owner"] = "o.wait" \/ pc["owner"] = "o.again"
      BY <2>4 DEF OwnerStop
    <3>3. CASE pc["owner"] = "o.wait"
      BY <3>1, <3>3 DEF NextStop
    <3>4. CASE pc["owner"] = "o.again"
      BY <3>1, <3>4 DEF NextStop
    <3> QED
      BY <3>2, <3>3, <3>4
  <2>5. CASE OwnerCollector \/ OwnerJoinMain
    BY <2>5 DEF OwnerCollector, OwnerJoinMain
  <2>6. CASE OwnerJoinMonitor
    BY <2>6 DEF OwnerJoinMonitor
  <2>7. CASE OwnerLogger \/ (OwnerDone /\ thr = "none")
    BY <2>7 DEF OwnerLogger, OwnerDone
  <2>8. CASE WorkerStep \/ OperatorChange
    BY <2>8 DEF WorkerStep, OperatorChange
  <2>9. CASE ScannerSignal
    BY <2>9 DEF ScannerSignal, Woken
  <2> QED
    BY <1>3, <2>2, <2>3, <2>4, <2>5, <2>6, <2>7, <2>8, <2>9 DEF Quiet
<1>4. CASE ~Ends /\ (TraderBegin \/ TraderThread)
  <2>1. UNCHANGED <<pc, stops>> /\ thr # "none"
    BY <1>4 DEF TraderBegin, TraderThread, TraderOpens, TraderCloses, TraderReturns, TraderFails,
       Fault
  <2> QED
    BY <2>1 DEF StopsInOrder
<1>5. CASE ~Ends /\ MainBooks
  <2>1. /\ UNCHANGED <<stops, thr>> /\ pc["main"] # "k.done"
        /\ pc'["owner"] = pc["owner"] /\ pc'["monitor"] = pc["monitor"]
    BY <1>0, <1>5 DEF MainBooks, MainBook, MainApply, MainSaved, MainShow, Fault, Goto, lifeVars
  <2> QED
    BY <2>1 DEF StopsInOrder
<1>6. ASSUME NEW t \in Threads, Calls(t), ~Ends PROVE StopsInOrder'
  <2>1. /\ pc' \in [Threads -> Labels] /\ \A u \in Threads \ {t} : pc'[u] = pc[u]
        /\ stops' = stops
    BY <1>6, CallMoves DEF Fault, Calls, StRead, StBook, Saved, StZero, StStop, StJoin, StReset, SfJoin,
       SfMake, SfZero, SfActive, SfThread, Join, Move
  <2>2. CASE t # "owner"
    <3>1. pc[t] \notin {"k.done", "m.done"} /\ t \in {"main", "monitor"}
      BY <1>6, <2>2 DEF Calls, StRead, StBook, Saved, StZero, StStop, StJoin, StReset, SfJoin, SfMake, SfZero, SfActive,
         SfThread, Threads
    <3>2. pc'["owner"] = pc["owner"]
      BY <1>0, <2>1, <2>2
    <3>3. /\ ~(pc["owner"] \in {"o.again", "o.logger", "o.joinLogger", "o.done"} \/ stops = 2)
          /\ pc["owner"] = "o.joinMonitor" => t = "monitor"
      BY <3>1 DEF StopsInOrder
    <3>4. pc["owner"] = "o.joinMonitor" => pc'["main"] = "k.done"
      BY <1>0, <2>1, <3>3 DEF StopsInOrder
    <3> QED
      BY <2>1, <3>2, <3>3, <3>4 DEF StopsInOrder
  <2>3. CASE t = "owner"
    <3>1. pc'["main"] = pc["main"] /\ pc'["monitor"] = pc["monitor"]
      BY <1>0, <2>1, <2>3
    <3> USE <1>0, <2>1, <2>3, <3>1 DEF StopsInOrder, Goto, Move
    <3>2. CASE StRead(t)
      BY <3>2 DEF StRead, lifeVars
    <3>3. CASE StBook(t) \/ Saved(t) \/ StZero(t)
      BY <3>3 DEF StBook, Saved, StZero, lifeVars
    <3>4. CASE StStop(t)
      BY <1>6, <3>4 DEF StStop, Fault
    <3>5. CASE StJoin(t)
      <4>1. Goto(t, "st.reset") /\ thr' = "none"
        BY <1>6, <3>5 DEF StJoin, Join, Fault, lifeVars
      <4> QED
        BY <3>5, <4>1 DEF StJoin
    <3>6. CASE StReset(t)
      BY <1>6, <3>6 DEF StReset, AfterStop, Destroyed, Fault
    <3>7. CASE SfJoin(t) \/ SfMake(t) \/ SfZero(t) \/ SfActive(t) \/ SfThread(t)
      BY <1>6, <3>7 DEF SfJoin, SfMake, SfZero, SfActive, SfThread, Join, Destroyed, lifeVars, Fault
    <3> QED
      BY <1>6, <3>2, <3>3, <3>4, <3>5, <3>6, <3>7 DEF Calls
  <2> QED
    BY <2>2, <2>3
<1>7. CASE (OwnerDone /\ thr # "none") \/ Crash
  BY <1>1, <1>7 DEF OwnerDone, Fault, Crash
<1>8. ASSUME NEW t \in Threads, Raises(t) PROVE StopsInOrder'
  <2>1. /\ t \in {"main", "monitor"} /\ pc[t] = "sf.make" /\ UNCHANGED <<stops, thr>>
    BY <1>8 DEF Raises, Thrown, PaperTypeOK, BookTypes, Threads
  <2>2. /\ pc'["owner"] = pc["owner"] /\ (t = "monitor" => pc'["main"] = pc["main"])
        /\ t = "main" => pc'["main"] = "k.done"
        /\ pc["monitor"] = "m.done" => pc'["monitor"] = "m.done"
    BY <1>0, <1>8, <2>1, ThrownLabel DEF Raises, Threads
  <2> QED
    BY <2>1, <2>2 DEF StopsInOrder
<1> QED
  BY <1>1, <1>2, <1>3, <1>4, <1>5, <1>6, <1>7, <1>8, Kinds DEF PaperTypeOK

Unbooked == trader.profit - accounted

\* What the account may hold: each exception has the profit booked once more.
Budget == (throws + 1) * earned

LEMMA BudgetArithmetic ==
  ASSUME NEW k \in Nat, NEW e \in Nat
  PROVE  /\ (k + 1) * e \in Nat
         /\ (k + 1) * e + 1 <= (k + 1) * (e + 1)
         /\ (k + 1 + 1) * e = (k + 1) * e + e
<1>1. (k + 1) * (e + 1) = (k + 1) * e + k + 1
  OBVIOUS
<1>2. (k + 1 + 1) * e = (k + 1) * e + e
  OBVIOUS
<1>3. (k + 1) * e = k * e + e /\ k * e \in Nat
  OBVIOUS
<1> QED
  BY <1>1, <1>2, <1>3

\* What a thread relies on at each label of the life cycle: the thread object it
\* joined is gone, the trader it read is still there, and the profit it is about
\* to book was made and is not booked yet.
Promise(t) ==
  /\ pc[t] \in {"st.reset", "sf.make", "sf.zero", "sf.active", "sf.thread"} => thr = "none"
  /\ pc[t] \in {"st.book", "st.save", "st.zero", "st.stop", "k.apply", "k.save", "k.show"} => trader # None
  /\ pc[t] \in {"sf.zero", "sf.active", "sf.thread"} => trader # None /\ trader.profit = 0
  /\ pc[t] = "st.stop" => accounted = 0
  /\ pc[t] \in {"st.save", "k.save"} => 0 <= Unbooked
  /\ pc[t] \in {"st.book", "k.apply"} => delta[t] <= Unbooked
  /\ pc[t] \in {"st.book", "k.apply", "k.save"} => 1 <= delta[t]
  /\ pc[t] = "k.save" => /\ delta[t] <= Unbooked
                         /\ account.equity + Unbooked - delta[t] <= Initial + Budget
  /\ pc[t] \in {"k.apply", "k.save"} => delta[t] = total - accounted

\* Outside the bookings in progress, the account and what is still to be booked
\* are no more than the budget.
Settled ==
  trader # None => 0 <= Unbooked /\ account.equity + Unbooked <= Initial + Budget

LifeSound ==
  /\ thr \in {"created", "running"} => trader # None
  /\ account.equity <= Initial + Budget /\ account.closed <= account.equity - Initial
  /\ 0 <= accounted /\ trader.profit <= earned

Sound ==
  /\ LifeSound
  /\ (\A t \in Threads : pc[t] \notin Unsettled) => Settled
  /\ \A t \in Threads : Promise(t)

SerialInv ==
  /\ Overlapping => overlap
  /\ ~overlap => (throws = 0 => ~fault) /\ (pc # Off => Sound)

\* A thread in the life cycle is alone there.
LEMMA Alone ==
  ASSUME ~Overlapping, NEW t \in Threads, pc[t] \in Section
  PROVE  \A u \in Threads \ {t} : pc[u] \notin Section
BY DEF Overlapping

LEMMA PromisingInSection == Promising \subseteq Section /\ Unsettled \subseteq Promising
BY DEF Promising, Unsettled, Section, Stopping, Starting, Booking

\* A step of one thread in the life cycle has only its own promise to keep.
LEMMA SoloSound ==
  ASSUME NEW t \in Threads, \A u \in Threads \ {t} : pc'[u] \notin Section,
         LifeSound', pc'[t] \notin Unsettled => Settled', Promise(t)'
  PROVE  Sound'
<1>1. \A u \in Threads \ {t} : Promise(u)'
  BY PromisingInSection DEF Promise, Promising, Unsettled
<1> QED
  BY <1>1 DEF Sound

\* With the life cycle to itself a thread finds the books settled.
LEMMA SoloSettled ==
  ASSUME Sound, ~Overlapping, NEW t \in Threads, pc[t] \in Section \ Unsettled
  PROVE  Settled
BY Alone, PromisingInSection DEF Sound

LEMMA BooksAreInts ==
  ASSUME PaperTypeOK
  PROVE  /\ trader.profit \in Nat /\ accounted \in Int /\ earned \in Nat /\ Initial \in Int
         /\ throws \in Nat /\ Budget \in Nat /\ account.equity \in Int /\ account.closed \in Int /\ total \in Int
         /\ \A t \in Threads : delta[t] \in Int
<1>1. earned \in Nat /\ throws \in Nat
  BY DEF PaperTypeOK, BookTypes
<1>2. Budget \in Nat
  BY <1>1, BudgetArithmetic DEF Budget
<1> QED
  BY <1>1, <1>2, RuntimeAssumption DEF PaperTypeOK, BookTypes, Books, Engines

\* A quiet step keeps every promise.
LEMMA QuietSound ==
  ASSUME PaperTypeOK, Sound, Quiet
  PROVE  Sound' /\ fault' = fault
<1>1. /\ UNCHANGED <<trader, thr, accounted, delta, total, account, fault, earned, throws>>
      /\ Moves(pc, pc')
  BY QuietFrame DEF PaperTypeOK
<1>2. LifeSound' /\ (Settled => Settled')
  BY <1>1 DEF Sound, LifeSound, Settled, Unbooked, Budget
<1>3. ASSUME NEW t \in Threads PROVE Promise(t)'
  <2>1. CASE pc'[t] = pc[t]
    <3>1. Promise(t)
      BY DEF Sound
    <3> QED
      BY <1>1, <2>1, <3>1 DEF Promise, Unbooked, Budget
  <2>2. CASE pc'[t] \notin Promising
    BY <2>2 DEF Promise, Promising, Unsettled
  <2> QED
    BY <1>1, <2>1, <2>2 DEF Moves, May
<1>4. (\A t \in Threads : pc'[t] \notin Unsettled) => (\A t \in Threads : pc[t] \notin Unsettled)
  BY <1>1 DEF Moves, May
<1> QED
  BY <1>1, <1>2, <1>3, <1>4 DEF Sound

\* The trader thread adds to what is earned and to what is to be booked alike.
LEMMA TraderSound ==
  ASSUME PaperTypeOK, Sound, TraderBegin \/ TraderThread
  PROVE  Sound' /\ fault' = fault
<1>1. trader # None
  BY DEF TraderBegin, TraderThread, TraderOpens, TraderCloses, TraderReturns, TraderFails, Sound,
     LifeSound
<1>2. UNCHANGED <<pc, accounted, delta, total, account, fault, throws>> /\ thr # "none"
  BY <1>1 DEF TraderBegin, TraderThread, TraderOpens, TraderCloses, TraderReturns, TraderFails,
     bookVars, history
<1>3. \/ trader'.profit = trader.profit /\ earned' = earned
      \/ trader'.profit = trader.profit + 1 /\ earned' = earned + 1
  <2>1. CASE TraderBegin
    BY <1>1, <2>1 DEF TraderBegin, PaperTypeOK, Engines, history
  <2>2. CASE TraderOpens \/ TraderFails
    BY <2>2 DEF TraderOpens, TraderFails, PaperTypeOK, Engines, history
  <2>3. CASE TraderCloses
    BY <2>3 DEF TraderCloses, PaperTypeOK, Engines
  <2>4. CASE TraderReturns
    BY <2>4 DEF TraderReturns, history
  <2> QED
    BY <2>1, <2>2, <2>3, <2>4 DEF TraderThread
<1>4. trader' # None
  <2>1. CASE TraderBegin
    BY <1>1, <2>1 DEF TraderBegin, PaperTypeOK, Engines, None
  <2>2. CASE TraderOpens \/ TraderCloses \/ TraderFails
    <3>1. trader'.on # "none"
      BY <2>2 DEF TraderOpens, TraderCloses, TraderFails, PaperTypeOK, Engines, Trading
    <3> QED
      BY <3>1 DEF None
  <2>3. CASE TraderReturns
    BY <1>1, <2>3 DEF TraderReturns
  <2> QED
    BY <2>1, <2>2, <2>3 DEF TraderThread
<1>5. /\ trader.profit \in Int /\ accounted \in Int /\ earned \in Nat /\ Initial \in Int
      /\ throws \in Nat /\ Budget \in Nat /\ account.equity \in Int /\ account.closed \in Int /\ total \in Int
      /\ \A t \in Threads : delta[t] \in Int
  BY BooksAreInts
<1>a. /\ Budget' \in Nat
      /\ \/ trader'.profit = trader.profit /\ earned' = earned /\ Budget' = Budget
         \/ /\ trader'.profit = trader.profit + 1 /\ earned' = earned + 1
            /\ Budget + 1 <= Budget'
  <2>1. CASE earned' = earned
    BY <1>2, <1>3, <1>5, <2>1 DEF Budget
  <2>2. CASE earned' = earned + 1
    <3>1. /\ (throws + 1) * (earned + 1) \in Nat
          /\ (throws + 1) * earned + 1 <= (throws + 1) * (earned + 1)
      BY <1>5, BudgetArithmetic
    <3> QED
      BY <1>2, <1>3, <1>5, <2>2, <3>1 DEF Budget
  <2> QED
    BY <1>3, <2>1, <2>2
<1>6. LifeSound' /\ (Settled => Settled')
  BY <1>1, <1>2, <1>4, <1>5, <1>a DEF Sound, LifeSound, Settled, Unbooked
<1>7. ASSUME NEW t \in Threads PROVE Promise(t)'
  <2>1. Promise(t)
    BY DEF Sound
  <2> QED
    BY <1>1, <1>2, <1>4, <1>5, <1>a, <2>1 DEF Promise, Unbooked
<1> QED
  BY <1>2, <1>6, <1>7 DEF Sound

\* The coordinator's bookings.
LEMMA MainBooksSound ==
  ASSUME PaperTypeOK, Sound, ~Overlapping, MainBooks
  PROVE  Sound' /\ fault' = fault
<1> DEFINE m == "main"
<1>1. m \in Threads /\ pc \in [Threads -> Labels] /\ delta \in [Threads -> Int]
  BY DEF PaperTypeOK, BookTypes, Threads
<1>2. pc[m] \in {"k.book", "k.apply", "k.save", "k.show"} /\ pc[m] \in Section
  BY DEF MainBooks, MainBook, MainApply, MainSaved, MainShow, Section, Booking
<1>3. Promise(m) /\ LifeSound
  BY <1>1 DEF Sound
<1>4. ~Fault
  <2>1. ~(pc[m] = "k.show" /\ trader = None)
    BY <1>3 DEF Promise
  <2>2. CASE MainShow
    BY <2>1, <2>2, <1>1 DEF MainShow, Fault, Ends, Off, Goto, Threads
  <2>3. CASE MainBook \/ MainApply \/ MainSaved
    <3>1. \E label \in Labels \ {"off"} : Goto(m, label)
      BY <2>3 DEF MainBook, MainApply, MainSaved, Labels
    <3> QED
      BY <1>1, <3>1 DEF Goto, Fault, Ends, Off
  <2> QED
    BY <2>2, <2>3 DEF MainBooks
<1>5. UNCHANGED <<trader, thr, earned, throws, fault, Budget>>
  BY <1>4 DEF MainBooks, MainBook, MainApply, MainSaved, MainShow, lifeVars, history, Budget
<1>6. pc' = [pc EXCEPT ![m] = pc'[m]]
  BY <1>1, <1>4 DEF MainBooks, MainBook, MainApply, MainSaved, MainShow, Goto
<1>7. \A u \in Threads \ {m} : pc'[u] \notin Section
  BY <1>1, <1>2, <1>6, Alone
<1> USE <1>1, <1>3, <1>5, BooksAreInts
<1>8. CASE MainBook
  <2>1. Settled
    BY <1>2, <1>8, SoloSettled DEF MainBook, Unsettled
  <2>2. UNCHANGED <<accounted, account>>
    BY <1>8 DEF MainBook
  <2>3. LifeSound' /\ Settled'
    BY <2>1, <2>2 DEF LifeSound, Settled, Unbooked
  <2>4. Promise(m)'
    <3>1. CASE trader = None
      BY <1>8, <3>1 DEF MainBook, Goto, Promise
    <3>2. CASE trader # None
      <4>1. /\ total' = trader.profit /\ delta'[m] = trader.profit - accounted
            /\ pc'[m] = IF trader.profit # accounted THEN "k.apply" ELSE "k.show"
        BY <1>8, <3>2 DEF MainBook, Goto
      <4>2. CASE trader.profit = accounted
        BY <3>2, <4>1, <4>2 DEF Promise
      <4>3. CASE trader.profit # accounted
        <5>1. pc'[m] = "k.apply" /\ delta'[m] = Unbooked' /\ delta'[m] = total' - accounted'
          BY <2>2, <4>1, <4>3 DEF Unbooked
        <5>2. delta'[m] \in Int /\ 1 <= delta'[m]
          BY <2>1, <3>2, <4>1, <4>3 DEF Settled, Unbooked
        <5> QED
          BY <3>2, <5>1, <5>2 DEF Promise
      <4> QED
        BY <4>2, <4>3
    <3> QED
      BY <3>1, <3>2
  <2> QED
    BY <1>5, <1>7, <2>3, <2>4, SoloSound
<1>9. CASE MainApply
  <2>1. Settled
    BY <1>2, <1>9, SoloSettled DEF MainApply, Unsettled
  <2>2. /\ UNCHANGED <<accounted, delta, total>> /\ pc[m] = "k.apply" /\ pc'[m] = "k.save"
        /\ account'.equity = account.equity + delta[m] /\ account'.closed = account.closed + 1
    BY <1>9 DEF MainApply, Apply, Goto
  <2>3. trader # None /\ 1 <= delta[m] /\ delta[m] <= Unbooked
    BY <2>2 DEF Promise
  <2>4. LifeSound' /\ Promise(m)'
    BY <2>1, <2>2, <2>3 DEF LifeSound, Promise, Settled, Unbooked
  <2>5. pc'[m] \in Unsettled
    BY <2>2 DEF Unsettled
  <2> QED
    BY <1>5, <1>7, <2>4, <2>5, SoloSound
<1>10. CASE MainSaved
  <2>1. /\ UNCHANGED <<delta, total, account>> /\ accounted' = total
        /\ pc[m] = "k.save" /\ pc'[m] = "k.show"
    BY <1>10 DEF MainSaved, Save, Goto
  <2>2. LifeSound' /\ Settled' /\ Promise(m)'
    BY <2>1 DEF LifeSound, Promise, Settled, Unbooked
  <2> QED
    BY <1>5, <1>7, <2>2, SoloSound
<1>11. CASE MainShow
  <2>1. Settled
    BY <1>2, <1>11, SoloSettled DEF MainShow, Unsettled
  <2>2. UNCHANGED <<accounted, account>> /\ pc'[m] = "k.wait"
    BY <1>4, <1>11 DEF MainShow, Goto
  <2>3. LifeSound' /\ Settled' /\ Promise(m)'
    BY <2>1, <2>2 DEF LifeSound, Promise, Settled, Unbooked
  <2> QED
    BY <1>5, <1>7, <2>3, SoloSound
<1> QED
  BY <1>8, <1>9, <1>10, <1>11 DEF MainBooks

\* stop_trader and start_trader_for by one thread.
LEMMA CallSound ==
  ASSUME PaperTypeOK, Sound, ~Overlapping, NEW t \in Threads, Calls(t)
  PROVE  Sound' /\ fault' = fault
<1>1. pc \in [Threads -> Labels] /\ delta \in [Threads -> Int]
  BY DEF PaperTypeOK, BookTypes
<1>2. pc[t] \in Stopping \cup Starting /\ pc[t] \in Section
  BY DEF Calls, StRead, StBook, Saved, StZero, StStop, StJoin, StReset, SfJoin, SfMake, SfZero, SfActive, SfThread, Section,
     Stopping, Starting
<1>3. Promise(t) /\ LifeSound
  BY DEF Sound
<1>4. \A u \in Threads \ {t} : pc[u] \notin Section
  BY <1>2, Alone
<1>5. ~Fault
  <2>1. \E label \in Labels \ {"off"} : Goto(t, label)
    <3> USE DEF Labels
    <3>1. CASE StRead(t)
      BY <3>1 DEF StRead, AfterStop
    <3>2. CASE StBook(t) \/ Saved(t) \/ StZero(t) \/ SfZero(t) \/ SfActive(t)
      BY <3>2 DEF StBook, Saved, StZero, SfZero, SfActive
    <3>3. CASE StStop(t)
      BY <1>3, <3>3 DEF StStop, Promise
    <3>4. CASE StJoin(t) \/ SfJoin(t)
      BY <1>4, <3>4 DEF StJoin, SfJoin, Join, Move, Section, Stopping, Starting
    <3>5. CASE StReset(t)
      BY <1>3, <3>5 DEF StReset, AfterStop, Promise, InUse, Destroyed
    <3>6. CASE SfMake(t) \/ SfThread(t)
      BY <1>3, <3>6 DEF SfMake, SfThread, Promise, InUse, Destroyed
    <3> QED
      BY <3>1, <3>2, <3>3, <3>4, <3>5, <3>6 DEF Calls
  <2> QED
    BY <1>1, <2>1 DEF Goto, Fault, Ends, Off
<1>6. /\ \A u \in Threads \ {t} : pc'[u] \notin Section
      /\ UNCHANGED <<earned, throws, fault, Budget>>
  BY <1>4, <1>5, CallMoves DEF Budget
<1> USE <1>1, <1>3, <1>6, BooksAreInts
<1>7. CASE StRead(t)
  <2>1. Settled
    BY <1>2, <1>7, SoloSettled DEF StRead, Unsettled
  <2>2. UNCHANGED <<trader, thr, accounted, account>>
    BY <1>7 DEF StRead, lifeVars
  <2>3. LifeSound' /\ Settled'
    BY <2>1, <2>2 DEF LifeSound, Settled, Unbooked
  <2>4. Promise(t)'
    <3>1. CASE trader = None
      BY <1>7, <3>1 DEF StRead, Goto, Promise, AfterStop
    <3>2. CASE trader # None
      <4>1. /\ delta'[t] = trader.profit - accounted
            /\ pc'[t] = IF trader.profit # accounted THEN "st.book" ELSE "st.zero"
        BY <1>7, <3>2 DEF StRead, Goto
      <4>2. CASE trader.profit = accounted
        BY <2>2, <3>2, <4>1, <4>2 DEF Promise
      <4>3. CASE trader.profit # accounted
        <5>1. pc'[t] = "st.book" /\ delta'[t] = Unbooked'
          BY <2>2, <4>1, <4>3 DEF Unbooked
        <5>2. delta'[t] \in Int /\ 1 <= delta'[t]
          BY <2>1, <3>2, <4>1, <4>3 DEF Settled, Unbooked
        <5> QED
          BY <2>2, <3>2, <5>1, <5>2 DEF Promise
      <4> QED
        BY <4>2, <4>3
    <3> QED
      BY <3>1, <3>2
  <2> QED
    BY <2>3, <2>4, SoloSound
<1>8. CASE StBook(t)
  <2>1. Settled
    BY <1>2, <1>8, SoloSettled DEF StBook, Unsettled
  <2>2. /\ UNCHANGED <<trader, thr, accounted, delta>> /\ pc[t] = "st.book" /\ pc'[t] = "st.save"
        /\ account'.equity = account.equity + delta[t] /\ account'.closed = account.closed + 1
    BY <1>8 DEF StBook, Apply, Goto, lifeVars
  <2>3. trader # None /\ 1 <= delta[t] /\ delta[t] <= Unbooked
    BY <2>2 DEF Promise
  <2>4. LifeSound'
    BY <2>1, <2>2, <2>3 DEF LifeSound, Settled, Unbooked
  <2>5. Promise(t)' /\ pc'[t] \in Unsettled
    BY <2>2, <2>3 DEF Promise, Unsettled, Unbooked
  <2> QED
    BY <2>4, <2>5, SoloSound
<1>9. CASE Saved(t)
  <2>1. UNCHANGED <<trader, thr, account, accounted>> /\ pc[t] = "st.save" /\ pc'[t] = "st.zero"
    BY <1>9 DEF Saved, Save, Goto, lifeVars
  <2>2. LifeSound' /\ Promise(t)' /\ pc'[t] \in Unsettled
    BY <2>1 DEF LifeSound, Promise, Unsettled
  <2> QED
    BY <2>2, SoloSound
<1>a. CASE StZero(t)
  <2>1. /\ UNCHANGED <<trader, thr, account>> /\ accounted' = 0
        /\ pc[t] = "st.zero" /\ pc'[t] = "st.stop"
    BY <1>a DEF StZero, Goto, lifeVars
  <2>2. LifeSound' /\ Promise(t)' /\ pc'[t] \in Unsettled
    BY <2>1 DEF LifeSound, Promise, Unsettled
  <2> QED
    BY <2>2, SoloSound
<1>10. CASE StStop(t)
  <2>1. /\ trader # None /\ UNCHANGED <<thr, account, accounted>> /\ pc'[t] = "st.join"
        /\ trader' \in {[trader EXCEPT !.on = o] : o \in Stopped(trader.on)}
    BY <1>5, <1>10 DEF StStop, Goto, bookVars
  <2>2. trader' # None /\ trader'.profit = trader.profit
    BY <2>1 DEF Stopped, Trading, PaperTypeOK, Engines, None
  <2>3. LifeSound' /\ Promise(t)' /\ pc'[t] \in Unsettled
    BY <2>1, <2>2 DEF LifeSound, Promise, Unsettled
  <2> QED
    BY <2>3, SoloSound
<1>11. CASE StJoin(t) \/ SfJoin(t)
  <2>1. /\ UNCHANGED <<trader, accounted, account>> /\ thr' = "none"
        /\ StJoin(t) => pc'[t] = "st.reset"
        /\ SfJoin(t) => pc'[t] = "sf.make" /\ pc[t] = "sf.join"
    BY <1>5, <1>11 DEF StJoin, SfJoin, Join, Move, Goto, bookVars, lifeVars
  <2>2. LifeSound' /\ Promise(t)'
    BY <1>11, <2>1 DEF LifeSound, Promise
  <2>3. CASE StJoin(t)
    <3>1. pc'[t] \in Unsettled
      BY <2>1, <2>3 DEF Unsettled
    <3> QED
      BY <2>2, <3>1, SoloSound
  <2>4. CASE SfJoin(t)
    <3>1. Settled
      BY <1>2, <2>1, <2>4, SoloSettled DEF Unsettled
    <3>2. Settled'
      BY <2>1, <3>1 DEF Settled, Unbooked
    <3> QED
      BY <2>2, <3>2, SoloSound
  <2> QED
    BY <1>11, <2>3, <2>4
<1>12. CASE StReset(t)
  <2>1. /\ trader' = None /\ UNCHANGED <<thr, account, accounted>> /\ thr = "none"
        /\ pc'[t] \in {"o.collector", "sf.join", "k.applied", "st.lost"}
    BY <1>5, <1>12 DEF StReset, Goto, AfterStop, Destroyed, bookVars, Promise
  <2>2. LifeSound' /\ Settled' /\ Promise(t)'
    BY <2>1 DEF LifeSound, Promise, Settled, None
  <2> QED
    BY <2>2, SoloSound
<1>13. CASE SfMake(t)
  <2>1. /\ trader' = [None EXCEPT !.on = "idle"] /\ UNCHANGED <<thr, account, accounted>> /\ thr = "none"
        /\ pc'[t] \in {"sf.zero", "sf.lost"}
    BY <1>5, <1>13 DEF SfMake, Goto, Destroyed, bookVars, Promise
  <2>2. trader' # None /\ trader'.profit = 0
    BY <2>1, Fresh
  <2>3. LifeSound' /\ Promise(t)' /\ pc'[t] \in Unsettled
    BY <2>1, <2>2 DEF LifeSound, Promise, Unsettled
  <2> QED
    BY <2>3, SoloSound
<1>14. CASE SfZero(t)
  <2>1. /\ accounted' = 0 /\ UNCHANGED <<trader, thr, account>>
        /\ pc[t] = "sf.zero" /\ pc'[t] = "sf.active"
    BY <1>14 DEF SfZero, Goto, lifeVars
  <2>2. trader # None /\ trader.profit = 0 /\ thr = "none"
    BY <2>1 DEF Promise
  <2>3. LifeSound' /\ Settled' /\ Promise(t)'
    BY <2>1, <2>2 DEF LifeSound, Promise, Settled, Unbooked
  <2> QED
    BY <2>3, SoloSound
<1>15. CASE SfActive(t) \/ SfThread(t)
  <2>1. /\ thr = "none" /\ UNCHANGED <<trader, accounted, account>>
        /\ pc[t] \in {"sf.active", "sf.thread"} /\ trader # None /\ trader.profit = 0
        /\ SfActive(t) => pc'[t] = "sf.thread" /\ thr' = thr
        /\ SfThread(t) => pc'[t] \in {"k.applied", "m.pred"}
    BY <1>5, <1>15 DEF SfActive, SfThread, Goto, bookVars, Promise
  <2>2. Settled
    BY <1>2, <2>1, SoloSettled DEF Unsettled
  <2>3. LifeSound' /\ Settled' /\ Promise(t)'
    BY <1>15, <2>1, <2>2 DEF LifeSound, Promise, Settled, Unbooked
  <2> QED
    BY <2>3, SoloSound
<1> QED
  BY <1>7, <1>8, <1>9, <1>a, <1>10, <1>11, <1>12, <1>13, <1>14, <1>15 DEF Calls

\* An exception leaves a life cycle that nobody is in, and at most the profit of
\* the present engine to be booked again.
LEMMA RaiseSound ==
  ASSUME PaperTypeOK, Sound, ~Overlapping, NEW t \in Threads, Raises(t)
  PROVE  Sound'
<1>1. pc[t] \in {"sf.make", "st.save", "k.save", "st.stop"} /\ pc \in [Threads -> Labels]
  BY DEF Raises, PaperTypeOK
<1>2. \A u \in Threads \ {t} : pc[u] \notin Section
  BY <1>1, Alone DEF Section, Stopping, Starting, Booking
<1>3. \A u \in Threads : pc'[u] \notin Section
  <2>1. Thrown(t)
    BY DEF Raises
  <2> QED
    BY <1>1, <1>2, <2>1, ThrownLabel DEF Section, Stopping, Starting, Booking, Threads
<1>4. Promise(t)' /\ pc'[t] \notin Unsettled
  BY <1>3, PromisingInSection DEF Promise, Promising, Unsettled
<1>5. UNCHANGED <<thr, accounted, account, earned>> /\ Promise(t) /\ LifeSound
  BY DEF Raises, Thrown, Sound
<1>6. trader'.profit = trader.profit /\ (trader' = None <=> trader = None)
  BY DEF Raises, PaperTypeOK, Engines, Trading, None
<1>7. LifeSound' /\ Settled'
  <2>1. CASE pc[t] = "sf.make"
    <3>1. Settled
      BY <2>1, SoloSettled DEF Section, Starting, Unsettled
    <3>2. Budget' = Budget
      BY <1>5, <2>1 DEF Raises, Budget
    <3> QED
      BY <1>5, <1>6, <3>1, <3>2 DEF LifeSound, Settled, Unbooked
  <2>2. CASE pc[t] # "sf.make"
    <3>1. throws' = throws + 1
      BY <2>2 DEF Raises
    <3>2. Budget' = Budget + earned
      BY <1>5, <3>1, BooksAreInts, BudgetArithmetic DEF Budget
    <3>3. 0 <= Unbooked
      BY <1>1, <1>5, <2>2, BooksAreInts DEF Promise, Unbooked
    <3> QED
      BY <1>5, <1>6, <3>2, <3>3, BooksAreInts DEF LifeSound, Settled, Unbooked
  <2> QED
    BY <2>1, <2>2
<1> QED
  BY <1>3, <1>4, <1>7, SoloSound

LEMMA InitSerial == Init => DoneInv /\ SerialInv
<1> SUFFICES ASSUME Init PROVE DoneInv /\ SerialInv
  OBVIOUS
<1>1. \A t \in Threads : pc[t] \in {"o.wait", "k.start", "m.new"}
  BY DEF Init, Threads
<1>2. pc["owner"] = "o.wait" /\ stops = 0 /\ thr = "none" /\ trader = None /\ ~fault
  BY DEF Init
<1>3. account.equity = Initial /\ account.closed = 0 /\ earned = 0 /\ Initial \in Int
      /\ Budget = 0 /\ accounted = 0 /\ trader.profit = 0
  BY RuntimeAssumption DEF Init, New, Budget, None
<1>4. ~Overlapping
  BY <1>1 DEF Overlapping, Section, Stopping, Starting, Booking
<1>5. Sound
  BY <1>1, <1>2, <1>3 DEF Sound, LifeSound, Settled, Promise
<1> QED
  BY <1>2, <1>4, <1>5 DEF DoneInv, StopsInOrder, SerialInv

LEMMA NextSerial ==
  PaperTypeOK /\ DoneInv /\ SerialInv /\ [Next]_vars => SerialInv'
<1> SUFFICES ASSUME PaperTypeOK, DoneInv, SerialInv, [Next]_vars PROVE SerialInv'
  OBVIOUS
<1>1. ASSUME Ends, overlap => overlap', (throws = 0 => ~fault) => (throws = 0 => ~fault') PROVE SerialInv'
  <2>1. pc' = Off /\ throws' = throws
    BY <1>1 DEF Ends
  <2>2. ~Overlapping'
    BY <2>1 DEF Overlapping, Off, Section, Stopping, Starting, Booking
  <2> QED
    BY <1>1, <2>1, <2>2 DEF SerialInv
<1>2. CASE UNCHANGED vars
  BY <1>2 DEF vars, lifeVars, bookVars, history, SerialInv, Overlapping, Sound, LifeSound, Settled,
     Promise, Unbooked, Budget
<1>3. ASSUME pc # Off, overlap' = (overlap \/ Overlapping'),
             \/ Quiet \/ TraderBegin \/ TraderThread \/ MainBooks
             \/ \E t \in Threads : Calls(t)
             \/ \E t \in Threads : Raises(t)
      PROVE  SerialInv'
  <2>1. Overlapping' => overlap'
    BY <1>3
  <2>2. ASSUME ~overlap' PROVE (throws' = 0 => ~fault') /\ Sound'
    <3>1. ~overlap /\ ~Overlapping /\ (throws = 0 => ~fault) /\ Sound
      BY <1>3, <2>2 DEF SerialInv
    <3>2. Sound' /\ fault' = fault
      <4>1. CASE Quiet
        BY <3>1, <4>1, QuietSound
      <4>2. CASE TraderBegin \/ TraderThread
        BY <3>1, <4>2, TraderSound
      <4>3. CASE MainBooks
        BY <3>1, <4>3, MainBooksSound
      <4>4. CASE \E t \in Threads : Calls(t)
        BY <3>1, <4>4, CallSound
      <4>5. CASE \E t \in Threads : Raises(t)
        BY <3>1, <4>5, RaiseSound DEF Raises, Thrown
      <4> QED
        BY <1>3, <4>1, <4>2, <4>3, <4>4, <4>5
    <3>3. throws' = 0 => throws = 0
      BY MoreThrows DEF PaperTypeOK, BookTypes
    <3> QED
      BY <3>1, <3>2, <3>3
  <2> QED
    BY <2>1, <2>2 DEF SerialInv
<1>4. CASE OwnerDone /\ thr # "none" /\ overlap' = (overlap \/ Overlapping')
  <2>1. Ends /\ throws # 0
    BY <1>4 DEF OwnerDone, Fault, DoneInv, StopsInOrder
  <2> QED
    BY <1>1, <1>4, <2>1
<1> QED
  BY <1>1, <1>2, <1>3, <1>4, Kinds DEF Crash, PaperTypeOK

\* SerialIsSound: as long as no two of paper_main, run_main_loop and
\* monitor_scanner are in the trader's life cycle at once, the account never holds
\* more than the engines made, booked once and once more for each exception out of
\* a save or TradeEngine::stop(); without such an exception ExecutionEngine uses
\* no destroyed engine, joins no thread twice and overwrites none, whatever the
\* trader threads, the scanner and the operator do meanwhile.
THEOREM SerialStaysSound == Spec => []SerialIsSound
<1>1. PaperTypeOK /\ SerialInv => SerialIsSound
  <2> SUFFICES ASSUME PaperTypeOK, SerialInv, ~overlap
               PROVE  /\ throws = 0 => ~fault
                      /\ pc # Off => /\ account.equity <= Initial + Budget
                                     /\ account.closed <= Budget
    BY DEF SerialIsSound, Budget
  <2>1. (throws = 0 => ~fault) /\ (pc # Off => LifeSound)
    BY DEF SerialInv, Sound
  <2> QED
    BY <2>1, BooksAreInts DEF LifeSound
<1> QED
  BY <1>1, InitSerial, NextDoneInv, NextSerial, PaperInvariant, PTL DEF Spec

=============================================================================
