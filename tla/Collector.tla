----------------------------- MODULE Collector -----------------------------
(***************************************************************************)
(* collector/Collector.cpp: the websocket thread parses one-second klines, *)
(* updates the market store, publishes closed candles and queues them; the *)
(* writer thread drains the queue into SQLite in batches; stop() joins     *)
(* both.  The queue is atomic here: SpscRingQueue is shown to implement    *)
(* BoundedFifo.                                                            *)
(***************************************************************************)
EXTENDS Naturals, Sequences

CONSTANTS QueueCapacity,  \* queue_capacity
          BatchSize,      \* batch_size
          MaxMessages     \* bound: websocket messages received in a behaviour

ASSUME CollectorAssumption ==
  /\ QueueCapacity \in Nat \ {0}
  /\ BatchSize \in Nat \ {0}
  /\ MaxMessages \in Nat

VARIABLES
  running,     \* the atomic flag all three threads read
  connection,  \* Impl::connection_valid, and whether it ever was
  halted,      \* websocket.stop() was called: run() returns when it can
  wsPc,        \* websocket thread
  message,     \* the message its handler works on: its number and kind
  received,    \* messages dispatched so far
  stored,      \* candles upserted into the MarketDataStore
  published,   \* candles published on the MarketEventBus
  queue,       \* the SPSC queue
  dropped,     \* candles try_push refused
  writerPc,    \* writer thread
  batch,       \* the writer's local batch
  written,     \* candles handed to SQLite: <<candle, batch committed>>
  stopPc,      \* the thread inside stop()
  accepted     \* history: candles try_push accepted, in order

vars == <<running, connection, halted, wsPc, message, received, stored,
          published, queue, dropped, writerPc, batch, written, stopPc, accepted>>

wsVars == <<connection, wsPc, message, received, stored, published, dropped>>
writerVars == <<writerPc, batch, written>>

\* What a websocket payload can be: an update of the open candle, the final
\* update of a candle, or something the parser or resolve_symbol refuses.
Kinds == {"update", "closed", "unknown"}
NoMessage == [id |-> 0, kind |-> "unknown"]

Init ==
  /\ running = FALSE
  /\ connection = "none" /\ halted = FALSE
  /\ wsPc = "off" /\ message = NoMessage /\ received = 0
  /\ stored = {} /\ published = {}
  /\ queue = <<>> /\ dropped = {} /\ accepted = <<>>
  /\ writerPc = "off" /\ batch = <<>> /\ written = <<>>
  /\ stopPc = "idle"

start ==
  /\ stopPc = "idle" /\ ~running /\ wsPc = "off"
  /\ running' = TRUE
  /\ writerPc' = "check" /\ wsPc' = "connect"
  /\ UNCHANGED <<connection, halted, message, received, stored, published,
                 queue, dropped, batch, written, stopPc, accepted>>

-----------------------------------------------------------------------------
(* run(), the websocket thread *)

\* connect() only schedules the connection; get_connection may throw.
WsConnect ==
  /\ wsPc = "connect"
  /\ wsPc' \in {"dispatch", "returned"}
  /\ UNCHANGED <<running, connection, halted, message, received, stored,
                 published, queue, dropped, writerVars, stopPc, accepted>>

WsOpen ==
  /\ wsPc = "dispatch" /\ ~halted /\ connection = "none"
  /\ connection' = "open"
  /\ UNCHANGED <<running, halted, wsPc, message, received, stored, published,
                 queue, dropped, writerVars, stopPc, accepted>>

\* Close and fail handlers: nothing reconnects, and start_perpetual keeps
\* run() from returning.
WsLost ==
  /\ wsPc = "dispatch" /\ ~halted /\ connection # "closed"
  /\ connection' = "closed"
  /\ UNCHANGED <<running, halted, wsPc, message, received, stored, published,
                 queue, dropped, writerVars, stopPc, accepted>>

\* Mutant: subscribers hear of a candle before it is in the store.
HandlerSkipsUpsert(kind) ==
  /\ wsPc = "dispatch" /\ ~halted /\ connection = "open"
  /\ received < MaxMessages
  /\ received' = received + 1
  /\ IF running /\ kind # "unknown"
     THEN wsPc' = "publish" /\ message' = [id |-> received', kind |-> kind]
     ELSE UNCHANGED <<wsPc, message>>
  /\ UNCHANGED <<running, connection, halted, stored, published, queue,
                 dropped, writerVars, stopPc, accepted>>

\* The message handler up to resolve_symbol: it returns at once when the
\* collector no longer runs or the payload is of no use.
HandlerBegin(kind) ==
  /\ wsPc = "dispatch" /\ ~halted /\ connection = "open"
  /\ received < MaxMessages
  /\ received' = received + 1
  /\ IF running /\ kind # "unknown"
     THEN wsPc' = "upsert" /\ message' = [id |-> received', kind |-> kind]
     ELSE UNCHANGED <<wsPc, message>>
  /\ UNCHANGED <<running, connection, halted, stored, published, queue,
                 dropped, writerVars, stopPc, accepted>>

HandlerUpsert ==
  /\ wsPc = "upsert"
  /\ stored' = stored \cup {message.id}
  /\ IF message.kind = "closed"
     THEN wsPc' = "publish" /\ UNCHANGED message
     ELSE wsPc' = "dispatch" /\ message' = NoMessage
  /\ UNCHANGED <<running, connection, halted, received, published, queue,
                 dropped, writerVars, stopPc, accepted>>

\* MarketEventBus::publish runs the subscribers on this thread.
HandlerPublish ==
  /\ wsPc = "publish"
  /\ published' = published \cup {message.id}
  /\ wsPc' = "enqueue"
  /\ UNCHANGED <<running, connection, halted, message, received, stored,
                 queue, dropped, writerVars, stopPc, accepted>>

try_enqueue ==
  /\ wsPc = "enqueue"
  /\ IF Len(queue) < QueueCapacity
     THEN /\ queue' = Append(queue, message.id)
          /\ accepted' = Append(accepted, message.id)
          /\ UNCHANGED dropped
     ELSE /\ dropped' = dropped \cup {message.id}
          /\ UNCHANGED <<queue, accepted>>
  /\ wsPc' = "dispatch" /\ message' = NoMessage
  /\ UNCHANGED <<running, connection, halted, received, stored, published,
                 writerVars, stopPc>>

\* A stopped io_service lets run() return after the current handler.
WsReturn ==
  /\ wsPc = "dispatch" /\ halted
  /\ wsPc' = "returned"
  /\ UNCHANGED <<running, connection, halted, message, received, stored,
                 published, queue, dropped, writerVars, stopPc, accepted>>

\* The end of run(), reached from websocket.run() and from the catch block.
WsExit ==
  /\ wsPc = "returned"
  /\ running' = FALSE
  /\ wsPc' = "done"
  /\ UNCHANGED <<connection, halted, message, received, stored, published,
                 queue, dropped, writerVars, stopPc, accepted>>

-----------------------------------------------------------------------------
(* writer_loop(), the writer thread *)

\* while (running || !queue.empty()): running is read first.
WriterCheckRunning ==
  /\ writerPc = "check"
  /\ writerPc' = IF running THEN "pop" ELSE "checkEmpty"
  /\ UNCHANGED <<running, halted, wsVars, queue, batch, written, stopPc, accepted>>

\* Mutant: the loop ends without looking at the queue.
WriterIgnoresQueue ==
  /\ writerPc = "checkEmpty"
  /\ writerPc' = "done"
  /\ UNCHANGED <<running, halted, wsVars, queue, batch, written, stopPc, accepted>>

WriterCheckEmpty ==
  /\ writerPc = "checkEmpty"
  /\ writerPc' = IF queue = <<>> THEN "done" ELSE "pop"
  /\ UNCHANGED <<running, halted, wsVars, queue, batch, written, stopPc, accepted>>

\* Mutant: only full batches are saved.
WriterPopFullOnly ==
  /\ writerPc = "pop"
  /\ IF Len(batch) < BatchSize /\ queue # <<>>
     THEN /\ batch' = Append(batch, Head(queue))
          /\ queue' = Tail(queue)
          /\ UNCHANGED writerPc
     ELSE /\ writerPc' = IF Len(batch) < BatchSize THEN "wait" ELSE "save"
          /\ UNCHANGED <<batch, queue>>
  /\ UNCHANGED <<running, halted, wsVars, written, stopPc, accepted>>

WriterPop ==
  /\ writerPc = "pop"
  /\ IF Len(batch) < BatchSize /\ queue # <<>>
     THEN /\ batch' = Append(batch, Head(queue))
          /\ queue' = Tail(queue)
          /\ UNCHANGED writerPc
     ELSE /\ writerPc' = IF batch = <<>> THEN "wait" ELSE "save"
          /\ UNCHANGED <<batch, queue>>
  /\ UNCHANGED <<running, halted, wsVars, written, stopPc, accepted>>

\* wait_for returns on its predicate or after 100 ms: it never blocks.
WriterWait ==
  /\ writerPc = "wait"
  /\ writerPc' = "check"
  /\ UNCHANGED <<running, halted, wsVars, queue, batch, written, stopPc, accepted>>

\* Mutant: the batch is saved back to front.
WriterSaveReversed ==
  /\ writerPc = "save"
  /\ \E committed \in BOOLEAN :
       written' = written \o [i \in DOMAIN batch |-> <<batch[Len(batch) + 1 - i], committed>>]
  /\ batch' = <<>>
  /\ writerPc' = "check"
  /\ UNCHANGED <<running, halted, wsVars, queue, stopPc, accepted>>

\* save_kline_batch is one transaction; a failed batch is logged and gone.
WriterSave ==
  /\ writerPc = "save"
  /\ \E committed \in BOOLEAN :
       written' = written \o [i \in DOMAIN batch |-> <<batch[i], committed>>]
  /\ batch' = <<>>
  /\ writerPc' = "check"
  /\ UNCHANGED <<running, halted, wsVars, queue, stopPc, accepted>>

-----------------------------------------------------------------------------
(* stop(), on the coordinator's thread *)

StopBegin ==
  /\ stopPc = "idle" /\ wsPc # "off"
  /\ running' = FALSE
  /\ stopPc' = "halt"
  /\ UNCHANGED <<halted, wsVars, queue, writerVars, accepted>>


\* close() asks for a closing handshake, stop() ends the event loop.
StopHalt ==
  /\ stopPc = "halt"
  /\ halted' = TRUE
  /\ stopPc' = "joinWs"
  /\ UNCHANGED <<running, wsVars, queue, writerVars, accepted>>

StopJoinWs ==
  /\ stopPc = "joinWs" /\ wsPc = "done"
  /\ stopPc' = "joinWriter"
  /\ UNCHANGED <<running, halted, wsVars, queue, writerVars, accepted>>

StopJoinWriter ==
  /\ stopPc = "joinWriter" /\ writerPc = "done"
  /\ stopPc' = "done"
  /\ UNCHANGED <<running, halted, wsVars, queue, writerVars, accepted>>

-----------------------------------------------------------------------------
Handler == HandlerUpsert \/ HandlerPublish \/ try_enqueue
WsThread == WsConnect \/ Handler \/ WsReturn \/ WsExit
WriterThread ==
  WriterCheckRunning \/ WriterCheckEmpty \/ WriterPop \/ WriterWait \/ WriterSave
Stop == StopHalt \/ StopJoinWs \/ StopJoinWriter

\* Both threads ended and stop(), if it was called, returned.
Terminated ==
  /\ wsPc = "done" /\ writerPc = "done" /\ stopPc \in {"idle", "done"}
  /\ UNCHANGED vars

Next ==
  \/ start \/ StopBegin \/ Stop
  \/ WsThread \/ WsOpen \/ WsLost \/ \E kind \in Kinds : HandlerBegin(kind)
  \/ WriterThread
  \/ Terminated

\* The operating system runs every thread; messages, connection loss and the
\* call of stop() are up to the world.
Spec ==
  /\ Init /\ [][Next]_vars
  /\ WF_vars(WsThread) /\ WF_vars(WriterThread) /\ WF_vars(Stop)

-----------------------------------------------------------------------------
(* Properties *)

Messages == 1 .. MaxMessages

TypeOK ==
  /\ running \in BOOLEAN /\ halted \in BOOLEAN
  /\ connection \in {"none", "open", "closed"}
  /\ wsPc \in {"off", "connect", "dispatch", "upsert", "publish", "enqueue",
               "returned", "done"}
  /\ message \in [id : 0 .. MaxMessages, kind : Kinds]
  /\ received \in 0 .. MaxMessages
  /\ stored \subseteq Messages /\ published \subseteq Messages
  /\ dropped \subseteq Messages
  /\ queue \in Seq(Messages) /\ Len(queue) <= QueueCapacity
  /\ accepted \in Seq(Messages)
  /\ batch \in Seq(Messages) /\ Len(batch) <= BatchSize
  /\ written \in Seq(Messages \X BOOLEAN)
  /\ writerPc \in {"off", "check", "checkEmpty", "pop", "wait", "save", "done"}
  /\ stopPc \in {"idle", "halt", "joinWs", "joinWriter", "done"}

\* The candles handed to SQLite so far, in order.
Handed == [i \in DOMAIN written |-> written[i][1]]

\* Every candle the queue accepted is in exactly one place, in arrival order:
\* handed to SQLite once, in the writer's batch, or still queued.
NoneLostOrReordered == Handed \o batch \o queue = accepted

\* A closed candle that the scanner was told of was in the store before, and
\* is either accepted by the queue or counted as dropped once its handler ends.
PublishedIsAccounted ==
  /\ published \subseteq stored
  /\ wsPc # "enqueue" =>
       published = dropped \cup {accepted[i] : i \in DOMAIN accepted}

\* stop() leaves behind at most the one candle whose handler had passed the
\* running check before the flag was cleared.
AtMostOneStranded ==
  writerPc = "done" => batch = <<>> /\ Len(queue) <= 1

\* stop() returns: neither join waits for ever.
StopReturns == stopPc = "halt" ~> stopPc = "done"

\* While the writer lives, what the queue accepted is handed to SQLite.
AcceptedIsWritten ==
  \A k \in Messages :
    Len(accepted) >= k ~> (Len(written) >= k \/ writerPc = "done")
=============================================================================
