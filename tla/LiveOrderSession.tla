-------------------------- MODULE LiveOrderSession --------------------------
(***************************************************************************)
(* trader/order/LiveOrderSession.hpp: owns the OrderManager, the user-data *)
(* stream and the supervisor thread that keeps the listen key alive.       *)
(* The owner thread calls start, resume_after_reconcile and stop; any      *)
(* other thread may call kill (the runtime does when an order event cannot *)
(* be persisted) and submit.  BinanceUserDataStream is the stream variable.*)
(***************************************************************************)
EXTENDS OrderManager

CONSTANT MaxDisturbances  \* bound: calls of kill() and resume_after_reconcile()
                          \* and failed listen-key keepalives, altogether

SessionThreads == {"owner", "supervisor", "killer"}
ASSUME SessionAssumption == SessionThreads \subseteq Threads

VARIABLES
  started, ready,     \* started_, ready_
  supervisorRunning,  \* supervisor_running_
  stream,             \* stream_: none, or the state of its connection
  streamLock,         \* holder of stream_mutex_
  task,               \* which operation each thread executes
  pc,                 \* and where it is in it
  budget              \* disturbances left

sessionVars == <<started, ready, supervisorRunning, stream, streamLock, task, pc, budget>>
vars == <<managerVars, sessionVars>>

isReady == ready /\ ~kill

SessionInit ==
  /\ ManagerInit
  /\ started = FALSE /\ ready = FALSE /\ supervisorRunning = FALSE
  /\ stream = "none" /\ streamLock = "free"
  /\ task = [t \in SessionThreads |-> "none"]
  /\ pc = [t \in SessionThreads |-> IF t = "supervisor" THEN "off" ELSE "idle"]
  /\ budget = MaxDisturbances

Goto(t, label) == pc' = [pc EXCEPT ![t] = label]
Return(t) == Goto(t, "idle") /\ task' = [task EXCEPT ![t] = "none"]

-----------------------------------------------------------------------------
(* Operations of the owner and of the killer, up to their first call *)

start ==
  /\ pc["owner"] = "idle" /\ ~started
  /\ started' = TRUE
  /\ task' = [task EXCEPT !["owner"] = "start"]
  /\ Goto("owner", "recover")
  /\ UNCHANGED <<managerVars, ready, supervisorRunning, stream, streamLock, budget>>

stop ==
  /\ pc["owner"] = "idle" /\ started
  /\ started' = FALSE
  /\ task' = [task EXCEPT !["owner"] = "stop"]
  /\ Goto("owner", "kill")
  /\ UNCHANGED <<managerVars, ready, supervisorRunning, stream, streamLock, budget>>

resume_after_reconcile ==
  /\ pc["owner"] = "idle" /\ started /\ budget > 0
  /\ budget' = budget - 1
  /\ task' = [task EXCEPT !["owner"] = "resume"]
  /\ Goto("owner", "firstFetch")
  /\ UNCHANGED <<managerVars, started, ready, supervisorRunning, stream, streamLock>>

killCall ==
  /\ pc["killer"] = "idle" /\ budget > 0
  /\ budget' = budget - 1
  /\ task' = [task EXCEPT !["killer"] = "kill"]
  /\ Goto("killer", "kill")
  /\ UNCHANGED <<managerVars, started, ready, supervisorRunning, stream, streamLock>>

-----------------------------------------------------------------------------
(* activate_kill_switch, called by stop, kill and the supervisor *)

KillBegin(t) ==
  /\ pc[t] = "kill"
  /\ KillSet(t)
  /\ Goto(t, "killing")
  /\ UNCHANGED <<started, ready, supervisorRunning, stream, streamLock, task, budget>>

\* Mutant: stop() does not wait for the supervisor.
StopSkipsJoin(t) ==
  /\ pc[t] = "killing" /\ job[t].pc = "idle"
  /\ \/ /\ task[t] = "kill"
        /\ ready' = FALSE /\ Return(t) /\ UNCHANGED supervisorRunning
     \/ /\ task[t] = "stop"
        /\ ready' = FALSE /\ supervisorRunning' = FALSE /\ Goto(t, "close") /\ UNCHANGED task
     \/ /\ task[t] = "supervise"
        /\ Goto(t, "recover") /\ UNCHANGED <<ready, supervisorRunning, task>>
  /\ UNCHANGED <<managerVars, started, stream, streamLock, budget>>

\* Mutant: stop() does not tell the supervisor to leave.
StopKeepsSupervisor(t) ==
  /\ pc[t] = "killing" /\ job[t].pc = "idle"
  /\ ready' = IF task[t] = "supervise" THEN ready ELSE FALSE
  /\ Goto(t, IF task[t] = "kill" THEN "idle"
             ELSE IF task[t] = "stop" THEN "join" ELSE "recover")
  /\ UNCHANGED <<managerVars, started, supervisorRunning, stream, streamLock, task, budget>>

\* What each caller does once it returns.
KillReturn(t) ==
  /\ pc[t] = "killing" /\ job[t].pc = "idle"
  /\ \/ /\ task[t] = "kill"
        /\ ready' = FALSE /\ Return(t) /\ UNCHANGED supervisorRunning
     \/ /\ task[t] = "stop"
        /\ ready' = FALSE /\ supervisorRunning' = FALSE /\ Goto(t, "join") /\ UNCHANGED task
     \/ /\ task[t] = "supervise"
        /\ Goto(t, "recover") /\ UNCHANGED <<ready, supervisorRunning, task>>
  /\ UNCHANGED <<managerVars, started, stream, streamLock, budget>>

-----------------------------------------------------------------------------
(* recover_stream, called by start, resume and the supervisor *)

RecoverBegin(t) ==
  /\ pc[t] = "recover"
  /\ ready' = FALSE
  /\ Goto(t, "fetch")
  /\ UNCHANGED <<managerVars, started, supervisorRunning, stream, streamLock, task, budget>>

\* Mutant: a failed open-orders request is ignored.
FetchIgnoresFailure(t) ==
  /\ pc[t] \in {"firstFetch", "fetch"}
  /\ \/ ReconcileFetch(t) /\ Goto(t, IF pc[t] = "fetch" THEN "apply" ELSE "firstApply")
     \/ UNCHANGED managerVars /\ Goto(t, IF pc[t] = "fetch" THEN "replace" ELSE "recover")
  /\ UNCHANGED <<started, ready, supervisorRunning, stream, streamLock, task, budget>>

\* The open-orders request of reconcile_startup answers or throws.
Fetch(t) ==
  /\ pc[t] \in {"firstFetch", "fetch"}
  /\ \/ ReconcileFetch(t) /\ Goto(t, IF pc[t] = "fetch" THEN "apply" ELSE "firstApply")
     \/ UNCHANGED managerVars /\ Goto(t, "throws")
  /\ UNCHANGED <<started, ready, supervisorRunning, stream, streamLock, task, budget>>

Apply(t) ==
  /\ pc[t] \in {"firstApply", "apply"}
  /\ ReconcileApply(t)
  /\ Goto(t, IF pc[t] = "apply" THEN "replace" ELSE "recover")
  /\ UNCHANGED <<started, ready, supervisorRunning, stream, streamLock, task, budget>>

\* Under stream_mutex_ the old stream is stopped and joined; what it had not
\* delivered is gone.
StopStream(t) ==
  /\ pc[t] = "replace" /\ streamLock = "free"
  /\ streamLock' = t
  /\ stream' = "none" /\ ReportsLost
  /\ Goto(t, "listen")
  /\ UNCHANGED <<started, ready, supervisorRunning, task, budget>>

\* create_listen_key may throw; otherwise a new stream starts connecting.
OpenStream(t) ==
  /\ pc[t] = "listen"
  /\ \/ stream' = "connecting" /\ Goto(t, "load") /\ UNCHANGED streamLock
     \/ streamLock' = "free" /\ Goto(t, "throws") /\ UNCHANGED stream
  /\ UNCHANGED <<managerVars, started, ready, supervisorRunning, task, budget>>

\* ready_.store(!kill_switch_active()) loads the switch ...
LoadKill(t) ==
  /\ pc[t] = "load"
  /\ Goto(t, IF kill THEN "storeFalse" ELSE "storeTrue")
  /\ UNCHANGED <<managerVars, started, ready, supervisorRunning, stream, streamLock, task, budget>>

\* ... and stores what it loaded, which stop, kill or a resume may have made
\* stale; then the stream's mutex is released.
StoreReady(t) ==
  /\ pc[t] \in {"storeFalse", "storeTrue"}
  /\ ready' = (pc[t] = "storeTrue")
  /\ streamLock' = "free"
  /\ Goto(t, "recovered")
  /\ UNCHANGED <<managerVars, started, supervisorRunning, stream, task, budget>>

\* After recover_stream returned: start() creates the supervisor.
Recovered(t) ==
  /\ pc[t] = "recovered"
  /\ \/ /\ task[t] = "start"
        /\ supervisorRunning' = TRUE
        /\ pc' = [pc EXCEPT ![t] = "idle", !["supervisor"] = "sleep"]
        /\ task' = [task EXCEPT ![t] = "none", !["supervisor"] = "supervise"]
     \/ /\ task[t] = "resume" /\ Goto(t, "clear") /\ UNCHANGED <<supervisorRunning, task>>
     \/ /\ task[t] = "supervise" /\ Goto(t, "sleep") /\ UNCHANGED <<supervisorRunning, task>>
  /\ UNCHANGED <<managerVars, started, ready, stream, streamLock, budget>>

\* After it threw: start passes the exception on, resume returns false, the
\* supervisor swallows it.
Thrown(t) ==
  /\ pc[t] = "throws"
  /\ ready' = IF task[t] = "resume" THEN FALSE ELSE ready
  /\ IF task[t] = "supervise" THEN Goto(t, "sleep") /\ UNCHANGED task ELSE Return(t)
  /\ UNCHANGED <<managerVars, started, supervisorRunning, stream, streamLock, budget>>

\* The end of resume_after_reconcile.
ResumeClear ==
  /\ pc["owner"] = "clear"
  /\ \/ ClearKillSwitch("owner") /\ Goto("owner", "resumed")
     \/ /\ ~reconciled \/ \E i \in Ids : Unresolved(i)
        /\ UNCHANGED managerVars /\ Goto("owner", "throws")
  /\ UNCHANGED <<started, ready, supervisorRunning, stream, streamLock, task, budget>>

ResumeReady ==
  /\ pc["owner"] = "resumed"
  /\ ready' = TRUE
  /\ Return("owner")
  /\ UNCHANGED <<managerVars, started, supervisorRunning, stream, streamLock, budget>>

-----------------------------------------------------------------------------
(* The rest of stop *)

StopJoin ==
  /\ pc["owner"] = "join" /\ pc["supervisor"] \in {"off", "exited"}
  /\ Goto("owner", "close")
  /\ UNCHANGED <<managerVars, started, ready, supervisorRunning, stream, streamLock, task, budget>>

StopClose ==
  /\ pc["owner"] = "close" /\ streamLock = "free"
  /\ stream' = "none" /\ ReportsLost
  /\ Goto("owner", "stopped")
  /\ UNCHANGED <<started, ready, supervisorRunning, streamLock, task, budget>>

-----------------------------------------------------------------------------
(* supervisor_loop *)

\* Every five seconds the supervisor looks whether it is told to leave.
SupervisorWake ==
  /\ pc["supervisor"] = "sleep" /\ ~supervisorRunning
  /\ Goto("supervisor", "exited")
  /\ UNCHANGED <<managerVars, started, ready, supervisorRunning, stream, streamLock, task, budget>>

\* A keepalive is due.  One that is answered changes nothing, so only those
\* that will fail are steps.
KeepaliveDue ==
  /\ pc["supervisor"] = "sleep" /\ supervisorRunning /\ budget > 0
  /\ budget' = budget - 1
  /\ Goto("supervisor", "keepalive")
  /\ UNCHANGED <<managerVars, started, ready, supervisorRunning, stream, streamLock, task>>

KeepaliveFails ==
  /\ pc["supervisor"] = "keepalive" /\ streamLock = "free"
  /\ ready' = FALSE
  /\ Goto("supervisor", "kill")
  /\ UNCHANGED <<managerVars, started, supervisorRunning, stream, streamLock, task, budget>>

-----------------------------------------------------------------------------
(* BinanceUserDataStream *)

StreamConnects ==
  /\ stream = "connecting"
  /\ stream' = "up"
  /\ UNCHANGED <<managerVars, started, ready, supervisorRunning, streamLock, task, pc, budget>>

\* Close and fail handlers only clear the connected flag.
StreamInterrupted ==
  /\ stream \in {"connecting", "up"}
  /\ stream' = "lost" /\ ReportsLost
  /\ UNCHANGED <<started, ready, supervisorRunning, streamLock, task, pc, budget>>

\* The exchange reports to a connected stream and to no other.
Reported ==
  IF stream = "up" /\ exchange' # exchange THEN reports' # reports
  ELSE reports' = reports

-----------------------------------------------------------------------------
submit(i) == started /\ isReady /\ SubmitAdmit(i) /\ UNCHANGED sessionVars

ManagerStep ==
  /\ \/ \E i \in Ids : SubmitStep(i)
     \/ \E t \in SessionThreads : pc[t] = "killing" /\ JobStep(t)
     \/ ExchangeStep
  /\ Reported
  /\ UNCHANGED sessionVars

StreamDelivers == stream = "up" /\ on_user_data_event /\ UNCHANGED sessionVars

ThreadStep(t) ==
  \/ KillBegin(t) \/ KillReturn(t)
  \/ RecoverBegin(t) \/ Fetch(t) \/ Apply(t) \/ StopStream(t) \/ OpenStream(t)
  \/ LoadKill(t) \/ StoreReady(t) \/ Recovered(t) \/ Thrown(t)

OwnerStep ==
  ThreadStep("owner") \/ ResumeClear \/ ResumeReady \/ StopJoin \/ StopClose

SupervisorStep ==
  ThreadStep("supervisor") \/ SupervisorWake \/ KeepaliveFails

SessionNext ==
  \/ start \/ stop \/ resume_after_reconcile \/ killCall \/ KeepaliveDue
  \/ OwnerStep \/ SupervisorStep \/ ThreadStep("killer")
  \/ (\E i \in Ids : submit(i)) \/ ManagerStep
  \/ StreamConnects \/ StreamInterrupted \/ StreamDelivers

\* Every thread runs and every REST call ends (15 s curl timeout); what the
\* exchange, the network and the operator do is not forced.
InManager(t) == pc[t] = "killing" /\ JobStep(t) /\ Reported /\ UNCHANGED sessionVars

SessionFairness ==
  /\ WF_vars(OwnerStep) /\ WF_vars(SupervisorStep) /\ WF_vars(ThreadStep("killer"))
  /\ \A t \in SessionThreads : WF_vars(InManager(t))

SessionSafetySpec == SessionInit /\ [][SessionNext]_vars
SessionSpec == SessionSafetySpec /\ SessionFairness

-----------------------------------------------------------------------------
(* Properties *)

Pcs == {"off", "idle", "kill", "killing", "recover", "firstFetch", "firstApply", "fetch",
        "apply", "replace", "listen", "load", "storeFalse", "storeTrue", "recovered", "throws", "clear", "resumed",
        "join", "close", "stopped", "sleep", "keepalive", "exited"}

\* The labels of recover_stream from taking stream_mutex_ to releasing it.
Replacing == {"listen", "load", "storeFalse", "storeTrue"}

\* Types; stream_mutex_ is held exactly while its holder replaces the stream.
SessionTypeOK ==
  /\ started \in BOOLEAN /\ ready \in BOOLEAN /\ supervisorRunning \in BOOLEAN
  /\ stream \in {"none", "connecting", "up", "lost"}
  /\ streamLock \in SessionThreads \cup {"free"}
  /\ \A t \in SessionThreads : streamLock = t <=> pc[t] \in Replacing
  /\ task \in [SessionThreads -> {"none", "start", "stop", "resume", "kill", "supervise"}]
  /\ pc \in [SessionThreads -> Pcs]
  /\ budget \in 0 .. MaxDisturbances

\* Submissions are enabled only after a reconciliation, whichever of start,
\* resume and the supervisor's recovery enabled them and in whatever order
\* their steps interleave.
ReadyIsReconciled == ready => reconciled

\* Once stop() returned the session is quiet for good: it is not started and
\* the switch is latched, so nothing is submitted even if a recovery that
\* loaded the switch before stop() stored ready_ after it; and neither stream
\* nor supervisor came back to life, in whatever step of a recovery stop() met
\* the supervisor.
StoppedIsQuiet ==
  pc["owner"] = "stopped" =>
    /\ kill /\ ~started
    /\ stream = "none" /\ pc["supervisor"] \in {"off", "exited"}

\* kill() is not forgotten: the switch goes off only inside a resume that the
\* owner called, and never while an order known locally is unresolved.
KillIsLatched ==
  [][kill /\ ~kill' => pc["owner"] = "clear" /\ \A i \in Ids : ~Unresolved(i)]_vars

\* stop() returns: the joins and the mutexes never wait for each other.
StopReturns == (task["owner"] = "stop") ~> (pc["owner"] = "stopped")

\* docs/ACCOUNT_RECONCILIATION.md:25: "Ambiguous or unresolved order state is not
\* guessed locally" and "User Data Stream interruption or keepalive failure
\* disables new submissions."  An order the exchange accepted is not taken for
\* Rejected, or at least submissions end when the stream that would tell is lost.
Guessed(i) == Known(i) /\ orders[i].state = "Rejected" /\ exchange[i].status # "none"
FailsClosed ==
  (stream = "lost" /\ \E i \in Ids : Guessed(i)) ~> (~isReady \/ stream = "up")
=============================================================================
