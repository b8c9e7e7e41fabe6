----------------------------- MODULE DaemonCore -----------------------------
(***************************************************************************)
(* The life of a connection through the daemon: the accept thread and the  *)
(* start/stop sequence of sdfxd/src/daemon_core.c and main.c, the thread   *)
(* pool of thread_pool.c with its queue, two mutexes and one condition     *)
(* variable, and the request loop that occupies a worker for as long as    *)
(* its client stays connected.                                             *)
(*                                                                         *)
(* A task is a connection.  What one request does inside the daemon is the *)
(* subject of the other modules; here it is one step.                      *)
(***************************************************************************)
EXTENDS Naturals, Sequences, FiniteSets

CONSTANTS
  Worker,        \* threads of the pool
  Conn,          \* TCP connections clients may open
  NoOne,         \* no thread holds the mutex / no connection
  Acceptor,      \* the accept thread, as an owner of a mutex
  MaxRequests    \* bound: requests a client sends on one connection

ASSUME CoreAssumption ==
  /\ IsFiniteSet(Worker) /\ Worker # {}
  /\ Acceptor \notin Worker
  /\ NoOne \notin Worker \cup Conn \cup {Acceptor}
  /\ MaxRequests \in Nat

VARIABLES
  running,       \* ctx->running
  shutdown,      \* pool->shutdown
  queue,         \* the task queue, head first (count is its length)
  queue_mutex,   \* who holds task_queue.mutex
  pool_mutex,    \* who holds pool_mutex
  wpc, task,     \* where each worker is; the connection it serves
  apc, client,   \* where the accept thread is; the connection in its hands
  mpc,           \* where the main thread is in its stop sequence
  conn,          \* "none", "backlog", "open" or "closed" on the daemon's side
  sent, handled, \* requests sent and handled, per connection
  gone           \* clients that closed their end

pool == <<shutdown, queue, queue_mutex, pool_mutex>>
net == <<conn, sent, handled, gone>>
vars == <<running, pool, wpc, task, apc, client, mpc, net>>

(***************************************************************************)
(* Workers: "lock" wants the queue mutex; "check" holds it and tests the   *)
(* wait condition; "sleep" found nothing to do and still holds it;         *)
(* "waiting" is inside pthread_cond_wait; "woken" wants the mutex back;    *)
(* "serve" is at the head of the request loop; "recv" is blocked in it;    *)
(* "close" has left it; "exited" has returned.                             *)
(***************************************************************************)
WPC == {"lock", "check", "sleep", "waiting", "woken",
        "serve", "recv", "close", "exited"}
APC == {"loop", "accept", "submit", "push", "exited"}
MPC == {"joinAccept", "sessions", "flag", "broadcast", "join", "done"}

TypeOK ==
  /\ running \in BOOLEAN
  /\ shutdown \in BOOLEAN
  /\ queue \in Seq(Conn)
  /\ queue_mutex \in Worker \cup {NoOne}
  /\ pool_mutex \in {Acceptor, NoOne}
  /\ wpc \in [Worker -> WPC]
  /\ task \in [Worker -> Conn \cup {NoOne}]
  /\ apc \in APC
  /\ client \in Conn \cup {NoOne}
  /\ mpc \in MPC
  /\ conn \in [Conn -> {"none", "backlog", "open", "closed"}]
  /\ sent \in [Conn -> 0 .. MaxRequests]
  /\ handled \in [Conn -> 0 .. MaxRequests]
  /\ gone \in SUBSET Conn

Init ==
  /\ running = TRUE
  /\ shutdown = FALSE
  /\ queue = <<>>
  /\ queue_mutex = NoOne
  /\ pool_mutex = NoOne
  /\ wpc = [w \in Worker |-> "lock"]
  /\ task = [w \in Worker |-> NoOne]
  /\ apc = "loop"
  /\ client = NoOne
  /\ mpc = "joinAccept"
  /\ conn = [c \in Conn |-> "none"]
  /\ sent = [c \in Conn |-> 0]
  /\ handled = [c \in Conn |-> 0]
  /\ gone = {}

-----------------------------------------------------------------------------
(* The clients *)

Connect(c) ==
  /\ conn[c] = "none"
  /\ conn' = [conn EXCEPT ![c] = "backlog"]
  /\ UNCHANGED <<running, pool, wpc, task, apc, client, mpc, sent, handled, gone>>

Send(c) ==
  /\ conn[c] \in {"backlog", "open"}
  /\ c \notin gone
  /\ sent[c] < MaxRequests
  /\ sent' = [sent EXCEPT ![c] = @ + 1]
  /\ UNCHANGED <<running, pool, wpc, task, apc, client, mpc, conn, handled, gone>>

Disconnect(c) ==
  /\ conn[c] \in {"backlog", "open"}
  /\ c \notin gone
  /\ gone' = gone \cup {c}
  /\ UNCHANGED <<running, pool, wpc, task, apc, client, mpc, conn, sent, handled>>

-----------------------------------------------------------------------------
(* The accept thread *)

AcceptLoop ==
  /\ apc = "loop"
  /\ apc' = IF running THEN "accept" ELSE "exited"
  /\ UNCHANGED <<running, pool, wpc, task, client, mpc, net>>

\* accept() blocks until a connection is there; a failed accept() goes round.
Accept ==
  /\ apc = "accept"
  /\ \E c \in Conn :
       /\ conn[c] = "backlog"
       /\ conn' = [conn EXCEPT ![c] = "open"]
       /\ client' = c
  /\ apc' = "submit"
  /\ UNCHANGED <<running, pool, wpc, task, mpc, sent, handled, gone>>

AcceptFails ==
  /\ apc = "accept"
  /\ apc' = "loop"
  /\ UNCHANGED <<running, pool, wpc, task, client, mpc, net>>

GiveUpClient_KeepsFd ==
  /\ client' = NoOne
  /\ apc' = "loop"
  /\ UNCHANGED net

\* transport_close_client on a connection that could not be handed over.
GiveUpClient ==
  /\ conn' = [conn EXCEPT ![client] = "closed"]
  /\ client' = NoOne
  /\ apc' = "loop"
  /\ UNCHANGED <<sent, handled, gone>>

\* No memory for the task argument.
NoTaskMemory ==
  /\ apc = "submit"
  /\ GiveUpClient
  /\ UNCHANGED <<running, pool, wpc, task, mpc>>

\* thread_pool_submit up to the shutdown test.
Submit ==
  /\ apc = "submit"
  /\ pool_mutex = NoOne
  /\ \/ /\ shutdown
        /\ GiveUpClient
        /\ UNCHANGED pool_mutex
     \/ /\ ~ shutdown
        /\ pool_mutex' = Acceptor
        /\ apc' = "push"
        /\ UNCHANGED <<client, net>>
  /\ UNCHANGED <<running, shutdown, queue, queue_mutex, wpc, task, mpc>>

Signal_Lost == UNCHANGED wpc

\* pthread_cond_signal wakes one of the waiting workers, if there is one.
Signal ==
  LET waiting == {w \in Worker : wpc[w] = "waiting"} IN
  \/ waiting = {} /\ UNCHANGED wpc
  \/ \E w \in waiting : wpc' = [wpc EXCEPT ![w] = "woken"]

\* task_queue_push inside thread_pool_submit, pool_mutex held.
Push ==
  /\ apc = "push"
  /\ \/ /\ queue_mutex = NoOne
        /\ queue' = Append(queue, client)
        /\ Signal
        /\ client' = NoOne
        /\ apc' = "loop"
        /\ UNCHANGED net
     \/ /\ GiveUpClient                       \* no memory for the node
        /\ UNCHANGED <<queue, wpc>>
  /\ pool_mutex' = NoOne
  /\ UNCHANGED <<running, shutdown, queue_mutex, task, mpc>>

-----------------------------------------------------------------------------
(* The workers *)

\* pthread_mutex_lock at the head of the loop, or on the way out of a wait.
TakeMutex(w) ==
  /\ wpc[w] \in {"lock", "woken"}
  /\ queue_mutex = NoOne
  /\ queue_mutex' = w
  /\ wpc' = [wpc EXCEPT ![w] = "check"]
  /\ UNCHANGED <<running, shutdown, queue, pool_mutex, task, apc, client, mpc, net>>

Check_Newest(w) ==
  /\ wpc[w] = "check"
  /\ IF shutdown \/ queue = <<>>
     THEN /\ wpc' = [wpc EXCEPT ![w] = IF shutdown THEN "exited" ELSE "sleep"]
          /\ queue_mutex' = IF shutdown THEN NoOne ELSE queue_mutex
          /\ UNCHANGED <<queue, task>>
     ELSE /\ task' = [task EXCEPT ![w] = queue[Len(queue)]]
          /\ queue' = SubSeq(queue, 1, Len(queue) - 1)
          /\ queue_mutex' = NoOne
          /\ wpc' = [wpc EXCEPT ![w] = "serve"]
  /\ UNCHANGED <<running, shutdown, pool_mutex, apc, client, mpc, net>>

\* With the mutex held: leave on shutdown, sleep on an empty queue, otherwise
\* take the task at the head.
Check(w) ==
  /\ wpc[w] = "check"
  /\ CASE shutdown ->
            /\ wpc' = [wpc EXCEPT ![w] = "exited"]
            /\ queue_mutex' = NoOne
            /\ UNCHANGED <<queue, task>>
       [] ~ shutdown /\ queue = <<>> ->
            /\ wpc' = [wpc EXCEPT ![w] = "sleep"]
            /\ UNCHANGED <<queue, queue_mutex, task>>
       [] OTHER ->
            /\ task' = [task EXCEPT ![w] = Head(queue)]
            /\ queue' = Tail(queue)
            /\ queue_mutex' = NoOne
            /\ wpc' = [wpc EXCEPT ![w] = "serve"]
  /\ UNCHANGED <<running, shutdown, pool_mutex, apc, client, mpc, net>>

\* pthread_cond_wait: release the mutex and start waiting, in one step.
Sleep(w) ==
  /\ wpc[w] = "sleep"
  /\ wpc' = [wpc EXCEPT ![w] = "waiting"]
  /\ queue_mutex' = NoOne
  /\ UNCHANGED <<running, shutdown, queue, pool_mutex, task, apc, client, mpc, net>>

\* POSIX lets pthread_cond_wait return without a signal.
SpuriousWakeup(w) ==
  /\ wpc[w] = "waiting"
  /\ wpc' = [wpc EXCEPT ![w] = "woken"]
  /\ UNCHANGED <<running, pool, task, apc, client, mpc, net>>

\* client_handler_task: while (ctx->running).
ServeLoop(w) ==
  /\ wpc[w] = "serve"
  /\ wpc' = [wpc EXCEPT ![w] = IF running THEN "recv" ELSE "close"]
  /\ UNCHANGED <<running, pool, task, apc, client, mpc, net>>

HandleRequest_ReadsNothing(w) ==
  /\ wpc[w] = "recv"
  /\ handled' = [handled EXCEPT ![task[w]] = @ + 1]
  /\ wpc' = [wpc EXCEPT ![w] = "serve"]
  /\ UNCHANGED <<running, pool, task, apc, client, mpc, conn, sent, gone>>

\* A complete request is received, processed and answered.
HandleRequest(w) ==
  /\ wpc[w] = "recv"
  /\ handled[task[w]] < sent[task[w]]
  /\ handled' = [handled EXCEPT ![task[w]] = @ + 1]
  /\ wpc' = [wpc EXCEPT ![w] = "serve"]
  /\ UNCHANGED <<running, pool, task, apc, client, mpc, conn, sent, gone>>

RecvEnds_Retries(w) ==
  /\ wpc[w] = "recv"
  /\ task[w] \in gone \/ handled[task[w]] < sent[task[w]]
  /\ wpc' = [wpc EXCEPT ![w] = "serve"]
  /\ UNCHANGED <<running, pool, task, apc, client, mpc, net>>

\* transport_recv_message ends the loop: the peer closed or the connection
\* failed, or what came is no message (bad magic, too long, cut short).
RecvEnds(w) ==
  /\ wpc[w] = "recv"
  /\ task[w] \in gone \/ handled[task[w]] < sent[task[w]]
  /\ wpc' = [wpc EXCEPT ![w] = "close"]
  /\ UNCHANGED <<running, pool, task, apc, client, mpc, net>>

\* The end of client_handler_task; the worker goes back to the queue.
CloseClient(w) ==
  /\ wpc[w] = "close"
  /\ conn' = [conn EXCEPT ![task[w]] = "closed"]
  /\ task' = [task EXCEPT ![w] = NoOne]
  /\ wpc' = [wpc EXCEPT ![w] = "lock"]
  /\ UNCHANGED <<running, pool, apc, client, mpc, sent, handled, gone>>

-----------------------------------------------------------------------------
(* Stopping *)

\* SIGTERM or SIGINT: signal_handler only clears the flag.
StopSignal ==
  /\ running
  /\ running' = FALSE
  /\ UNCHANGED <<pool, wpc, task, apc, client, mpc, net>>

JoinAccept_NoJoin ==
  /\ mpc = "joinAccept"
  /\ ~ running
  /\ mpc' = "sessions"
  /\ UNCHANGED <<running, pool, wpc, task, apc, client, net>>

\* daemon_core_run joins the accept thread, then daemon_core_cleanup begins.
JoinAccept ==
  /\ mpc = "joinAccept"
  /\ apc = "exited"
  /\ running' = FALSE
  /\ mpc' = "sessions"
  /\ UNCHANGED <<pool, wpc, task, apc, client, net>>

\* protocol_handler_cleanup, session_manager_cleanup, crypto_engine_cleanup.
CleanupSessions ==
  /\ mpc = "sessions"
  /\ mpc' = "flag"
  /\ UNCHANGED <<running, pool, wpc, task, apc, client, net>>

\* thread_pool_destroy: the flag is set under pool_mutex only.
SetShutdown ==
  /\ mpc = "flag"
  /\ pool_mutex = NoOne
  /\ shutdown' = TRUE
  /\ mpc' = "broadcast"
  /\ UNCHANGED <<running, queue, queue_mutex, pool_mutex, wpc, task, apc, client, net>>

\* pthread_cond_broadcast, without the queue mutex.
Broadcast ==
  /\ mpc = "broadcast"
  /\ wpc' = [w \in Worker |-> IF wpc[w] = "waiting" THEN "woken" ELSE wpc[w]]
  /\ mpc' = "join"
  /\ UNCHANGED <<running, pool, task, apc, client, net>>

\* All workers joined; task_queue_cleanup frees what is still queued, and the
\* process ends.
FinishDestroy ==
  /\ mpc = "join"
  /\ \A w \in Worker : wpc[w] = "exited"
  /\ queue' = <<>>
  /\ mpc' = "done"
  /\ UNCHANGED <<running, shutdown, queue_mutex, pool_mutex, wpc, task, apc,
                 client, net>>

-----------------------------------------------------------------------------
WorkerStep(w) ==
  \/ TakeMutex(w) \/ Check(w) \/ Sleep(w)
  \/ ServeLoop(w) \/ HandleRequest(w) \/ RecvEnds(w) \/ CloseClient(w)

AcceptStep ==
  AcceptLoop \/ Accept \/ AcceptFails \/ NoTaskMemory \/ Submit \/ Push

MainStep ==
  JoinAccept \/ CleanupSessions \/ SetShutdown \/ Broadcast \/ FinishDestroy

Next ==
  \/ \E c \in Conn : Connect(c) \/ Send(c) \/ Disconnect(c)
  \/ AcceptStep \/ MainStep \/ StopSignal
  \/ \E w \in Worker : WorkerStep(w) \/ SpuriousWakeup(w)

(***************************************************************************)
(* Threads that can run do run, and a thread that keeps finding a mutex    *)
(* free gets it.  Clients owe nothing: they may stay connected and silent  *)
(* for ever.                                                               *)
(***************************************************************************)
Fairness ==
  /\ \A w \in Worker : WF_vars(WorkerStep(w)) /\ SF_vars(TakeMutex(w))
  /\ WF_vars(AcceptLoop) /\ WF_vars(Submit) /\ SF_vars(Push)
  /\ WF_vars(MainStep)

Spec == Init /\ [][Next]_vars /\ Fairness

-----------------------------------------------------------------------------
(* Properties *)

\* Workers on their way to look at the queue.
Awake == {w \in Worker : wpc[w] \in {"lock", "check", "woken"}}

\* No worker sleeps while work is left over: for every queued connection that
\* a sleeping worker could take, another worker is already on its way.  One
\* pthread_cond_signal per push is enough only because of this.
SleepersNotNeeded ==
  (~ shutdown /\ \E w \in Worker : wpc[w] = "waiting") => Cardinality(Awake) >= Len(queue)

\* Everybody who may close or serve a connection.
Owners(c) ==
  {<<"worker", w>> : w \in {v \in Worker : task[v] = c}}
  \cup {<<"queue", i>> : i \in {j \in 1 .. Len(queue) : queue[j] = c}}
  \cup (IF client = c THEN {<<"accept", 0>>} ELSE {})

\* An accepted connection is in one pair of hands, on every path of accept,
\* submit, failure and service, so that its descriptor is closed once and not
\* while a worker reads from it; nobody holds a closed one.  (What is queued
\* when the pool is destroyed is dropped with the process.)
OneOwner ==
  \A c \in Conn :
    Cardinality(Owners(c)) =
      IF conn[c] = "open" /\ mpc # "done" THEN 1 ELSE 0

\* The accept thread is gone before the pool starts to shut down: no
\* connection is submitted to a pool that will not serve it.
NoSubmitToDyingPool ==
  shutdown => apc = "exited" /\ client = NoOne

\* As long as workers keep becoming free, a queued connection is served, or
\* the daemon is told to stop.
QueuedIsServed ==
  \A c \in Conn :
    []<>(\E w \in Worker : wpc[w] \notin {"serve", "recv"}) =>
      ((\E i \in 1 .. Len(queue) : queue[i] = c)
         ~> (~ running \/ \E w \in Worker : task[w] = c))

\* A request on a connection that is being served is handled, unless the
\* connection ends or the daemon stops first.
RequestIsHandled ==
  \A c \in Conn :
    ((\E w \in Worker : task[w] = c) /\ handled[c] < sent[c])
      ~> (handled[c] = sent[c] \/ conn[c] = "closed" \/ ~ running)

\* thread_pool_destroy "wakes up all worker threads" with its broadcast: once
\* it waits for them to exit, none sleeps on the condition variable.
NoSleeperAtJoin ==
  mpc = "join" => \A w \in Worker : wpc[w] # "waiting"

-----------------------------------------------------------------------------
(* Implementation of ConnectionService *)

\* The queue, and behind it the connection that the accept thread is handing
\* over.
lineBar == IF client = NoOne THEN queue ELSE Append(queue, client)
servedBar == {c \in Conn : \E w \in Worker : task[w] = c}
overBar == {c \in Conn : conn[c] = "closed"}

Service == INSTANCE ConnectionService WITH
  Client   <- Conn,
  Places   <- Cardinality(Worker),
  line     <- lineBar,
  served   <- servedBar,
  over     <- overBar,
  asked    <- sent,
  answered <- handled,
  ended    <- mpc = "done"

\* Accept thread, queue and workers together serve connections in the order
\* in which they were accepted, no more at a time than there are workers, turn
\* away none that others stand behind, and answer each request once.
ImplementsConnections == Service!Spec
=============================================================================
