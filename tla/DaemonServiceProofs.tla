------------------------ MODULE DaemonServiceProofs ------------------------
(***************************************************************************)
(* DaemonCore implements ConnectionService: for any number of workers,     *)
(* connections and requests every step of the daemon is one step of the    *)
(* service or changes nothing of it.                                       *)
(***************************************************************************)
EXTENDS DaemonCoreProofs

Inv == BaseInv /\ OwnInv

\* What the service starts from.
LEMMA InitService == Init => Service!Init
<1> SUFFICES ASSUME Init PROVE Service!Init
  OBVIOUS
<1>1. lineBar = <<>> /\ sent = [c \in Conn |-> 0] /\ handled = [c \in Conn |-> 0]
  BY DEF Init, lineBar
<1>2. servedBar = {} /\ overBar = {}
  BY CoreAssumption DEF Init, servedBar, overBar
<1>3. (mpc = "done") = FALSE
  BY DEF Init
<1> QED
  BY <1>1, <1>2, <1>3 DEF Service!Init

\* Steps that pass no connection on and handle no request.
LEMMA Unseen ==
  ASSUME UNCHANGED <<queue, task, client, conn, sent, handled>>,
         (mpc' = "done") = (mpc = "done")
  PROVE  UNCHANGED Service!vars
<1>1. lineBar' = lineBar /\ servedBar' = servedBar /\ overBar' = overBar
  BY DEF lineBar, servedBar, overBar
<1> QED
  BY <1>1 DEF Service!vars

\* The line as a sequence.
LEMMA Line ==
  ASSUME Inv
  PROVE  /\ queue \in Seq(Conn) /\ lineBar \in Seq(Conn)
         /\ client # NoOne => /\ client \in Conn /\ lineBar = Append(queue, client)
                              /\ lineBar # <<>> /\ lineBar[Len(lineBar)] = client
                              /\ SubSeq(lineBar, 1, Len(lineBar) - 1) = queue
         /\ client = NoOne => lineBar = queue
<1>1. queue \in Seq(Conn) /\ client \in Conn \cup {NoOne}
  BY DEF Inv, BaseInv, TypeOK
<1>2. CASE client = NoOne
  BY <1>1, <1>2 DEF lineBar
<1>3. CASE client # NoOne
  <2>1. client \in Conn /\ lineBar = Append(queue, client)
    BY <1>1, <1>3 DEF lineBar
  <2>2. /\ Len(lineBar) = Len(queue) + 1 /\ Len(queue) \in Nat /\ lineBar \in Seq(Conn)
        /\ \A i \in 1 .. Len(queue) : lineBar[i] = queue[i]
        /\ lineBar[Len(queue) + 1] = client
    BY <1>1, <2>1, AppendProperties, LenProperties
  <2>3. SubSeq(lineBar, 1, Len(lineBar) - 1) = queue
    BY <1>1, <2>2
  <2>4. lineBar # <<>> /\ lineBar[Len(lineBar)] = client
    BY <2>2
  <2> QED
    BY <1>1, <1>3, <2>1, <2>2, <2>3, <2>4
<1> QED
  BY <1>2, <1>3

\* Accept: a connection that nobody has had before joins the line.
LEMMA AcceptIsArrive ==
  ASSUME Inv, Accept
  PROVE  Service!Next
<1>1. PICK c \in Conn : /\ conn[c] = "backlog" /\ conn' = [conn EXCEPT ![c] = "open"]
                        /\ client' = c
  BY DEF Accept
<1>2. /\ UNCHANGED <<queue, task, mpc, sent, handled>>
      /\ client = NoOne /\ mpc # "done" /\ c # NoOne
  BY CoreAssumption DEF Accept, pool, Inv, BaseInv, HandsOK, StopOK
<1>3. queue \in Seq(Conn) /\ lineBar = queue
  BY <1>2, Line
<1>4. lineBar' = Append(lineBar, c)
  BY <1>1, <1>2, <1>3 DEF lineBar
<1>5. c \notin Service!InLine
  BY <1>1, <1>3 DEF Service!InLine, Inv, OwnInv, QueueOwns
<1>6. c \notin servedBar /\ c \notin overBar
  BY <1>1, <1>2 DEF servedBar, overBar, Inv, OwnInv, HandsOwn
<1>7. servedBar' = servedBar
  BY <1>2 DEF servedBar
<1>8. overBar' = overBar
  BY <1>1 DEF overBar, Inv, BaseInv, TypeOK
<1>9. (mpc' = "done") = (mpc = "done")
  BY <1>2
<1>10. Service!Arrive(c)
  BY <1>2, <1>4, <1>5, <1>6, <1>7, <1>8, <1>9 DEF Service!Arrive
<1> QED
  BY <1>10 DEF Service!Next

\* transport_close_client in the accept thread: the newest is turned away.
LEMMA GiveUpIsTurnAway ==
  ASSUME Inv, GiveUpClient, apc \in {"submit", "push"}, UNCHANGED <<queue, task, mpc>>
  PROVE  Service!Next
<1>1. client \in Conn /\ client # NoOne
  BY CoreAssumption DEF Inv, BaseInv, TypeOK, HandsOK
<1>2. /\ client' = NoOne /\ UNCHANGED <<sent, handled>>
      /\ \A c \in Conn : conn'[c] = IF c = client THEN "closed" ELSE conn[c]
  BY <1>1 DEF GiveUpClient, Inv, BaseInv, TypeOK
<1>3. /\ lineBar # <<>> /\ lineBar[Len(lineBar)] = client
      /\ SubSeq(lineBar, 1, Len(lineBar) - 1) = queue
  BY <1>1, Line
<1>4. lineBar' = queue
  BY <1>2 DEF lineBar
<1>5. servedBar' = servedBar
  BY DEF servedBar
<1>6. overBar' = overBar \cup {client}
  BY <1>1, <1>2 DEF overBar
<1>7. (mpc' = "done") = (mpc = "done")
  OBVIOUS
<1>8. Service!TurnAway
  BY <1>2, <1>3, <1>4, <1>5, <1>6, <1>7 DEF Service!TurnAway
<1> QED
  BY <1>8 DEF Service!Next

\* task_queue_push: the line does not change, only who holds its end.
LEMMA PushIsUnseen ==
  ASSUME Inv, client # NoOne, queue' = Append(queue, client), client' = NoOne,
         UNCHANGED <<task, mpc, net>>
  PROVE  UNCHANGED Service!vars
<1>1. lineBar' = lineBar
  BY DEF lineBar
<1>2. servedBar' = servedBar /\ overBar' = overBar /\ UNCHANGED <<sent, handled>>
  BY DEF servedBar, overBar, net
<1>3. (mpc' = "done") = (mpc = "done")
  OBVIOUS
<1> QED
  BY <1>1, <1>2, <1>3 DEF Service!vars

\* The service counts as the daemon does.
LEMMA SameCardinality == \A S : Service!Cardinality(S) = Cardinality(S)
BY DEF Service!Cardinality, Service!IsFiniteSet, Cardinality, IsFiniteSet

\* While one worker has nothing to do, fewer are served than there are workers.
LEMMA PlaceFree ==
  ASSUME Inv, NEW w \in Worker, task[w] = NoOne
  PROVE  Cardinality(servedBar) < Cardinality(Worker)
<1> DEFINE Others == Worker \ {w}
           Tasks == {task[v] : v \in Others}
<1>1. /\ IsFiniteSet(Others) /\ Cardinality(Others) = Cardinality(Worker) - 1
      /\ Cardinality(Worker) \in Nat /\ Cardinality(Others) \in Nat
  BY CoreAssumption, FS_RemoveElement, FS_CardinalityType
<1>2. IsFiniteSet(Tasks) /\ Cardinality(Tasks) <= Cardinality(Others)
  <2> DEFINE f == [v \in Others |-> task[v]]
  <2>1. f \in Surjection(Others, Tasks)
    BY DEF Surjection
  <2> HIDE DEF f, Tasks, Others
  <2> QED
    BY <1>1, <2>1, FS_Surjection
<1>3. servedBar \in SUBSET Tasks
  BY CoreAssumption DEF servedBar
<1>4. Cardinality(servedBar) <= Cardinality(Tasks)
  BY <1>2, <1>3, FS_Subset
<1>5. Cardinality(servedBar) \in Nat /\ Cardinality(Tasks) \in Nat
  BY <1>2, <1>3, FS_Subset, FS_CardinalityType
<1> HIDE DEF Tasks, Others
<1> QED
  BY <1>1, <1>2, <1>4, <1>5

\* A worker takes the head of the queue, which is the head of the line.
LEMMA TakeIsServeNext ==
  ASSUME Inv, NEW w \in Worker, task[w] = NoOne, queue # <<>>,
         task' = [task EXCEPT ![w] = Head(queue)], queue' = Tail(queue),
         UNCHANGED <<client, mpc, net>>
  PROVE  Service!Next
<1>1. /\ queue \in Seq(Conn) /\ Head(queue) \in Conn /\ Tail(queue) \in Seq(Conn)
      /\ Len(queue) \in Nat /\ Len(queue) >= 1
  BY Line
<1>2. lineBar # <<>> /\ Head(lineBar) = Head(queue) /\ lineBar' = Tail(lineBar)
  <2>1. CASE client = NoOne
    BY <1>1, <2>1 DEF lineBar
  <2>2. CASE client # NoOne
    <3>1. client \in Conn /\ lineBar = Append(queue, client) /\ lineBar' = Append(Tail(queue), client)
      BY <2>2, Line DEF lineBar
    <3>2. Head(Append(queue, client)) = Head(queue) /\ Append(queue, client) # <<>>
      BY <1>1, <3>1
    <3>3. Tail(Append(queue, client)) = Append(Tail(queue), client)
      BY <1>1, <3>1
    <3> QED
      BY <3>1, <3>2, <3>3
  <2> QED
    BY <2>1, <2>2
<1>3. \A v \in Worker : task'[v] = IF v = w THEN Head(queue) ELSE task[v]
  BY DEF Inv, BaseInv, TypeOK
<1>4. servedBar' = servedBar \cup {Head(queue)}
  BY <1>1, <1>3, CoreAssumption DEF servedBar
<1>5. overBar' = overBar /\ UNCHANGED <<sent, handled>>
  BY DEF overBar, net
<1>6. (mpc' = "done") = (mpc = "done")
  OBVIOUS
<1>7. Service!Cardinality(servedBar) < Cardinality(Worker)
  BY PlaceFree, SameCardinality
<1>8. Service!ServeNext
  BY <1>2, <1>4, <1>5, <1>6, <1>7 DEF Service!ServeNext
<1> QED
  BY <1>8 DEF Service!Next

\* One request more on a connection that is not over.
LEMMA SendIsAsk ==
  ASSUME Inv, NEW c \in Conn, Send(c)
  PROVE  Service!Next
<1>1. /\ UNCHANGED <<queue, task, client, conn, mpc, handled>>
      /\ conn[c] # "closed" /\ sent' = [sent EXCEPT ![c] = @ + 1]
  BY DEF Send, pool
<1>2. lineBar' = lineBar /\ servedBar' = servedBar /\ overBar' = overBar /\ c \notin overBar
  BY <1>1 DEF lineBar, servedBar, overBar
<1>3. (mpc' = "done") = (mpc = "done")
  BY <1>1
<1>4. Service!Ask(c)
  BY <1>1, <1>2, <1>3 DEF Service!Ask
<1> QED
  BY <1>4 DEF Service!Next

\* A worker answers a request of its connection.
LEMMA HandleIsAnswer ==
  ASSUME Inv, NEW w \in Worker, HandleRequest(w)
  PROVE  Service!Next
<1>1. /\ UNCHANGED <<queue, task, client, conn, mpc, sent>>
      /\ handled[task[w]] < sent[task[w]]
      /\ handled' = [handled EXCEPT ![task[w]] = @ + 1]
  BY DEF HandleRequest, pool
<1>2. task[w] \in Conn
  BY DEF HandleRequest, Inv, BaseInv, TypeOK, HandsOK
<1>3. lineBar' = lineBar /\ servedBar' = servedBar /\ overBar' = overBar /\ task[w] \in servedBar
  BY <1>1, <1>2 DEF lineBar, servedBar, overBar
<1>4. (mpc' = "done") = (mpc = "done")
  BY <1>1
<1>5. Service!Answer(task[w])
  BY <1>1, <1>3, <1>4 DEF Service!Answer
<1> QED
  BY <1>2, <1>5 DEF Service!Next

\* The end of client_handler_task.  No other worker has the connection.
LEMMA CloseIsFinish ==
  ASSUME Inv, NEW w \in Worker, CloseClient(w)
  PROVE  Service!Next
<1>1. /\ task[w] \in Conn /\ task[w] # NoOne /\ UNCHANGED <<queue, client, mpc, sent, handled>>
      /\ \A c \in Conn : conn'[c] = IF c = task[w] THEN "closed" ELSE conn[c]
      /\ \A v \in Worker : task'[v] = IF v = w THEN NoOne ELSE task[v]
  BY DEF CloseClient, pool, Inv, BaseInv, TypeOK, HandsOK
<1>2. \A v \in Worker : task[v] = task[w] => v = w
  BY <1>1 DEF Inv, OwnInv, HandsOwn
<1>3. lineBar' = lineBar
  BY <1>1 DEF lineBar
<1>4. task[w] \in servedBar /\ servedBar' = servedBar \ {task[w]}
  BY <1>1, <1>2, CoreAssumption DEF servedBar
<1>5. overBar' = overBar \cup {task[w]}
  BY <1>1 DEF overBar
<1>6. (mpc' = "done") = (mpc = "done")
  BY <1>1
<1>7. Service!Finish(task[w])
  BY <1>1, <1>3, <1>4, <1>5, <1>6 DEF Service!Finish
<1> QED
  BY <1>1, <1>7 DEF Service!Next

\* All workers are joined and the queue is freed.
LEMMA DestroyIsEnd ==
  ASSUME Inv, FinishDestroy
  PROVE  Service!Next
<1>1. /\ mpc = "join" /\ mpc' = "done" /\ queue' = <<>>
      /\ UNCHANGED <<task, client, conn, sent, handled>>
      /\ \A w \in Worker : wpc[w] = "exited"
  BY DEF FinishDestroy, net
<1>2. client = NoOne /\ \A w \in Worker : task[w] = NoOne
  BY <1>1 DEF Inv, BaseInv, HandsOK, StopOK
<1>3. lineBar' = <<>> /\ servedBar = {} /\ servedBar' = {} /\ overBar' = overBar
  BY <1>1, <1>2, CoreAssumption DEF lineBar, servedBar, overBar
<1>4. ~ (mpc = "done") /\ (mpc' = "done") = TRUE
  BY <1>1
<1>5. Service!End
  BY <1>1, <1>3, <1>4 DEF Service!End
<1> QED
  BY <1>5 DEF Service!Next

\* Every step of the daemon is a step of the service or unseen.
LEMMA StepImplementsService ==
  ASSUME Inv, [Next]_vars
  PROVE  [Service!Next]_(Service!vars)
<1>1. ASSUME NEW c \in Conn, Connect(c) PROVE UNCHANGED Service!vars
  <2>1. /\ UNCHANGED <<queue, task, client, mpc, sent, handled>>
        /\ conn[c] = "none" /\ conn' = [conn EXCEPT ![c] = "backlog"]
    BY <1>1 DEF Connect, pool
  <2>2. lineBar' = lineBar /\ servedBar' = servedBar
    BY <2>1 DEF lineBar, servedBar
  <2>3. overBar' = overBar
    BY <2>1 DEF overBar, Inv, BaseInv, TypeOK
  <2>4. (mpc' = "done") = (mpc = "done")
    BY <2>1
  <2> QED
    BY <2>1, <2>2, <2>3, <2>4 DEF Service!vars
<1>2. ASSUME \/ \E c \in Conn : Disconnect(c)
             \/ AcceptLoop \/ AcceptFails
             \/ JoinAccept \/ CleanupSessions \/ SetShutdown \/ Broadcast \/ StopSignal
             \/ \E w \in Worker : \/ TakeMutex(w) \/ Sleep(w) \/ ServeLoop(w)
                                  \/ RecvEnds(w) \/ SpuriousWakeup(w)
             \/ UNCHANGED vars
      PROVE  UNCHANGED Service!vars
  <2>1. UNCHANGED <<queue, task, client, conn, sent, handled>>
    BY <1>2 DEF Disconnect, AcceptLoop, AcceptFails, JoinAccept, CleanupSessions, SetShutdown,
         Broadcast, StopSignal, TakeMutex, Sleep, ServeLoop, RecvEnds, SpuriousWakeup,
         vars, pool, net
  <2>2. (mpc' = "done") = (mpc = "done")
    BY <1>2 DEF Disconnect, AcceptLoop, AcceptFails, JoinAccept, CleanupSessions, SetShutdown,
         Broadcast, StopSignal, TakeMutex, Sleep, ServeLoop, RecvEnds, SpuriousWakeup, vars
  <2> QED
    BY <2>1, <2>2, Unseen
<1>3. CASE NoTaskMemory
  <2>1. apc = "submit" /\ GiveUpClient /\ UNCHANGED <<queue, task, mpc>>
    BY <1>3 DEF NoTaskMemory, pool
  <2> QED
    BY <2>1, GiveUpIsTurnAway
<1>4. CASE Submit
  <2>1. apc = "submit" /\ UNCHANGED <<queue, task, mpc>>
    BY <1>4 DEF Submit
  <2>2. GiveUpClient \/ UNCHANGED <<client, conn, sent, handled>>
    BY <1>4 DEF Submit, net
  <2>3. CASE GiveUpClient
    BY <2>1, <2>3, GiveUpIsTurnAway
  <2>4. CASE UNCHANGED <<client, conn, sent, handled>>
    BY <2>1, <2>4, Unseen
  <2> QED
    BY <2>2, <2>3, <2>4
<1>5. CASE Push
  <2>1. apc = "push" /\ UNCHANGED <<task, mpc>> /\ client # NoOne
    BY <1>5 DEF Push, Inv, BaseInv, HandsOK
  <2>2. \/ queue' = Append(queue, client) /\ client' = NoOne /\ UNCHANGED net
        \/ GiveUpClient /\ queue' = queue
    BY <1>5 DEF Push
  <2>3. CASE queue' = Append(queue, client) /\ client' = NoOne /\ UNCHANGED net
    BY <2>1, <2>3, PushIsUnseen
  <2>4. CASE GiveUpClient /\ queue' = queue
    BY <2>1, <2>4, GiveUpIsTurnAway
  <2> QED
    BY <2>2, <2>3, <2>4
<1>6. ASSUME NEW w \in Worker, Check(w) PROVE [Service!Next]_(Service!vars)
  <2>1. UNCHANGED <<client, mpc, net>> /\ task[w] = NoOne
    BY <1>6 DEF Check, Inv, BaseInv, HandsOK
  <2>2. \/ UNCHANGED <<queue, task>>
        \/ queue # <<>> /\ task' = [task EXCEPT ![w] = Head(queue)] /\ queue' = Tail(queue)
    BY <1>6 DEF Check
  <2>3. CASE UNCHANGED <<queue, task>>
    BY <2>1, <2>3, Unseen DEF net
  <2>4. CASE queue # <<>> /\ task' = [task EXCEPT ![w] = Head(queue)] /\ queue' = Tail(queue)
    BY <2>1, <2>4, TakeIsServeNext
  <2> QED
    BY <2>2, <2>3, <2>4
<1> QED
  BY <1>1, <1>2, <1>3, <1>4, <1>5, <1>6, AcceptIsArrive, SendIsAsk, HandleIsAnswer, CloseIsFinish,
     DestroyIsEnd
     DEF Next, AcceptStep, MainStep, WorkerStep

\* Accept thread, queue and pool serve connections in the order in which they
\* were accepted, no more at a time than there are workers, and answer no
\* request twice, whatever fails and whenever the daemon is stopped.
THEOREM DaemonImplementsService == Spec => ImplementsConnections
<1>1. Inv /\ [Next]_vars => [Service!Next]_(Service!vars)
  BY StepImplementsService
<1>2. Spec => []Inv
  BY Own, Base, PTL DEF Inv
<1> QED
  BY <1>1, <1>2, InitService, PTL DEF Spec, ImplementsConnections, Service!Spec
=============================================================================
