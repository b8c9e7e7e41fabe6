-------------------------- MODULE DaemonCoreProofs --------------------------
(***************************************************************************)
(* Proofs about DaemonCore, for any number of workers, connections and     *)
(* requests.  Fairness plays no part in them.                              *)
(***************************************************************************)
EXTENDS DaemonCore, FiniteSetTheorems, SequenceTheorems, TLAPS

(***************************************************************************)
(* Types, and who is where                                                 *)
(***************************************************************************)

\* A worker has a task while it serves; the accept thread has a client while
\* it hands one over; the queue mutex is held around the test of the queue.
HandsOK ==
  /\ \A w \in Worker : task[w] # NoOne <=> wpc[w] \in {"serve", "recv", "close"}
  /\ client # NoOne <=> apc \in {"submit", "push"}
  /\ \A w \in Worker : wpc[w] \in {"check", "sleep"} <=> queue_mutex = w

\* A request is handled only if it was sent.
HandledOK == \A c \in Conn : handled[c] <= sent[c]

\* The order of the stop sequence.
StopOK ==
  /\ mpc # "joinAccept" => apc = "exited"
  /\ shutdown => mpc \in {"broadcast", "join", "done"}
  /\ mpc = "done" => queue = <<>> /\ \A w \in Worker : wpc[w] = "exited"

BaseInv == TypeOK /\ HandsOK /\ HandledOK /\ StopOK

\* The daemon has started.
LEMMA InitBase == Init => BaseInv
<1> SUFFICES ASSUME Init PROVE BaseInv
  OBVIOUS
<1>1. TypeOK
  <2>1. /\ queue \in Seq(Conn) /\ 0 \in 0 .. MaxRequests
    BY CoreAssumption DEF Init
  <2>2. running \in BOOLEAN /\ shutdown \in BOOLEAN
    BY DEF Init
  <2>3. /\ wpc \in [Worker -> WPC] /\ task \in [Worker -> Conn \cup {NoOne}]
        /\ apc \in APC /\ mpc \in MPC /\ client \in Conn \cup {NoOne}
        /\ queue_mutex \in Worker \cup {NoOne} /\ pool_mutex \in {Acceptor, NoOne}
    BY DEF Init, WPC, APC, MPC
  <2>4. /\ conn \in [Conn -> {"none", "backlog", "open", "closed"}]
        /\ sent \in [Conn -> 0 .. MaxRequests] /\ handled \in [Conn -> 0 .. MaxRequests]
        /\ gone \in SUBSET Conn
    BY <2>1 DEF Init
  <2> QED
    BY <2>1, <2>2, <2>3, <2>4 DEF TypeOK
<1>2. HandsOK /\ HandledOK /\ StopOK
  BY CoreAssumption DEF Init, HandsOK, HandledOK, StopOK
<1> QED
  BY <1>1, <1>2 DEF BaseInv

\* Clients connect, send and leave.
LEMMA ClientBase ==
  ASSUME BaseInv, NEW c \in Conn, Connect(c) \/ Send(c) \/ Disconnect(c)
  PROVE  BaseInv'
<1>1. TypeOK'
  <2>1. CASE Connect(c)
    BY <2>1 DEF Connect, BaseInv, TypeOK, pool
  <2>2. CASE Send(c)
    BY <2>2, CoreAssumption DEF Send, BaseInv, TypeOK, pool
  <2>3. CASE Disconnect(c)
    BY <2>3 DEF Disconnect, BaseInv, TypeOK, pool
  <2> QED
    BY <2>1, <2>2, <2>3
<1>2. HandsOK' /\ StopOK'
  <2>1. UNCHANGED <<wpc, task, apc, client, mpc, shutdown, queue, queue_mutex>>
    BY DEF Connect, Send, Disconnect, pool
  <2> QED
    BY <2>1 DEF BaseInv, HandsOK, StopOK
<1>3. HandledOK'
  <2>1. CASE Send(c)
    BY <2>1, CoreAssumption DEF Send, BaseInv, TypeOK, HandledOK
  <2>2. CASE Connect(c) \/ Disconnect(c)
    BY <2>2 DEF Connect, Disconnect, BaseInv, HandledOK
  <2> QED
    BY <2>1, <2>2
<1> QED
  BY <1>1, <1>2, <1>3 DEF BaseInv

\* The accept thread.
LEMMA AcceptBase == BaseInv /\ AcceptStep => BaseInv'
<1> SUFFICES ASSUME BaseInv, AcceptStep PROVE BaseInv'
  OBVIOUS
<1> USE DEF BaseInv
<1>g. ASSUME GiveUpClient
      PROVE  /\ conn' \in [Conn -> {"none", "backlog", "open", "closed"}]
             /\ client' = NoOne /\ apc' = "loop"
  BY <1>g DEF GiveUpClient, TypeOK
<1>1. ASSUME AcceptLoop \/ AcceptFails PROVE BaseInv'
  <2>1. /\ apc = "loop" \/ apc = "accept"
        /\ apc' \in {"accept", "exited", "loop"} /\ (apc = "accept" => apc' = "loop")
        /\ UNCHANGED <<running, pool, wpc, task, client, mpc, net>>
    BY <1>1 DEF AcceptLoop, AcceptFails
  <2>2. TypeOK'
    BY <2>1 DEF TypeOK, pool, net, APC
  <2>3. HandsOK' /\ HandledOK' /\ StopOK'
    BY <2>1 DEF HandsOK, HandledOK, StopOK, pool, net
  <2> QED
    BY <2>2, <2>3
<1>2. ASSUME Accept PROVE BaseInv'
  <2>1. PICK c \in Conn : conn' = [conn EXCEPT ![c] = "open"] /\ client' = c
    BY <1>2 DEF Accept
  <2>2. /\ apc = "accept" /\ apc' = "submit"
        /\ UNCHANGED <<running, pool, wpc, task, mpc, sent, handled, gone>>
    BY <1>2 DEF Accept
  <2>3. TypeOK'
    BY <2>1, <2>2 DEF TypeOK, pool, APC
  <2>4. HandsOK' /\ HandledOK' /\ StopOK'
    BY <2>1, <2>2, CoreAssumption DEF HandsOK, HandledOK, StopOK, pool
  <2> QED
    BY <2>3, <2>4
<1>3. ASSUME NoTaskMemory PROVE BaseInv'
  <2>1. /\ UNCHANGED <<running, pool, wpc, task, mpc, sent, handled, gone>>
        /\ apc = "submit"
    BY <1>3 DEF NoTaskMemory, GiveUpClient
  <2>2. TypeOK'
    BY <1>3, <1>g, <2>1 DEF NoTaskMemory, TypeOK, pool, APC
  <2>3. HandsOK' /\ HandledOK' /\ StopOK'
    BY <1>3, <1>g, <2>1 DEF NoTaskMemory, HandsOK, HandledOK, StopOK, pool
  <2> QED
    BY <2>2, <2>3
<1>4. ASSUME Submit PROVE BaseInv'
  <2>1. /\ UNCHANGED <<running, shutdown, queue, queue_mutex, wpc, task, mpc, sent, handled, gone>>
        /\ apc = "submit"
        /\ pool_mutex' \in {Acceptor, NoOne}
        /\ conn' \in [Conn -> {"none", "backlog", "open", "closed"}]
        /\ \/ client' = NoOne /\ apc' = "loop"
           \/ client' = client /\ apc' = "push"
    <3>1. CASE shutdown
      BY <1>4, <1>g, <3>1 DEF Submit, GiveUpClient, TypeOK
    <3>2. CASE ~ shutdown
      BY <1>4, <3>2 DEF Submit, TypeOK, net
    <3> QED
      BY <3>1, <3>2
  <2>2. TypeOK'
    BY <2>1 DEF TypeOK, APC
  <2>3. HandsOK' /\ HandledOK' /\ StopOK'
    BY <2>1 DEF HandsOK, HandledOK, StopOK
  <2> QED
    BY <2>2, <2>3
<1>5. ASSUME Push PROVE BaseInv'
  <2>1. client \in Conn
    BY <1>5 DEF Push, TypeOK, HandsOK
  <2>2. /\ UNCHANGED <<running, shutdown, queue_mutex, task, mpc, sent, handled, gone>>
        /\ apc = "push" /\ pool_mutex' = NoOne /\ client' = NoOne /\ apc' = "loop"
        /\ conn' \in [Conn -> {"none", "backlog", "open", "closed"}]
    <3>1. CASE GiveUpClient
      BY <1>5, <1>g, <3>1 DEF Push, GiveUpClient
    <3>2. CASE ~ GiveUpClient
      BY <1>5, <3>2 DEF Push, TypeOK, net
    <3> QED
      BY <3>1, <3>2
  <2>3. queue' = queue \/ queue' = Append(queue, client)
    BY <1>5 DEF Push
  <2>4. wpc' = wpc \/ \E w \in Worker : wpc[w] = "waiting" /\ wpc' = [wpc EXCEPT ![w] = "woken"]
    BY <1>5 DEF Push, Signal
  <2>5. queue' \in Seq(Conn)
    <3>1. queue \in Seq(Conn)
      BY DEF TypeOK
    <3>2. Append(queue, client) \in Seq(Conn)
      BY <2>1, <3>1, AppendProperties
    <3> QED
      BY <2>3, <3>1, <3>2
  <2>6. wpc' \in [Worker -> WPC]
    BY <2>4 DEF TypeOK, WPC
  <2>7. TypeOK'
    BY <2>2, <2>5, <2>6 DEF TypeOK, APC
  <2>8. \A w \in Worker : /\ wpc'[w] \in {"serve", "recv", "close"} <=> wpc[w] \in {"serve", "recv", "close"}
                          /\ wpc'[w] \in {"check", "sleep"} <=> wpc[w] \in {"check", "sleep"}
    BY <2>4 DEF TypeOK
  <2>9. HandsOK' /\ HandledOK'
    BY <2>2, <2>8 DEF HandsOK, HandledOK
  <2>10. StopOK'
    BY <2>2 DEF StopOK
  <2> QED
    BY <2>7, <2>9, <2>10
<1> QED
  BY <1>1, <1>2, <1>3, <1>4, <1>5 DEF AcceptStep

\* The workers.
LEMMA WorkerBase ==
  ASSUME BaseInv, NEW w \in Worker, WorkerStep(w) \/ SpuriousWakeup(w)
  PROVE  BaseInv'
<1> USE DEF BaseInv
<1>0. w # NoOne
  BY CoreAssumption
<1>1. ASSUME TakeMutex(w) PROVE BaseInv'
  <2>1. TypeOK'
    BY <1>1 DEF TakeMutex, TypeOK, WPC, net
  <2>2. HandsOK' /\ HandledOK' /\ StopOK'
    BY <1>0, <1>1, CoreAssumption DEF TakeMutex, TypeOK, HandsOK, HandledOK, StopOK, net
  <2> QED
    BY <2>1, <2>2
<1>2. ASSUME Check(w) PROVE BaseInv'
  <2>1. /\ wpc[w] = "check"
        /\ UNCHANGED <<running, shutdown, pool_mutex, apc, client, mpc, net>>
    BY <1>2 DEF Check
  <2>2. \/ /\ shutdown /\ wpc' = [wpc EXCEPT ![w] = "exited"] /\ queue_mutex' = NoOne
           /\ UNCHANGED <<queue, task>>
        \/ /\ wpc' = [wpc EXCEPT ![w] = "sleep"] /\ UNCHANGED <<queue, queue_mutex, task>>
        \/ /\ queue # <<>> /\ task' = [task EXCEPT ![w] = Head(queue)] /\ queue' = Tail(queue)
           /\ queue_mutex' = NoOne /\ wpc' = [wpc EXCEPT ![w] = "serve"]
    BY <1>2 DEF Check
  <2>3. queue # <<>> => Head(queue) \in Conn /\ Tail(queue) \in Seq(Conn) /\ Head(queue) # NoOne
    BY CoreAssumption DEF TypeOK
  <2>4. TypeOK'
    BY <2>1, <2>2, <2>3 DEF TypeOK, WPC, net
  <2>5. HandsOK' /\ HandledOK'
    <3>1. HandledOK'
      BY <2>1 DEF HandledOK, net
    <3>2. \A v \in Worker \ {w} :
            /\ wpc'[v] = wpc[v] /\ task'[v] = task[v]
            /\ wpc[v] \notin {"check", "sleep"} /\ queue_mutex' # v
      BY <2>1, <2>2, CoreAssumption DEF TypeOK, HandsOK
    <3>3. /\ task'[w] # NoOne <=> wpc'[w] \in {"serve", "recv", "close"}
          /\ wpc'[w] \in {"check", "sleep"} <=> queue_mutex' = w
      BY <2>1, <2>2, <2>3, CoreAssumption DEF TypeOK, HandsOK
    <3> QED
      BY <2>1, <3>1, <3>2, <3>3 DEF HandsOK
  <2>6. StopOK'
    BY <2>1, <2>2 DEF TypeOK, StopOK
  <2> QED
    BY <2>4, <2>5, <2>6
<1>3. ASSUME Sleep(w) PROVE BaseInv'
  <2>1. TypeOK'
    BY <1>3 DEF Sleep, TypeOK, WPC, net
  <2>2. HandsOK' /\ HandledOK' /\ StopOK'
    BY <1>3, CoreAssumption DEF Sleep, TypeOK, HandsOK, HandledOK, StopOK, net
  <2> QED
    BY <2>1, <2>2
<1>4. ASSUME ServeLoop(w) \/ RecvEnds(w) \/ SpuriousWakeup(w) PROVE BaseInv'
  <2>1. /\ UNCHANGED <<running, pool, task, apc, client, mpc, net>>
        /\ \/ wpc[w] = "serve" /\ wpc' = [wpc EXCEPT ![w] = "recv"]
           \/ wpc[w] \in {"serve", "recv"} /\ wpc' = [wpc EXCEPT ![w] = "close"]
           \/ wpc[w] = "waiting" /\ wpc' = [wpc EXCEPT ![w] = "woken"]
    BY <1>4 DEF ServeLoop, RecvEnds, SpuriousWakeup
  <2>2. TypeOK'
    BY <2>1 DEF TypeOK, WPC, pool, net
  <2>3. HandsOK' /\ HandledOK' /\ StopOK'
    BY <2>1 DEF TypeOK, HandsOK, HandledOK, StopOK, pool, net
  <2> QED
    BY <2>2, <2>3
<1>5. ASSUME HandleRequest(w) PROVE BaseInv'
  <2>1. task[w] \in Conn
    BY <1>5 DEF HandleRequest, TypeOK, HandsOK
  <2>2. handled' \in [Conn -> 0 .. MaxRequests] /\ \A c \in Conn : handled'[c] <= sent[c]
    BY <1>5, <2>1, CoreAssumption DEF HandleRequest, TypeOK, HandledOK
  <2>3. TypeOK'
    BY <1>5, <2>2 DEF HandleRequest, TypeOK, WPC, pool
  <2>4. HandsOK' /\ HandledOK' /\ StopOK'
    BY <1>5, <2>2 DEF HandleRequest, TypeOK, HandsOK, HandledOK, StopOK, pool
  <2> QED
    BY <2>3, <2>4
<1>6. ASSUME CloseClient(w) PROVE BaseInv'
  <2>1. TypeOK'
    BY <1>6 DEF CloseClient, TypeOK, WPC, pool
  <2>2. HandsOK' /\ HandledOK' /\ StopOK'
    BY <1>6 DEF CloseClient, TypeOK, HandsOK, HandledOK, StopOK, pool
  <2> QED
    BY <2>1, <2>2
<1> QED
  BY <1>1, <1>2, <1>3, <1>4, <1>5, <1>6 DEF WorkerStep

\* The stop sequence.
LEMMA MainBase == BaseInv /\ (MainStep \/ StopSignal) => BaseInv'
<1> SUFFICES ASSUME BaseInv, MainStep \/ StopSignal PROVE BaseInv'
  OBVIOUS
<1> USE DEF BaseInv
<1>1. ASSUME JoinAccept \/ CleanupSessions \/ StopSignal PROVE BaseInv'
  <2>1. /\ UNCHANGED <<pool, wpc, task, apc, client, net>> /\ running' \in BOOLEAN
        /\ \/ mpc = "joinAccept" /\ apc = "exited" /\ mpc' = "sessions"
           \/ mpc = "sessions" /\ mpc' = "flag"
           \/ mpc' = mpc
    BY <1>1 DEF JoinAccept, CleanupSessions, StopSignal, TypeOK
  <2>2. TypeOK'
    BY <2>1 DEF TypeOK, MPC, pool, net
  <2>3. HandsOK' /\ HandledOK' /\ StopOK'
    BY <2>1 DEF HandsOK, HandledOK, StopOK, pool, net
  <2> QED
    BY <2>2, <2>3
<1>2. ASSUME SetShutdown PROVE BaseInv'
  <2>1. TypeOK'
    BY <1>2 DEF SetShutdown, TypeOK, MPC, net
  <2>2. HandsOK' /\ HandledOK' /\ StopOK'
    BY <1>2 DEF SetShutdown, HandsOK, HandledOK, StopOK, net
  <2> QED
    BY <2>1, <2>2
<1>3. ASSUME Broadcast PROVE BaseInv'
  <2>1. TypeOK'
    BY <1>3 DEF Broadcast, TypeOK, MPC, WPC, pool, net
  <2>2. HandsOK' /\ HandledOK' /\ StopOK'
    BY <1>3 DEF Broadcast, TypeOK, HandsOK, HandledOK, StopOK, pool, net
  <2> QED
    BY <2>1, <2>2
<1>4. ASSUME FinishDestroy PROVE BaseInv'
  <2>1. TypeOK'
    BY <1>4 DEF FinishDestroy, TypeOK, MPC, net
  <2>2. HandsOK' /\ HandledOK' /\ StopOK'
    BY <1>4 DEF FinishDestroy, HandsOK, HandledOK, StopOK, net
  <2> QED
    BY <2>1, <2>2
<1> QED
  BY <1>1, <1>2, <1>3, <1>4 DEF MainStep

\* Every step keeps the invariant.
LEMMA NextBase == BaseInv /\ [Next]_vars => BaseInv'
<1> SUFFICES ASSUME BaseInv, [Next]_vars PROVE BaseInv'
  OBVIOUS
<1>1. CASE UNCHANGED vars
  BY <1>1 DEF vars, pool, net, BaseInv, TypeOK, HandsOK, HandledOK, StopOK
<1> QED
  BY <1>1, ClientBase, AcceptBase, WorkerBase, MainBase DEF Next

\* It holds in every reachable state.
LEMMA Base == Spec => []BaseInv
  BY InitBase, NextBase, PTL DEF Spec

(***************************************************************************)
(* Sleeping workers                                                        *)
(***************************************************************************)

\* A worker that is about to wait still holds the mutex under which it found
\* the queue empty.
SleepInv ==
  /\ SleepersNotNeeded
  /\ \A w \in Worker : wpc[w] = "sleep" => queue = <<>>

\* Awake workers are finitely many.
LEMMA AwakeFinite == IsFiniteSet(Awake) /\ Cardinality(Awake) \in Nat
BY CoreAssumption, FS_Subset, FS_CardinalityType DEF Awake

\* Steps that leave the queue alone and put nobody to sleep.
LEMMA SleepFrame ==
  ASSUME SleepInv, BaseInv, BaseInv', queue' = queue, shutdown' = shutdown,
         \A w \in Worker : wpc'[w] \in {"waiting", "sleep"} => wpc'[w] = wpc[w],
         \A w \in Worker : wpc[w] \in {"lock", "check", "woken"} =>
                             wpc'[w] \in {"lock", "check", "woken"}
  PROVE  SleepInv'
<1>1. Awake \subseteq Awake' /\ IsFiniteSet(Awake) /\ IsFiniteSet(Awake')
  BY CoreAssumption, FS_Subset DEF Awake
<1>2. /\ Cardinality(Awake) <= Cardinality(Awake')
      /\ Cardinality(Awake) \in Nat /\ Cardinality(Awake') \in Nat
  BY <1>1, FS_Subset, FS_CardinalityType
<1>3. Len(queue) \in Nat
  BY LenProperties DEF BaseInv, TypeOK
<1>4. SleepersNotNeeded'
  BY <1>2, <1>3 DEF SleepInv, SleepersNotNeeded
<1> QED
  BY <1>4 DEF SleepInv

\* Every step keeps the invariant: a push wakes one sleeper, a pop uses up one
\* worker that was awake.
LEMMA NextSleep == SleepInv /\ BaseInv /\ BaseInv' /\ [Next]_vars => SleepInv'
<1> SUFFICES ASSUME SleepInv, BaseInv, BaseInv', [Next]_vars PROVE SleepInv'
  OBVIOUS
<1>t. /\ wpc \in [Worker -> WPC] /\ queue \in Seq(Conn) /\ Len(queue) \in Nat
      /\ \A w \in Worker : wpc[w] \in {"check", "sleep"} <=> queue_mutex = w
      /\ \A w \in Worker : w # NoOne
  BY LenProperties, CoreAssumption DEF BaseInv, TypeOK, HandsOK
<1>f. /\ IsFiniteSet(Awake) /\ Cardinality(Awake) \in Nat
      /\ IsFiniteSet(Awake') /\ Cardinality(Awake') \in Nat
  BY CoreAssumption, FS_Subset, FS_CardinalityType DEF Awake
<1>1. ASSUME UNCHANGED <<wpc, queue, shutdown>> PROVE SleepInv'
  BY <1>1, SleepFrame
<1>2. ASSUME SetShutdown \/ Broadcast \/ FinishDestroy PROVE SleepInv'
  <2>1. CASE SetShutdown
    BY <2>1 DEF SetShutdown, SleepInv, SleepersNotNeeded
  <2>2. CASE Broadcast
    <3>1. queue' = queue /\ \A w \in Worker : wpc'[w] # "waiting" /\ (wpc'[w] = "sleep" => wpc[w] = "sleep")
      BY <2>2 DEF Broadcast, pool
    <3> QED
      BY <3>1 DEF SleepInv, SleepersNotNeeded
  <2>3. CASE FinishDestroy
    <3>1. \A w \in Worker : wpc'[w] = "exited"
      BY <2>3 DEF FinishDestroy
    <3> QED
      BY <3>1 DEF SleepInv, SleepersNotNeeded
  <2> QED
    BY <1>2, <2>1, <2>2, <2>3
<1>3. ASSUME Push PROVE SleepInv'
  <2>1. CASE GiveUpClient /\ UNCHANGED <<queue, wpc>>
    BY <1>3, <1>1, <2>1 DEF Push
  <2>2. CASE queue_mutex = NoOne /\ queue' = Append(queue, client) /\ Signal
    <3>1. shutdown' = shutdown /\ client \in Conn
      BY <1>3 DEF Push, BaseInv, TypeOK, HandsOK
    <3>2. Len(queue') = Len(queue) + 1
      BY <1>t, <2>2, <3>1, AppendProperties
    <3>3. \A w \in Worker : wpc[w] # "sleep"
      BY <1>t, <2>2
    <3>4. CASE \A w \in Worker : wpc[w] # "waiting"
      <4>1. wpc' = wpc
        BY <2>2, <3>4 DEF Signal
      <4> QED
        BY <3>3, <3>4, <4>1 DEF SleepInv, SleepersNotNeeded
    <3>5. CASE \E w \in Worker : wpc[w] = "waiting"
      <4>1. PICK w \in Worker : wpc[w] = "waiting" /\ wpc' = [wpc EXCEPT ![w] = "woken"]
        BY <2>2, <3>5 DEF Signal
      <4>2. w \notin Awake /\ Awake' = Awake \cup {w}
        BY <1>t, <4>1 DEF Awake
      <4>3. Cardinality(Awake') = Cardinality(Awake) + 1
        BY <1>f, <4>2, FS_AddElement
      <4>4. ~ shutdown => Cardinality(Awake) >= Len(queue)
        BY <4>1 DEF SleepInv, SleepersNotNeeded
      <4>5. \A v \in Worker : wpc'[v] # "sleep"
        BY <1>t, <3>3, <4>1
      <4>6. SleepersNotNeeded'
        BY <1>t, <1>f, <3>1, <3>2, <4>3, <4>4 DEF SleepersNotNeeded
      <4> QED
        BY <4>5, <4>6 DEF SleepInv
    <3> QED
      BY <3>4, <3>5
  <2> QED
    BY <1>3, <2>1, <2>2 DEF Push
<1>4. ASSUME NEW w \in Worker, Check(w) PROVE SleepInv'
  <2>1. wpc[w] = "check" /\ shutdown' = shutdown /\ w \in Awake
    BY <1>4 DEF Check, Awake
  <2>2. \A v \in Worker \ {w} : wpc[v] # "sleep"
    BY <1>t, <2>1
  <2>3. CASE shutdown
    <3>1. wpc' = [wpc EXCEPT ![w] = "exited"] /\ queue' = queue
      BY <1>4, <2>3 DEF Check
    <3>2. \A v \in Worker : wpc'[v] # "sleep"
      BY <1>t, <2>2, <3>1
    <3> QED
      BY <2>1, <2>3, <3>2 DEF SleepInv, SleepersNotNeeded
  <2>4. CASE ~ shutdown /\ queue = <<>>
    <3>1. queue' = <<>>
      BY <1>4, <2>4 DEF Check
    <3>2. Len(queue') = 0
      BY <3>1
    <3> QED
      BY <1>f, <3>1, <3>2 DEF SleepInv, SleepersNotNeeded
  <2>5. CASE ~ shutdown /\ queue # <<>>
    <3>1. wpc' = [wpc EXCEPT ![w] = "serve"] /\ queue' = Tail(queue)
      BY <1>4, <2>5 DEF Check
    <3>2. Len(queue') = Len(queue) - 1
      BY <1>t, <2>5, <3>1, HeadTailProperties
    <3>3. Awake' = Awake \ {w}
      BY <1>t, <3>1 DEF Awake
    <3>4. Cardinality(Awake') = Cardinality(Awake) - 1
      BY <1>f, <2>1, <3>3, FS_RemoveElement
    <3>5. \A v \in Worker : wpc'[v] # "sleep" /\ (wpc'[v] = "waiting" => wpc[v] = "waiting")
      BY <1>t, <2>2, <3>1
    <3>6. SleepersNotNeeded'
      <4> SUFFICES ASSUME \E v \in Worker : wpc'[v] = "waiting"
                   PROVE  Cardinality(Awake') >= Len(queue')
        BY DEF SleepersNotNeeded
      <4>1. Cardinality(Awake) >= Len(queue)
        BY <2>5, <3>5 DEF SleepInv, SleepersNotNeeded
      <4> QED
        BY <1>t, <1>f, <3>2, <3>4, <4>1
    <3> QED
      BY <3>5, <3>6 DEF SleepInv
  <2> QED
    BY <2>3, <2>4, <2>5
<1>5. ASSUME NEW w \in Worker, Sleep(w) PROVE SleepInv'
  <2>1. queue = <<>> /\ queue' = queue
    BY <1>5 DEF Sleep, SleepInv
  <2>2. Len(queue') = 0
    BY <2>1
  <2> QED
    BY <1>f, <2>1, <2>2 DEF SleepInv, SleepersNotNeeded
<1>6. ASSUME NEW w \in Worker,
             \/ TakeMutex(w) \/ ServeLoop(w) \/ HandleRequest(w) \/ RecvEnds(w)
             \/ CloseClient(w) \/ SpuriousWakeup(w)
      PROVE  SleepInv'
  <2>1. queue' = queue /\ shutdown' = shutdown
    BY <1>6 DEF TakeMutex, ServeLoop, HandleRequest, RecvEnds, CloseClient, SpuriousWakeup, pool
  <2>2. \/ /\ wpc[w] \in {"lock", "woken", "close", "waiting"}
           /\ \E l \in {"lock", "check", "woken"} : wpc' = [wpc EXCEPT ![w] = l]
        \/ /\ wpc[w] \in {"serve", "recv"}
           /\ \E l \in {"serve", "recv", "close"} : wpc' = [wpc EXCEPT ![w] = l]
    BY <1>6 DEF TakeMutex, ServeLoop, HandleRequest, RecvEnds, CloseClient, SpuriousWakeup
  <2>3. /\ \A v \in Worker : wpc'[v] \in {"waiting", "sleep"} => wpc'[v] = wpc[v]
        /\ \A v \in Worker : wpc[v] \in {"lock", "check", "woken"} =>
                             wpc'[v] \in {"lock", "check", "woken"}
    BY <1>t, <2>2
  <2> QED
    BY <2>1, <2>3, SleepFrame
<1>7. ASSUME \/ \E c \in Conn : Connect(c) \/ Send(c) \/ Disconnect(c)
             \/ AcceptLoop \/ Accept \/ AcceptFails \/ NoTaskMemory \/ Submit
             \/ JoinAccept \/ CleanupSessions \/ StopSignal \/ UNCHANGED vars
      PROVE  UNCHANGED <<wpc, queue, shutdown>>
  BY <1>7 DEF Connect, Send, Disconnect, AcceptLoop, Accept, AcceptFails, NoTaskMemory, Submit,
       JoinAccept, CleanupSessions, StopSignal, vars, pool
<1> QED
  BY <1>1, <1>2, <1>3, <1>4, <1>5, <1>6, <1>7 DEF Next, AcceptStep, MainStep, WorkerStep

\* One pthread_cond_signal per task_queue_push is enough for any number of
\* workers: none sleeps while there is work that nobody is coming for.
THEOREM NoLostWakeup == Spec => []SleepersNotNeeded
<1>1. Init => SleepInv
  <2>1. Init => \A w \in Worker : wpc[w] = "lock"
    BY DEF Init
  <2> QED
    BY <2>1 DEF SleepInv, SleepersNotNeeded
<1>2. SleepInv => SleepersNotNeeded
  BY DEF SleepInv
<1> QED
  BY <1>1, <1>2, NextSleep, Base, PTL DEF Spec

(***************************************************************************)
(* Owners of connections                                                   *)
(***************************************************************************)
Queued(c) == \E i \in 1 .. Len(queue) : queue[i] = c
Served(c) == \E w \in Worker : task[w] = c

\* The queue holds open connections that nobody else has, each of them once.
QueueOwns ==
  /\ \A i, j \in 1 .. Len(queue) : queue[i] = queue[j] => i = j
  /\ \A i \in 1 .. Len(queue) :
       conn[queue[i]] = "open" /\ queue[i] # client /\ ~ Served(queue[i])

\* So do the workers, and so does the accept thread.
HandsOwn ==
  /\ \A w \in Worker : task[w] # NoOne => conn[task[w]] = "open" /\ task[w] # client
  /\ \A v, w \in Worker : task[v] = task[w] /\ task[v] # NoOne => v = w
  /\ client # NoOne => conn[client] = "open"

\* Until the process ends every open connection is in somebody's hands.
NoneLost ==
  mpc # "done" =>
    \A c \in Conn : conn[c] = "open" => client = c \/ Queued(c) \/ Served(c)

OwnInv == QueueOwns /\ HandsOwn /\ NoneLost

\* Steps that pass no connection on.
LEMMA OwnFrame ==
  ASSUME OwnInv, BaseInv, BaseInv', UNCHANGED <<queue, task, client>>,
         mpc = "done" => mpc' = "done",
         \A c \in Conn : conn'[c] = "open" <=> conn[c] = "open"
  PROVE  OwnInv'
<1>1. \A i \in 1 .. Len(queue) : queue[i] \in Conn
  BY DEF BaseInv, TypeOK
<1>2. \A w \in Worker : task[w] # NoOne => task[w] \in Conn
  BY DEF BaseInv, TypeOK
<1>3. client # NoOne => client \in Conn
  BY DEF BaseInv, TypeOK
<1>4. \A c : (Queued(c)' <=> Queued(c)) /\ (Served(c)' <=> Served(c))
  BY DEF Queued, Served
<1>5. QueueOwns'
  BY <1>1, <1>4 DEF OwnInv, QueueOwns, Served
<1>6. HandsOwn'
  BY <1>2, <1>3 DEF OwnInv, HandsOwn
<1>7. NoneLost'
  BY <1>4 DEF OwnInv, NoneLost
<1> QED
  BY <1>5, <1>6, <1>7 DEF OwnInv

\* transport_close_client in the accept thread.
LEMMA OwnGiveUp ==
  ASSUME OwnInv, BaseInv, GiveUpClient, client \in Conn, UNCHANGED <<queue, task, mpc>>
  PROVE  OwnInv'
<1>1. client' = NoOne /\ \A c \in Conn : conn'[c] = IF c = client THEN "closed" ELSE conn[c]
  BY DEF GiveUpClient, BaseInv, TypeOK
<1>2. \A i \in 1 .. Len(queue) : queue[i] \in Conn /\ queue[i] # NoOne
  BY CoreAssumption DEF BaseInv, TypeOK
<1>3. \A w \in Worker : task[w] # NoOne => task[w] \in Conn
  BY DEF BaseInv, TypeOK
<1>4. QueueOwns'
  BY <1>1, <1>2 DEF OwnInv, QueueOwns, Served
<1>5. HandsOwn'
  BY <1>1, <1>3 DEF OwnInv, HandsOwn
<1>6. NoneLost'
  BY <1>1 DEF OwnInv, NoneLost, Queued, Served
<1> QED
  BY <1>4, <1>5, <1>6 DEF OwnInv

\* A connection is accepted.
LEMMA OwnAccept ==
  ASSUME OwnInv, BaseInv, Accept
  PROVE  OwnInv'
<1>1. PICK c \in Conn : /\ conn[c] = "backlog" /\ conn' = [conn EXCEPT ![c] = "open"]
                        /\ client' = c
  BY DEF Accept
<1>2. UNCHANGED <<queue, task, mpc>> /\ client = NoOne
  BY DEF Accept, pool, BaseInv, HandsOK
<1>3. \A d \in Conn : conn'[d] = IF d = c THEN "open" ELSE conn[d]
  BY <1>1 DEF BaseInv, TypeOK
<1>4. \A i \in 1 .. Len(queue) : queue[i] \in Conn
  BY DEF BaseInv, TypeOK
<1>5. \A w \in Worker : task[w] # NoOne => task[w] \in Conn
  BY DEF BaseInv, TypeOK
<1>6. QueueOwns'
  BY <1>1, <1>2, <1>3, <1>4 DEF OwnInv, QueueOwns, Served
<1>7. HandsOwn'
  BY <1>1, <1>2, <1>3, <1>5 DEF OwnInv, HandsOwn
<1>8. NoneLost'
  BY <1>1, <1>2, <1>3, CoreAssumption DEF OwnInv, NoneLost, Queued, Served
<1> QED
  BY <1>6, <1>7, <1>8 DEF OwnInv

\* It is queued.
LEMMA OwnPush ==
  ASSUME OwnInv, BaseInv, BaseInv', client \in Conn, queue' = Append(queue, client),
         client' = NoOne, UNCHANGED <<task, mpc, conn>>
  PROVE  OwnInv'
<1>1. queue \in Seq(Conn) /\ client # NoOne
  BY CoreAssumption DEF BaseInv, TypeOK
<1>2. /\ Len(queue') = Len(queue) + 1 /\ Len(queue) \in Nat
      /\ \A i \in 1 .. Len(queue) : queue'[i] = queue[i]
      /\ queue'[Len(queue) + 1] = client
  BY <1>1, AppendProperties, LenProperties
<1>3. \A i \in 1 .. Len(queue') : i \in 1 .. Len(queue) \/ (i = Len(queue) + 1 /\ queue'[i] = client)
  BY <1>2
<1>4. \A i \in 1 .. Len(queue) : queue[i] \in Conn /\ queue[i] # NoOne
  BY <1>1, CoreAssumption
<1>5. \A c : Served(c)' <=> Served(c)
  BY DEF Served
<1>6. ~ Served(client) /\ conn[client] = "open"
  BY <1>1 DEF OwnInv, HandsOwn, Served
<1>7. QueueOwns'
  <2>1. \A i, j \in 1 .. Len(queue') : queue'[i] = queue'[j] => i = j
    BY <1>2, <1>3 DEF OwnInv, QueueOwns
  <2>2. ASSUME NEW i \in 1 .. Len(queue')
        PROVE  conn'[queue'[i]] = "open" /\ queue'[i] # client' /\ ~ Served(queue'[i])
    BY <1>1, <1>2, <1>3, <1>4, <1>6 DEF OwnInv, QueueOwns
  <2> QED
    BY <2>1, <2>2 DEF QueueOwns, Served
<1>8. HandsOwn'
  BY DEF OwnInv, HandsOwn
<1>9. ASSUME NEW c \in Conn, Queued(c) \/ client = c PROVE Queued(c)'
  <2>1. CASE client = c
    BY <1>2, <2>1 DEF Queued
  <2>2. CASE Queued(c)
    BY <1>2, <2>2 DEF Queued
  <2> QED
    BY <1>9, <2>1, <2>2
<1>10. NoneLost'
  BY <1>5, <1>9 DEF OwnInv, NoneLost
<1> QED
  BY <1>7, <1>8, <1>10 DEF OwnInv

\* A worker takes it from the queue.
LEMMA OwnPop ==
  ASSUME OwnInv, BaseInv, NEW w \in Worker, task[w] = NoOne, queue # <<>>,
         task' = [task EXCEPT ![w] = Head(queue)], queue' = Tail(queue),
         UNCHANGED <<client, mpc, conn>>
  PROVE  OwnInv'
<1>1. queue \in Seq(Conn)
  BY DEF BaseInv, TypeOK
<1>2. /\ Len(queue) \in Nat /\ Len(queue) >= 1 /\ Len(queue') = Len(queue) - 1
      /\ \A i \in 1 .. Len(queue') : queue'[i] = queue[i + 1]
      /\ Head(queue) = queue[1]
  BY <1>1
<1>3. \A i \in 1 .. Len(queue') : i + 1 \in 1 .. Len(queue) /\ i + 1 # 1
  BY <1>2
<1>4. queue[1] \in Conn /\ queue[1] # NoOne
  BY <1>1, <1>2, CoreAssumption
<1>5. \A v \in Worker : task'[v] = IF v = w THEN queue[1] ELSE task[v]
  BY <1>2 DEF BaseInv, TypeOK
<1>6. QueueOwns'
  <2>1. \A i, j \in 1 .. Len(queue') : queue'[i] = queue'[j] => i = j
    <3> SUFFICES ASSUME NEW i \in 1 .. Len(queue'), NEW j \in 1 .. Len(queue'), queue'[i] = queue'[j]
                 PROVE  i = j
      OBVIOUS
    <3>1. i + 1 = j + 1
      BY <1>2, <1>3 DEF OwnInv, QueueOwns
    <3> QED
      BY <1>2, <3>1
  <2>2. ASSUME NEW i \in 1 .. Len(queue')
        PROVE  /\ conn'[queue'[i]] = "open" /\ queue'[i] # client'
               /\ \A v \in Worker : task'[v] # queue'[i]
    <3>1. queue'[i] = queue[i + 1] /\ i + 1 \in 1 .. Len(queue) /\ 1 \in 1 .. Len(queue) /\ i + 1 # 1
      BY <1>2, <1>3
    <3>2. queue[1] # queue[i + 1]
      BY <3>1 DEF OwnInv, QueueOwns
    <3> QED
      BY <1>5, <3>1, <3>2 DEF OwnInv, QueueOwns, Served
  <2> QED
    BY <2>1, <2>2 DEF QueueOwns, Served
<1>7. 1 \in 1 .. Len(queue) /\ conn[queue[1]] = "open" /\ queue[1] # client /\ \A v \in Worker : task[v] # queue[1]
  BY <1>2 DEF OwnInv, QueueOwns, Served
<1>8. HandsOwn'
  BY <1>4, <1>5, <1>7 DEF OwnInv, HandsOwn
<1>9. NoneLost'
  <2> SUFFICES ASSUME NEW c \in Conn, mpc # "done", conn[c] = "open"
               PROVE  client = c \/ Queued(c)' \/ Served(c)'
    BY DEF NoneLost
  <2>1. CASE client = c
    BY <2>1
  <2>2. CASE Served(c)
    <3>1. PICK v \in Worker : task[v] = c
      BY <2>2 DEF Served
    <3>2. v # w /\ task'[v] = c
      BY <1>5, <3>1, CoreAssumption
    <3> QED
      BY <3>2 DEF Served
  <2>3. CASE Queued(c)
    <3>1. PICK i \in 1 .. Len(queue) : queue[i] = c
      BY <2>3 DEF Queued
    <3>2. CASE i = 1
      BY <1>5, <3>1, <3>2 DEF Served
    <3>3. CASE i # 1
      <4>1. i - 1 \in 1 .. Len(queue') /\ (i - 1) + 1 = i
        BY <1>2, <3>3
      <4>2. queue'[i - 1] = c
        BY <1>2, <3>1, <4>1
      <4> QED
        BY <4>1, <4>2 DEF Queued
    <3> QED
      BY <3>2, <3>3
  <2> QED
    BY <2>1, <2>2, <2>3 DEF OwnInv, NoneLost
<1> QED
  BY <1>6, <1>8, <1>9 DEF OwnInv

\* The worker closes it.
LEMMA OwnClose ==
  ASSUME OwnInv, BaseInv, NEW w \in Worker, CloseClient(w)
  PROVE  OwnInv'
<1>1. /\ task[w] \in Conn /\ task[w] # NoOne /\ UNCHANGED <<queue, client, mpc>>
      /\ \A c \in Conn : conn'[c] = IF c = task[w] THEN "closed" ELSE conn[c]
      /\ \A v \in Worker : task'[v] = IF v = w THEN NoOne ELSE task[v]
  BY DEF CloseClient, pool, BaseInv, TypeOK, HandsOK
<1>2. \A i \in 1 .. Len(queue) : queue[i] \in Conn /\ queue[i] # NoOne
  BY CoreAssumption DEF BaseInv, TypeOK
<1>3. /\ \A v \in Worker : task[v] # NoOne => task[v] \in Conn
      /\ client # NoOne => client \in Conn
  BY DEF BaseInv, TypeOK
<1>4. QueueOwns'
  BY <1>1, <1>2 DEF OwnInv, QueueOwns, Served
<1>5. HandsOwn'
  BY <1>1, <1>3 DEF OwnInv, HandsOwn
<1>6. NoneLost'
  BY <1>1 DEF OwnInv, NoneLost, Queued, Served
<1> QED
  BY <1>4, <1>5, <1>6 DEF OwnInv

\* Every step keeps the invariant.
LEMMA NextOwn == OwnInv /\ BaseInv /\ BaseInv' /\ [Next]_vars => OwnInv'
<1> SUFFICES ASSUME OwnInv, BaseInv, BaseInv', [Next]_vars PROVE OwnInv'
  OBVIOUS
<1>a. apc \in {"submit", "push"} => client \in Conn
  BY DEF BaseInv, TypeOK, HandsOK
<1>1. ASSUME NEW c \in Conn, Connect(c) PROVE OwnInv'
  <2>1. UNCHANGED <<queue, task, client, mpc>>
    BY <1>1 DEF Connect, pool
  <2>2. \A d \in Conn : conn'[d] = "open" <=> conn[d] = "open"
    BY <1>1 DEF Connect, BaseInv, TypeOK
  <2> QED
    BY <2>1, <2>2, OwnFrame
<1>2. ASSUME \/ \E c \in Conn : Send(c) \/ Disconnect(c)
             \/ AcceptLoop \/ AcceptFails
             \/ JoinAccept \/ CleanupSessions \/ SetShutdown \/ Broadcast \/ StopSignal
             \/ \E w \in Worker : \/ TakeMutex(w) \/ Sleep(w) \/ ServeLoop(w)
                                  \/ HandleRequest(w) \/ RecvEnds(w) \/ SpuriousWakeup(w)
             \/ UNCHANGED vars
      PROVE  OwnInv'
  <2>1. UNCHANGED <<queue, task, client, conn>> /\ (mpc = "done" => mpc' = "done")
    BY <1>2 DEF Send, Disconnect, AcceptLoop, AcceptFails, JoinAccept, CleanupSessions, SetShutdown,
         Broadcast, StopSignal, TakeMutex, Sleep, ServeLoop, HandleRequest, RecvEnds, SpuriousWakeup,
         vars, pool, net
  <2> QED
    BY <2>1, OwnFrame
<1>3. CASE NoTaskMemory
  <2>1. apc = "submit" /\ GiveUpClient /\ UNCHANGED <<queue, task, mpc>>
    BY <1>3 DEF NoTaskMemory, pool
  <2> QED
    BY <1>a, <2>1, OwnGiveUp
<1>4. CASE Submit
  <2>1. apc = "submit" /\ UNCHANGED <<queue, task, mpc>>
    BY <1>4 DEF Submit
  <2>2. GiveUpClient \/ UNCHANGED <<client, conn>>
    BY <1>4 DEF Submit, net
  <2>3. CASE GiveUpClient
    BY <1>a, <2>1, <2>3, OwnGiveUp
  <2>4. CASE UNCHANGED <<client, conn>>
    BY <2>1, <2>4, OwnFrame
  <2> QED
    BY <2>2, <2>3, <2>4
<1>5. CASE Push
  <2>1. apc = "push" /\ UNCHANGED <<task, mpc>>
    BY <1>5 DEF Push
  <2>2. \/ queue' = Append(queue, client) /\ client' = NoOne /\ conn' = conn
        \/ GiveUpClient /\ queue' = queue
    BY <1>5 DEF Push, net
  <2>3. CASE queue' = Append(queue, client) /\ client' = NoOne /\ conn' = conn
    BY <1>a, <2>1, <2>3, OwnPush
  <2>4. CASE GiveUpClient /\ queue' = queue
    BY <1>a, <2>1, <2>4, OwnGiveUp
  <2> QED
    BY <2>2, <2>3, <2>4
<1>6. ASSUME NEW w \in Worker, Check(w) PROVE OwnInv'
  <2>1. UNCHANGED <<client, mpc, conn>> /\ task[w] = NoOne
    BY <1>6 DEF Check, net, BaseInv, HandsOK
  <2>2. \/ UNCHANGED <<queue, task>>
        \/ queue # <<>> /\ task' = [task EXCEPT ![w] = Head(queue)] /\ queue' = Tail(queue)
    BY <1>6 DEF Check
  <2>3. CASE UNCHANGED <<queue, task>>
    BY <2>1, <2>3, OwnFrame
  <2>4. CASE queue # <<>> /\ task' = [task EXCEPT ![w] = Head(queue)] /\ queue' = Tail(queue)
    BY <2>1, <2>4, OwnPop
  <2> QED
    BY <2>2, <2>3, <2>4
<1>7. CASE FinishDestroy
  <2>1. UNCHANGED <<task, client, conn>> /\ queue' = <<>> /\ mpc' = "done"
    BY <1>7 DEF FinishDestroy, net
  <2>2. Len(queue') = 0
    BY <2>1
  <2>3. QueueOwns'
    BY <2>2 DEF QueueOwns
  <2> QED
    BY <2>1, <2>3 DEF OwnInv, HandsOwn, NoneLost
<1> QED
  BY <1>1, <1>2, <1>3, <1>4, <1>5, <1>6, <1>7, OwnAccept, OwnClose
     DEF Next, AcceptStep, MainStep, WorkerStep

\* At the start there are no connections.
LEMMA InitOwn == Init => OwnInv
<1> SUFFICES ASSUME Init PROVE OwnInv
  OBVIOUS
<1>1. Len(queue) = 0
  BY DEF Init
<1>2. QueueOwns
  BY <1>1 DEF QueueOwns
<1> QED
  BY <1>2 DEF Init, OwnInv, HandsOwn, NoneLost

\* Connections are owned as described in every state.
LEMMA Own == Spec => []OwnInv
BY InitOwn, NextOwn, Base, PTL DEF Spec

\* Accept, submit, every failure and the service of a connection pass it from
\* hand to hand: one owner while it is open, none afterwards.
THEOREM ConnectionHasOneOwner == Spec => []OneOwner
<1>1. BaseInv /\ OwnInv => OneOwner
  <2> SUFFICES ASSUME BaseInv, OwnInv, NEW c \in Conn
               PROVE  Cardinality(Owners(c)) = IF conn[c] = "open" /\ mpc # "done" THEN 1 ELSE 0
    BY DEF OneOwner
  <2>0. c # NoOne
    BY CoreAssumption
  <2>1. ASSUME ~ Queued(c), ~ Served(c), client # c PROVE Cardinality(Owners(c)) = 0
    <3>1. Owners(c) = {}
      BY <2>1 DEF Owners, Queued, Served
    <3> QED
      BY <3>1, FS_EmptySet
  <2>2. CASE conn[c] # "open"
    <3>1. ~ Queued(c) /\ ~ Served(c) /\ client # c
      BY <2>0, <2>2 DEF OwnInv, QueueOwns, HandsOwn, Queued, Served
    <3> QED
      BY <2>1, <2>2, <3>1
  <2>3. CASE mpc = "done"
    <3>1. /\ queue = <<>> /\ client # c
          /\ \A w \in Worker : task[w] # c
      BY <2>0, <2>3 DEF BaseInv, StopOK, HandsOK
    <3>2. Len(queue) = 0
      BY <3>1
    <3>3. ~ Queued(c) /\ ~ Served(c)
      BY <3>1, <3>2 DEF Queued, Served
    <3> QED
      BY <2>1, <2>3, <3>1, <3>3
  <2>4. CASE conn[c] = "open" /\ mpc # "done"
    <3> SUFFICES \E x : Owners(c) = {x}
      BY <2>4, FS_Singleton
    <3>1. CASE client = c
      <4>1. ~ Queued(c) /\ ~ Served(c)
        BY <2>0, <3>1 DEF OwnInv, QueueOwns, HandsOwn, Queued, Served
      <4>2. Owners(c) = {<<"accept", 0>>}
        BY <3>1, <4>1 DEF Owners, Queued, Served
      <4> QED
        BY <4>2
    <3>2. CASE Queued(c)
      <4>1. PICK i \in 1 .. Len(queue) : queue[i] = c
        BY <3>2 DEF Queued
      <4>2. /\ \A j \in 1 .. Len(queue) : queue[j] = c <=> j = i
            /\ client # c /\ \A w \in Worker : task[w] # c
        BY <4>1 DEF OwnInv, QueueOwns, Served
      <4>3. Owners(c) = {<<"queue", i>>}
        BY <4>1, <4>2 DEF Owners
      <4> QED
        BY <4>3
    <3>3. CASE Served(c)
      <4>1. PICK w \in Worker : task[w] = c
        BY <3>3 DEF Served
      <4>2. /\ \A v \in Worker : task[v] = c <=> v = w
            /\ client # c /\ \A j \in 1 .. Len(queue) : queue[j] # c
        BY <2>0, <4>1 DEF OwnInv, QueueOwns, HandsOwn, Served
      <4>3. Owners(c) = {<<"worker", w>>}
        BY <4>1, <4>2 DEF Owners
      <4> QED
        BY <4>3
    <3> QED
      BY <2>4, <3>1, <3>2, <3>3 DEF OwnInv, NoneLost
  <2> QED
    BY <2>2, <2>3, <2>4
<1> QED
  BY <1>1, Own, Base, PTL

(***************************************************************************)
(* What the base invariant says by itself                                  *)
(***************************************************************************)

\* Type correctness.  That no more requests are handled than were sent is not
\* a matter of types: it rests on HandledOK.
THEOREM TypeCorrect == Spec => []TypeOK
<1>1. BaseInv => TypeOK
  BY DEF BaseInv
<1> QED
  BY <1>1, Base, PTL

\* Once thread_pool_destroy has set its flag the accept thread is gone and
\* holds nothing.
THEOREM PoolTakesNoMore == Spec => []NoSubmitToDyingPool
<1>1. BaseInv => NoSubmitToDyingPool
  BY DEF BaseInv, HandsOK, StopOK, NoSubmitToDyingPool
<1> QED
  BY <1>1, Base, PTL
=============================================================================
