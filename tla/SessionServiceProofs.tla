------------------------ MODULE SessionServiceProofs ------------------------
(***************************************************************************)
(* Session ids, and what follows from them.  Until the 32-bit counter has  *)
(* gone round once, an id names one session; so key handles are distinct,  *)
(* and every step of the registry is a step of SessionService or invisible *)
(* to its clients, for any number of sessions and workers.                 *)
(***************************************************************************)
EXTENDS SessionManagerProofs

-----------------------------------------------------------------------------
(* Session ids are handed out in order *)

\* Keys hang off allocated sessions only.  While n sessions have been opened
\* the counter is at n + 1, having wrapped to 0 at the last id; the ids given
\* out are among 1 .. n, and they are distinct up to and including the session
\* that gets the id 0.
IdInv ==
  LET n == Cardinality(Allocated) IN
  /\ IsFiniteSet(Allocated)
  /\ \A c \in Cell : keys[c] # {} => mem[c] = "live"
  /\ n + 1 < IdModulus => next_session_id = n + 1
  /\ n + 1 = IdModulus => next_session_id = 0
  /\ n < IdModulus => \A c \in Allocated : session_id[c] \in 1 .. n
  /\ n <= IdModulus =>
       \A c, d \in Allocated : session_id[c] = session_id[d] => c = d

\* Counting modulo m, below m and at m.
LEMMA SmallMod ==
  ASSUME NEW m \in Nat \ {0}
  PROVE  m % m = 0 /\ \A x \in 0 .. m - 1 : x % m = x
OBVIOUS

\* No session is open before the first request.
LEMMA InitIds == Init => IdInv
<1> SUFFICES ASSUME Init PROVE IdInv
  OBVIOUS
<1>1. Allocated = {}
  BY DEF Init, Allocated
<1>2. IsFiniteSet(Allocated) /\ Cardinality(Allocated) = 0
  BY <1>1, FS_EmptySet
<1>3. /\ 1 < IdModulus => next_session_id = 1
      /\ 1 = IdModulus => next_session_id = 0
  BY SessionAssumption, SmallMod DEF Init
<1>4. \A c \in Cell : keys[c] = {}
  BY DEF Init
<1> QED
  BY <1>1, <1>2, <1>3, <1>4 DEF IdInv

\* The cells ever allocated: create_session adds one, nothing removes any.
LEMMA AllocatedStep ==
  ASSUME IndInv, [Next]_vars
  PROVE  \/ /\ Allocated' = Allocated
            /\ UNCHANGED <<session_id, next_session_id>>
         \/ \E t \in Thread : CreateSession(t)
<1>t. /\ mem \in [Cell -> {"none", "live", "freed"}]
      /\ PointersOK /\ ZeroIsFinal /\ HeldSessionIsLive
  BY DEF IndInv, TypeOK
<1>1. ASSUME UNCHANGED <<mem, session_id, next_session_id>>
      PROVE  Allocated' = Allocated /\ UNCHANGED <<session_id, next_session_id>>
  BY <1>1 DEF Allocated
<1>2. ASSUME NEW c \in Cell, mem[c] # "none", FreeSession(c) \/ UNCHANGED mem,
             UNCHANGED <<session_id, next_session_id>>
      PROVE  Allocated' = Allocated /\ UNCHANGED <<session_id, next_session_id>>
  BY <1>t, <1>2 DEF Allocated, FreeSession
<1>3. ASSUME NEW t \in Thread, PutFree(t)
      PROVE  Allocated' = Allocated /\ UNCHANGED <<session_id, next_session_id>>
  <2>1. pc[t] = "putting" /\ session[t] \in Cell
    BY <1>t, <1>3 DEF PutFree, PointersOK
  <2>2. UNCHANGED <<session_id, next_session_id>>
    BY <1>3 DEF PutFree, registry
  <2>3. CASE final_ref_count[t] <= 0 /\ ~ active[session[t]]
    <3>1. mem[session[t]] # "none"
      BY <1>t, <2>1, <2>3 DEF ZeroIsFinal, SawZero
    <3>2. FreeSession(session[t])
      BY <1>3, <2>3 DEF PutFree
    <3> QED
      BY <1>2, <2>1, <2>2, <3>1, <3>2
  <2>4. CASE ~ (final_ref_count[t] <= 0 /\ ~ active[session[t]])
    BY <1>1, <1>3, <2>2, <2>4 DEF PutFree
  <2> QED
    BY <2>3, <2>4
<1>4. ASSUME NEW t \in Thread, CloseFinish(t)
      PROVE  Allocated' = Allocated /\ UNCHANGED <<session_id, next_session_id>>
  <2>1. pc[t] = "closing" /\ session[t] \in Cell /\ mem[session[t]] # "none"
    BY <1>t, <1>4 DEF CloseFinish, PointersOK
  <2>2. UNCHANGED <<session_id, next_session_id>>
    BY <1>4 DEF CloseFinish
  <2>3. FreeSession(session[t]) \/ UNCHANGED mem
    BY <1>4 DEF CloseFinish
  <2> QED
    BY <1>2, <2>1, <2>2, <2>3
<1>5. ASSUME NEW t \in Thread,
             \/ \E id \in Id : \/ ValidateSession(t, id) \/ CloseSession(t, id)
                               \/ CloseUnknown(t, id)
             \/ GetFirst(t) \/ GetValidated(t) \/ CreateKey(t) \/ DestroyKey(t)
             \/ PutSession(t)
      PROVE  UNCHANGED <<mem, session_id, next_session_id>>
  BY <1>5 DEF ValidateSession, CloseSession, CloseUnknown, GetFirst, GetValidated,
       GetSession, CreateKey, DestroyKey, PutSession, vars, fields, registry
<1>6. ASSUME UNCHANGED vars
      PROVE  UNCHANGED <<mem, session_id, next_session_id>>
  BY <1>6 DEF vars, fields, registry
<1> QED
  BY <1>1, <1>3, <1>4, <1>5, <1>6 DEF Next

\* A new session gets the next id, which no session has had.
LEMMA CreateIds ==
  ASSUME IndInv, IdInv, NEW t \in Thread, CreateSession(t)
  PROVE  IdInv'
<1> DEFINE n == Cardinality(Allocated)
<1>t. /\ mem \in [Cell -> {"none", "live", "freed"}] /\ session_id \in [Cell -> Id]
  BY DEF IndInv, TypeOK
<1>1. PICK c \in Cell :
        /\ mem[c] = "none"
        /\ mem' = [mem EXCEPT ![c] = "live"]
        /\ session_id' = [session_id EXCEPT ![c] = next_session_id]
  BY DEF CreateSession
<1>2. keys' = keys /\ next_session_id' = (next_session_id + 1) % IdModulus
  BY DEF CreateSession
<1>3. c \notin Allocated /\ Allocated' = Allocated \cup {c}
  BY <1>t, <1>1 DEF Allocated
<1>4. IsFiniteSet(Allocated) /\ n \in Nat
  BY FS_CardinalityType DEF IdInv
<1>5. IsFiniteSet(Allocated') /\ Cardinality(Allocated') = n + 1
  BY <1>3, <1>4, FS_AddElement
<1>6. \A d \in Allocated : d \in Cell /\ d # c /\ session_id'[d] = session_id[d]
  BY <1>t, <1>1, <1>3 DEF Allocated
<1>7. session_id'[c] = next_session_id
  BY <1>t, <1>1
<1>i. /\ n + 1 < IdModulus => next_session_id = n + 1
      /\ n + 1 = IdModulus => next_session_id = 0
      /\ n < IdModulus => \A d \in Allocated : session_id[d] \in 1 .. n
      /\ n <= IdModulus =>
           \A d, e \in Allocated : session_id[d] = session_id[e] => d = e
  BY DEF IdInv
<1> HIDE DEF n
<1>m. IdModulus \in Nat \ {0}
  BY SessionAssumption
<1>8. \A d \in Cell : keys'[d] # {} => mem'[d] = "live"
  BY <1>t, <1>1, <1>2 DEF IdInv
<1>9. /\ n + 2 < IdModulus => next_session_id' = n + 2
      /\ n + 2 = IdModulus => next_session_id' = 0
  <2>1. CASE n + 2 < IdModulus
    <3>1. next_session_id + 1 = n + 2 /\ n + 2 \in 0 .. IdModulus - 1
      BY <1>4, <1>i, <1>m, <2>1
    <3> QED
      BY <1>2, <1>4, <1>m, <2>1, <3>1, SmallMod
  <2>2. CASE n + 2 = IdModulus
    <3>1. next_session_id + 1 = IdModulus
      BY <1>4, <1>i, <1>m, <2>2
    <3> QED
      BY <1>2, <1>4, <1>m, <2>2, <3>1, SmallMod
  <2> QED
    BY <1>4, <1>m, <2>1, <2>2
<1>10. n + 1 < IdModulus => \A d \in Allocated' : session_id'[d] \in 1 .. n + 1
  BY <1>3, <1>4, <1>6, <1>7, <1>i, <1>m
<1>11. n + 1 <= IdModulus =>
         \A d, e \in Allocated' : session_id'[d] = session_id'[e] => d = e
  <2> SUFFICES ASSUME n + 1 <= IdModulus, NEW d \in Allocated', NEW e \in Allocated',
                      session_id'[d] = session_id'[e]
               PROVE  d = e
    OBVIOUS
  <2>1. \A a \in Allocated : session_id[a] # next_session_id
    BY <1>4, <1>i, <1>m
  <2> QED
    BY <1>3, <1>4, <1>6, <1>7, <1>i, <1>m, <2>1
<1>12. (n + 1) + 1 = n + 2
  BY <1>4
<1> QED
  BY <1>5, <1>8, <1>9, <1>10, <1>11, <1>12 DEF IdInv

\* Only sessions in use gain keys, and a session loses its keys when freed.
LEMMA KeysStep ==
  ASSUME IndInv, IdInv, [Next]_vars, ~ \E t \in Thread : CreateSession(t)
  PROVE  \A c \in Cell : keys'[c] # {} => mem'[c] = "live"
<1>t. /\ mem \in [Cell -> {"none", "live", "freed"}]
      /\ keys \in [Cell -> SUBSET (1 .. MaxKeys)]
      /\ PointersOK /\ HeldSessionIsLive
      /\ \A c \in Cell : keys[c] # {} => mem[c] = "live"
  BY DEF IndInv, TypeOK, IdInv
<1>1. ASSUME UNCHANGED <<mem, keys>>
      PROVE  \A c \in Cell : keys'[c] # {} => mem'[c] = "live"
  BY <1>t, <1>1
<1>2. ASSUME NEW d \in Cell, FreeSession(d)
      PROVE  \A c \in Cell : keys'[c] # {} => mem'[c] = "live"
  BY <1>t, <1>2 DEF FreeSession
<1>3. ASSUME NEW t \in Thread, CreateKey(t) \/ DestroyKey(t)
      PROVE  \A c \in Cell : keys'[c] # {} => mem'[c] = "live"
  <2>1. session[t] \in Cell /\ mem[session[t]] = "live" /\ mem' = mem
    BY <1>t, <1>3 DEF CreateKey, DestroyKey, PointersOK, HeldSessionIsLive
  <2>2. \A c \in Cell : c # session[t] => keys'[c] = keys[c]
    BY <1>t, <1>3 DEF CreateKey, DestroyKey
  <2> QED
    BY <1>t, <2>1, <2>2
<1>4. ASSUME NEW t \in Thread, PutFree(t) \/ CloseFinish(t)
      PROVE  \A c \in Cell : keys'[c] # {} => mem'[c] = "live"
  <2>1. session[t] \in Cell
    BY <1>t, <1>4 DEF PutFree, CloseFinish, PointersOK
  <2>2. FreeSession(session[t]) \/ UNCHANGED <<mem, keys>>
    BY <1>4 DEF PutFree, CloseFinish
  <2> QED
    BY <1>1, <1>2, <2>1, <2>2
<1>5. ASSUME NEW t \in Thread,
             \/ \E id \in Id : \/ ValidateSession(t, id) \/ CloseSession(t, id)
                               \/ CloseUnknown(t, id)
             \/ GetFirst(t) \/ GetValidated(t) \/ PutSession(t)
      PROVE  UNCHANGED <<mem, keys>>
  BY <1>5 DEF ValidateSession, CloseSession, CloseUnknown, GetFirst, GetValidated,
       GetSession, PutSession, vars, fields
<1>6. ASSUME UNCHANGED vars
      PROVE  UNCHANGED <<mem, keys>>
  BY <1>6 DEF vars, fields
<1> QED
  BY <1>1, <1>3, <1>4, <1>5, <1>6 DEF Next

\* Every step keeps the numbering.
LEMMA NextIds == IndInv /\ IdInv /\ [Next]_vars => IdInv'
<1> SUFFICES ASSUME IndInv, IdInv, [Next]_vars PROVE IdInv'
  OBVIOUS
<1>1. CASE \E t \in Thread : CreateSession(t)
  BY <1>1, CreateIds
<1>2. CASE ~ \E t \in Thread : CreateSession(t)
  <2>1. Allocated' = Allocated /\ UNCHANGED <<session_id, next_session_id>>
    BY <1>2, AllocatedStep
  <2>2. \A c \in Cell : keys'[c] # {} => mem'[c] = "live"
    BY <1>2, KeysStep
  <2> QED
    BY <2>1, <2>2 DEF IdInv
<1> QED
  BY <1>1, <1>2

\* Ids are handed out in order throughout every behaviour.
LEMMA SpecIds == Spec => []IdInv
BY InitIds, NextIds, SpecIndInv, PTL DEF Spec

\* Until the ids have wrapped around, a key handle names one key: no two
\* sessions that hold keys, closed ones included, share a handle.
THEOREM KeyHandlesUnique == Spec => [](NotWrapped => KeyHandlesDistinct)
<1>1. IndInv /\ IdInv => (NotWrapped => KeyHandlesDistinct)
  <2> SUFFICES ASSUME IndInv, IdInv, NotWrapped, NEW c \in Cell, NEW d \in Cell,
                      NEW m \in keys[c], NEW n \in keys[d],
                      KeyHandle(c, m) = KeyHandle(d, n)
               PROVE  c = d
    BY DEF KeyHandlesDistinct
  <2>1. session_id[c] = session_id[d]
    BY DEF KeyHandle
  <2>2. c \in Allocated /\ d \in Allocated
    BY DEF IdInv, Allocated
  <2> QED
    BY <2>1, <2>2 DEF IdInv, NotWrapped
<1> QED
  BY <1>1, SpecIndInv, SpecIds, PTL

-----------------------------------------------------------------------------
(* Steps of the registry as steps of SessionService *)

\* Where a session is in its life, as a client of SessionService sees it.
Phase(c) ==
  CASE mem[c] = "freed" -> "gone"
    [] mem[c] = "live" /\ active[c] -> "open"
    [] OTHER -> "closed"

\* Until ids wrap around, a handle shows the one session that owns it.
BarsOK ==
  /\ \A c, d \in Allocated : session_id[c] = session_id[d] => c = d
  /\ \A id \in Id : Owners(id) = {} => stateBar[id] = "unused" /\ keysBar[id] = {}
  /\ \A c \in Allocated : /\ stateBar[session_id[c]] = Phase(c)
                          /\ keysBar[session_id[c]] = keys[c]

\* Distinct ids make the refinement mapping pick the right session.
LEMMA BarValues == IndInv /\ IdInv /\ NotWrapped => BarsOK
<1> SUFFICES ASSUME IndInv, IdInv, NotWrapped PROVE BarsOK
  OBVIOUS
<1>1. \A c, d \in Allocated : session_id[c] = session_id[d] => c = d
  BY DEF IdInv, NotWrapped
<1>2. ASSUME NEW id \in Id, Owners(id) = {}
      PROVE  stateBar[id] = "unused" /\ keysBar[id] = {}
  BY <1>2 DEF stateBar, keysBar, HandleState
<1>3. ASSUME NEW c \in Allocated
      PROVE  stateBar[session_id[c]] = Phase(c) /\ keysBar[session_id[c]] = keys[c]
  <2>1. c \in Cell /\ session_id[c] \in Id
    BY DEF IndInv, TypeOK, Allocated
  <2>2. Owners(session_id[c]) = {c}
    BY <1>1 DEF Owners
  <2>3. (CHOOSE d \in Owners(session_id[c]) : TRUE) = c
    BY <2>2
  <2>4. stateBar[session_id[c]] = Phase(c)
    BY <2>1, <2>2, <2>3 DEF stateBar, HandleState, Phase
  <2>5. UNION {keys[d] : d \in {c}} = keys[c]
    OBVIOUS
  <2>6. keysBar[session_id[c]] = keys[c]
    BY <2>1, <2>2, <2>5 DEF keysBar
  <2> QED
    BY <2>4, <2>6
<1> QED
  BY <1>1, <1>2, <1>3 DEF BarsOK

\* Ids that have not wrapped after a step had not wrapped before it.
LEMMA NotWrappedBefore == IndInv /\ IdInv' /\ [Next]_vars /\ NotWrapped' => NotWrapped
<1> SUFFICES ASSUME IndInv, IdInv', [Next]_vars, NotWrapped' PROVE NotWrapped
  OBVIOUS
<1>1. Allocated \subseteq Allocated'
  <2>1. CASE \E t \in Thread : CreateSession(t)
    <3>1. PICK c \in Cell : mem' = [mem EXCEPT ![c] = "live"]
      BY <2>1 DEF CreateSession
    <3> QED
      BY <3>1 DEF Allocated, IndInv, TypeOK
  <2> QED
    BY <2>1, AllocatedStep
<1>2. IsFiniteSet(Allocated')
  BY DEF IdInv
<1>3. /\ Cardinality(Allocated) <= Cardinality(Allocated')
      /\ Cardinality(Allocated) \in Nat /\ Cardinality(Allocated') \in Nat
  BY <1>1, <1>2, FS_Subset, FS_CardinalityType
<1> QED
  BY <1>3, SessionAssumption DEF NotWrapped

\* A step that leaves every session but d alone changes what d's handle shows
\* and nothing else.
LEMMA OneSession ==
  ASSUME IndInv, BarsOK, BarsOK', Allocated' = Allocated, session_id' = session_id,
         NEW d \in Allocated,
         \A c \in Allocated \ {d} : Phase(c)' = Phase(c) /\ keys'[c] = keys[c]
  PROVE  /\ stateBar' = [stateBar EXCEPT ![session_id[d]] = Phase(d)']
         /\ keysBar' = [keysBar EXCEPT ![session_id[d]] = keys'[d]]
<1>1. \A c \in Allocated : c \in Cell /\ session_id[c] \in Id
  BY DEF IndInv, TypeOK, Allocated
<1>2. /\ stateBar = [id \in Id |-> stateBar[id]] /\ keysBar = [id \in Id |-> keysBar[id]]
      /\ stateBar' = [id \in Id |-> stateBar'[id]] /\ keysBar' = [id \in Id |-> keysBar'[id]]
  BY DEF stateBar, keysBar
<1>3. ASSUME NEW id \in Id, id # session_id[d]
      PROVE  stateBar'[id] = stateBar[id] /\ keysBar'[id] = keysBar[id]
  <2>1. Owners(id)' = Owners(id)
    BY DEF Owners
  <2>2. CASE Owners(id) = {}
    BY <2>1, <2>2 DEF BarsOK
  <2>3. CASE Owners(id) # {}
    <3>1. PICK c \in Allocated : session_id[c] = id
      BY <2>3 DEF Owners
    <3>2. c # d
      BY <1>3, <3>1
    <3>3. /\ stateBar[id] = Phase(c) /\ keysBar[id] = keys[c]
          /\ stateBar'[id] = Phase(c)' /\ keysBar'[id] = keys'[c]
      BY <3>1 DEF BarsOK
    <3> QED
      BY <3>2, <3>3
  <2> QED
    BY <2>2, <2>3
<1>4. stateBar'[session_id[d]] = Phase(d)' /\ keysBar'[session_id[d]] = keys'[d]
  BY DEF BarsOK
<1> HIDE DEF Id
<1>5. stateBar' = [stateBar EXCEPT ![session_id[d]] = Phase(d)']
  BY <1>1, <1>2, <1>3, <1>4
<1>6. keysBar' = [keysBar EXCEPT ![session_id[d]] = keys'[d]]
  BY <1>1, <1>2, <1>3, <1>4
<1> QED
  BY <1>5, <1>6

\* A step that changes no session leaves every handle as it was.
LEMMA NoSession ==
  ASSUME IndInv, UNCHANGED <<mem, session_id, active, keys>>
  PROVE  stateBar' = stateBar /\ keysBar' = keysBar
BY DEF stateBar, keysBar, HandleState, Owners, Allocated

\* create_session opens a handle that was never used.
LEMMA CreateIsOpen ==
  ASSUME IndInv, BarsOK, BarsOK', IdInv, NotWrapped', NEW t \in Thread, CreateSession(t)
  PROVE  Service!Next
<1>t. /\ mem \in [Cell -> {"none", "live", "freed"}] /\ session_id \in [Cell -> Id]
      /\ active \in [Cell -> BOOLEAN] /\ next_session_id \in Id
      /\ PointersOK /\ HeldSessionIsLive
  BY DEF IndInv, TypeOK
<1>1. PICK c \in Cell :
        /\ mem[c] = "none"
        /\ mem' = [mem EXCEPT ![c] = "live"]
        /\ session_id' = [session_id EXCEPT ![c] = next_session_id]
        /\ active' = [active EXCEPT ![c] = TRUE]
  BY DEF CreateSession
<1>2. UNCHANGED <<keys, pc, session>>
  BY DEF CreateSession, locals
<1>3. c \notin Allocated /\ Allocated' = Allocated \cup {c}
  BY <1>t, <1>1 DEF Allocated
<1>4. \A d \in Allocated : /\ d # c /\ d \in Cell /\ mem'[d] = mem[d]
                           /\ session_id'[d] = session_id[d] /\ active'[d] = active[d]
  BY <1>t, <1>1, <1>3 DEF Allocated
<1>5. session_id'[c] = next_session_id /\ mem'[c] = "live" /\ active'[c]
  BY <1>t, <1>1
<1>6. Owners(next_session_id) = {}
  BY <1>3, <1>4, <1>5 DEF Owners, BarsOK
<1>7. keys[c] = {}
  BY <1>1 DEF IdInv
<1>8. /\ stateBar = [id \in Id |-> stateBar[id]] /\ keysBar = [id \in Id |-> keysBar[id]]
      /\ stateBar' = [id \in Id |-> stateBar'[id]] /\ keysBar' = [id \in Id |-> keysBar'[id]]
  BY DEF stateBar, keysBar
<1>9. ASSUME NEW id \in Id, id # next_session_id
      PROVE  stateBar'[id] = stateBar[id] /\ keysBar'[id] = keysBar[id]
  <2>1. Owners(id)' = Owners(id)
    BY <1>3, <1>4, <1>5, <1>9 DEF Owners
  <2>2. CASE Owners(id) = {}
    BY <2>1, <2>2 DEF BarsOK
  <2>3. CASE Owners(id) # {}
    <3>1. PICK d \in Allocated : session_id[d] = id
      BY <2>3 DEF Owners
    <3>2. d \in Allocated' /\ session_id'[d] = id
      BY <1>3, <1>4, <3>1
    <3>3. /\ stateBar[id] = Phase(d) /\ keysBar[id] = keys[d]
          /\ stateBar'[id] = Phase(d)' /\ keysBar'[id] = keys'[d]
      BY <3>1, <3>2 DEF BarsOK
    <3>4. Phase(d)' = Phase(d)
      BY <1>4 DEF Phase
    <3> QED
      BY <1>2, <3>3, <3>4
  <2> QED
    BY <2>2, <2>3
<1>10. /\ stateBar[next_session_id] = "unused" /\ keysBar[next_session_id] = {}
       /\ stateBar'[next_session_id] = "open" /\ keysBar'[next_session_id] = {}
  <2>1. c \in Allocated'
    BY <1>3
  <2>2. stateBar'[next_session_id] = Phase(c)' /\ keysBar'[next_session_id] = keys'[c]
    BY <1>5, <2>1 DEF BarsOK
  <2>3. Phase(c)' = "open"
    BY <1>5 DEF Phase
  <2> QED
    BY <1>t, <1>2, <1>6, <1>7, <2>2, <2>3 DEF BarsOK
<1>11. usingBar' = usingBar
  <2>1. \A u \in Thread : pc[u] = "using" => session_id'[session[u]] = session_id[session[u]]
    BY <1>t, <1>1 DEF PointersOK, HeldSessionIsLive
  <2> QED
    BY <1>2, <2>1 DEF usingBar
<1> HIDE DEF Id
<1>12. stateBar' = [stateBar EXCEPT ![next_session_id] = "open"]
  BY <1>t, <1>8, <1>9, <1>10
<1>13. keysBar' = keysBar
  BY <1>8, <1>9, <1>10
<1>14. Service!Open(next_session_id)
  BY <1>10, <1>11, <1>12, <1>13 DEF Service!Open
<1> QED
  BY <1>t, <1>14 DEF Service!Next

\* The workers between get_session and put_session are the users of the
\* handle; when the count has reached zero there is none.
LEMMA NoUsersAtZero ==
  ASSUME IndInv, BarsOK, NEW t \in Thread, SawZero(t)
  PROVE  /\ session[t] \in Allocated
         /\ Service!Users(session_id[session[t]]) = {}
         /\ Phase(session[t]) = "closed"
<1> DEFINE c == session[t]
<1>1. c \in Cell /\ mem[c] = "live" /\ ref_count[c] = 0
  BY DEF IndInv, PointersOK, ZeroIsFinal, SawZero
<1>2. Holders(c) = {} /\ ~ active[c]
  BY <1>1, CountMeaning DEF IndInv
<1>3. c \in Allocated
  BY <1>1 DEF Allocated
<1>4. ASSUME NEW u \in Thread, usingBar[u] = session_id[c]
      PROVE  FALSE
  <2>1. session_id[c] \in Id /\ Nil \notin Id
    BY <1>1, SessionAssumption DEF IndInv, TypeOK, Id
  <2>2. pc[u] = "using" /\ session_id[session[u]] = session_id[c]
    BY <1>4, <2>1 DEF usingBar
  <2>3. session[u] \in Allocated
    BY <2>2 DEF IndInv, PointersOK, HeldSessionIsLive, Allocated
  <2>4. session[u] = c
    BY <1>3, <2>2, <2>3 DEF BarsOK
  <2> QED
    BY <1>2, <2>2, <2>4 DEF Holders
<1> QED
  BY <1>1, <1>2, <1>3, <1>4 DEF Service!Users, Phase

\* The step that frees a session destroys its handle.
LEMMA FreeIsDestroy ==
  ASSUME IndInv, BarsOK, BarsOK', Allocated' = Allocated, NEW t \in Thread, SawZero(t),
         FreeSession(session[t]), UNCHANGED <<session_id, active>>,
         usingBar' = usingBar
  PROVE  Service!Next
<1>c. PICK c \in Cell : c = session[t]
  BY DEF IndInv, PointersOK, SawZero
<1>t. mem \in [Cell -> {"none", "live", "freed"}] /\ keys \in [Cell -> SUBSET (1 .. MaxKeys)]
  BY DEF IndInv, TypeOK
<1>1. /\ c \in Allocated /\ Service!Users(session_id[c]) = {} /\ Phase(c) = "closed"
  BY <1>c, NoUsersAtZero
<1>2. c \in Cell /\ session_id[c] \in Id
  BY <1>1 DEF Allocated, IndInv, TypeOK
<1>3. /\ mem' = [mem EXCEPT ![c] = "freed"] /\ keys' = [keys EXCEPT ![c] = {}]
  BY <1>c DEF FreeSession
<1>4. \A d \in Allocated \ {c} : mem'[d] = mem[d] /\ keys'[d] = keys[d]
  BY <1>t, <1>3 DEF Allocated
<1>5. \A d \in Allocated \ {c} : Phase(d)' = Phase(d) /\ keys'[d] = keys[d]
  BY <1>4 DEF Phase
<1>6. Phase(c)' = "gone" /\ keys'[c] = {}
  BY <1>t, <1>2, <1>3 DEF Phase
<1>7. /\ stateBar' = [stateBar EXCEPT ![session_id[c]] = "gone"]
      /\ keysBar' = [keysBar EXCEPT ![session_id[c]] = {}]
  BY <1>1, <1>5, <1>6, OneSession
<1>8. stateBar[session_id[c]] = "closed"
  BY <1>1 DEF BarsOK
<1>9. Service!Destroy(session_id[c])
  BY <1>1, <1>7, <1>8 DEF Service!Destroy
<1> QED
  BY <1>2, <1>9 DEF Service!Next

\* get_session enters an open handle.
LEMMA GetIsEnter ==
  ASSUME IndInv, BarsOK, NEW t \in Thread, NEW id \in Id,
         pc[t] \in {"idle", "validated"}, GetSession(t, id)
  PROVE  Service!Next
<1>t. TypeOK /\ ListOK
  BY DEF IndInv
<1>1. find_session_locked(id) # Nil /\ active[find_session_locked(id)]
  BY DEF GetSession, Usable
<1>2. PICK c \in Cell : c = find_session_locked(id) /\ active[c] /\ session_id[c] = id
  BY <1>t, <1>1, FindInList
<1>3. /\ session' = [session EXCEPT ![t] = c] /\ pc' = [pc EXCEPT ![t] = "using"]
      /\ UNCHANGED <<mem, session_id, active, keys>>
  BY <1>2 DEF GetSession, Goto
<1>4. mem[c] = "live" /\ c \in Allocated
  BY <1>t, <1>2 DEF ListOK, Allocated
<1>5. stateBar[id] = "open"
  BY <1>2, <1>4 DEF BarsOK, Phase
<1>6. usingBar[t] = Nil
  BY DEF usingBar
<1>7. usingBar' = [usingBar EXCEPT ![t] = id]
  <2> HIDE DEF Id
  <2> QED
    BY <1>t, <1>2, <1>3 DEF usingBar, TypeOK
<1>8. stateBar' = stateBar /\ keysBar' = keysBar
  BY <1>3, NoSession
<1>9. Service!Enter(t, id)
  BY <1>5, <1>6, <1>7, <1>8 DEF Service!Enter
<1> QED
  BY <1>9 DEF Service!Next

\* put_session, up to the release of ref_mutex, leaves the handle.
LEMMA PutIsLeave ==
  ASSUME IndInv, NEW t \in Thread, PutSession(t)
  PROVE  Service!Next
<1>t. TypeOK /\ session[t] \in Cell
  BY DEF IndInv, PointersOK, PutSession
<1>1. /\ pc[t] = "using" /\ pc' = [pc EXCEPT ![t] = "putting"]
      /\ UNCHANGED <<mem, session_id, active, keys, session>>
  BY DEF PutSession, Goto
<1>2. usingBar[t] # Nil
  BY <1>t, <1>1, SessionAssumption DEF usingBar, TypeOK, Id
<1>3. usingBar' = [usingBar EXCEPT ![t] = Nil]
  BY <1>t, <1>1 DEF usingBar, TypeOK
<1>4. stateBar' = stateBar /\ keysBar' = keysBar
  BY <1>1, NoSession
<1>5. Service!Leave(t)
  BY <1>2, <1>3, <1>4 DEF Service!Leave
<1> QED
  BY <1>5 DEF Service!Next

\* A session key is created or destroyed by a worker inside the session.
LEMMA KeyIsChangeKeys ==
  ASSUME IndInv, IndInv', BarsOK, BarsOK', NEW t \in Thread, CreateKey(t) \/ DestroyKey(t)
  PROVE  Service!Next
<1>t. TypeOK /\ TypeOK'
  BY DEF IndInv
<1>c. PICK c \in Cell : c = session[t]
  BY DEF IndInv, PointersOK, CreateKey, DestroyKey
<1>1. pc[t] = "using" /\ mem[c] = "live" /\ c \in Allocated
  BY <1>c DEF CreateKey, DestroyKey, IndInv, PointersOK, HeldSessionIsLive, Allocated
<1>2. UNCHANGED <<mem, session_id, active, pc, session>>
  BY DEF CreateKey, DestroyKey, locals
<1>3. \A d \in Cell \ {c} : keys'[d] = keys[d]
  BY <1>t, <1>c DEF CreateKey, DestroyKey, TypeOK
<1>4. keys'[c] \in SUBSET (1 .. MaxKeys)
  BY <1>t, <1>1 DEF TypeOK
<1>5. Allocated' = Allocated /\ usingBar' = usingBar
  BY <1>2 DEF Allocated, usingBar
<1>6. \A d \in Allocated \ {c} : Phase(d)' = Phase(d) /\ keys'[d] = keys[d]
  BY <1>2, <1>3 DEF Phase, Allocated
<1>7. usingBar[t] = session_id[c] /\ usingBar[t] # Nil
  BY <1>t, <1>c, <1>1, SessionAssumption DEF usingBar, TypeOK, Id
<1>8. /\ stateBar' = [stateBar EXCEPT ![session_id[c]] = Phase(c)']
      /\ keysBar' = [keysBar EXCEPT ![session_id[c]] = keys'[c]]
  BY <1>1, <1>2, <1>5, <1>6, OneSession
<1>9. stateBar' = stateBar
  <2>1. stateBar[session_id[c]] = Phase(c) /\ Phase(c)' = Phase(c)
    BY <1>1, <1>2 DEF BarsOK, Phase
  <2>2. stateBar = [id \in Id |-> stateBar[id]]
    BY DEF stateBar
  <2> QED
    BY <1>8, <2>1, <2>2
<1>10. Service!ChangeKeys(t)
  BY <1>4, <1>5, <1>7, <1>8, <1>9 DEF Service!ChangeKeys
<1> QED
  BY <1>10 DEF Service!Next

\* The first half of close_session closes an open handle.
LEMMA CloseIsClose ==
  ASSUME IndInv, BarsOK, BarsOK', NEW t \in Thread, NEW id \in Id, CloseSession(t, id)
  PROVE  Service!Next
<1>t. TypeOK /\ ListOK /\ PointersOK
  BY DEF IndInv
<1>1. PICK c \in Cell : /\ c = find_session_locked(id) /\ session_id[c] = id
                        /\ \E i \in 1 .. Len(sessions) : c = sessions[i]
  BY <1>t, FindInList DEF CloseSession
<1>2. /\ active' = [active EXCEPT ![c] = FALSE] /\ session' = [session EXCEPT ![t] = c]
      /\ pc' = [pc EXCEPT ![t] = "closing"] /\ pc[t] = "idle" /\ LockFree
      /\ UNCHANGED <<mem, session_id, keys>>
  BY <1>1 DEF CloseSession, Goto
<1>3. \A u \in Thread : pc[u] # "closing"
  BY <1>t, <1>2, SessionAssumption DEF LockFree, PointersOK
<1>4. active[c] /\ mem[c] = "live" /\ c \in Allocated
  BY <1>t, <1>1, <1>3 DEF ListOK, Allocated
<1>5. stateBar[id] = "open" /\ keysBar[id] = keys[c]
  BY <1>1, <1>4 DEF BarsOK, Phase
<1>6. Phase(c)' = "closed"
  BY <1>t, <1>2, <1>4 DEF Phase, TypeOK
<1>7. \A d \in Allocated \ {c} : active'[d] = active[d] /\ d \in Cell
  BY <1>t, <1>2 DEF Allocated, TypeOK
<1>8. \A d \in Allocated \ {c} : Phase(d)' = Phase(d) /\ keys'[d] = keys[d]
  BY <1>2, <1>7 DEF Phase
<1>9. Allocated' = Allocated
  BY <1>2 DEF Allocated
<1>10. /\ stateBar' = [stateBar EXCEPT ![id] = "closed"]
       /\ keysBar' = [keysBar EXCEPT ![id] = keys[c]]
  BY <1>1, <1>2, <1>4, <1>6, <1>8, <1>9, OneSession
<1>11. keysBar' = keysBar
  <2>1. keysBar = [h \in Id |-> keysBar[h]]
    BY DEF keysBar
  <2> QED
    BY <1>5, <1>10, <2>1
<1>12. usingBar' = usingBar
  <2>1. \A u \in Thread \ {t} : pc'[u] = pc[u] /\ session'[u] = session[u]
    BY <1>t, <1>2 DEF TypeOK
  <2>2. pc'[t] = "closing"
    BY <1>t, <1>2 DEF TypeOK
  <2> QED
    BY <1>2, <2>1, <2>2 DEF usingBar
<1>13. Service!Close(id)
  BY <1>5, <1>10, <1>11, <1>12 DEF Service!Close
<1> QED
  BY <1>13 DEF Service!Next

\* A thread that was not and does not come inside a session is no news for
\* the clients.
LEMMA NotUsing ==
  ASSUME IndInv, NEW t \in Thread, pc[t] # "using", session_id' = session_id,
         \E l \in {"idle", "validated"} : pc' = [pc EXCEPT ![t] = l],
         \E s : session' = [session EXCEPT ![t] = s]
  PROVE  usingBar' = usingBar
<1>1. \A u \in Thread \ {t} : pc'[u] = pc[u] /\ session'[u] = session[u]
  BY DEF IndInv, TypeOK
<1>2. pc'[t] # "using"
  BY DEF IndInv, TypeOK
<1> QED
  BY <1>1, <1>2 DEF usingBar

\* The second halves of put and close destroy the handle or are invisible.
LEMMA SecondHalves ==
  ASSUME IndInv, BarsOK, BarsOK', Allocated' = Allocated, NEW t \in Thread,
         PutFree(t) \/ CloseFinish(t)
  PROVE  [Service!Next]_(Service!vars)
<1>1. /\ pc[t] \in {"putting", "closing"} /\ Return(t)
      /\ UNCHANGED <<session_id, active>>
  BY DEF PutFree, CloseFinish
<1>2. usingBar' = usingBar
  <2>1. pc' = [pc EXCEPT ![t] = "idle"] /\ session' = [session EXCEPT ![t] = Nil]
    BY <1>1 DEF Return, Goto
  <2> QED
    BY <1>1, <2>1, NotUsing
<1>3. \/ FreeSession(session[t]) /\ final_ref_count[t] <= 0
      \/ UNCHANGED <<mem, keys>>
  BY DEF PutFree, CloseFinish
<1>4. CASE FreeSession(session[t]) /\ final_ref_count[t] <= 0
  <2>1. SawZero(t)
    BY <1>1, <1>4 DEF SawZero
  <2> QED
    BY <1>1, <1>2, <1>4, <2>1, FreeIsDestroy
<1>5. CASE UNCHANGED <<mem, keys>>
  <2>1. stateBar' = stateBar /\ keysBar' = keysBar
    BY <1>1, <1>5, NoSession
  <2> QED
    BY <1>2, <2>1 DEF Service!vars
<1> QED
  BY <1>3, <1>4, <1>5

\* Each step of the registry is a step of SessionService or changes nothing
\* that its clients see.
LEMMA StepImplements ==
  ASSUME IndInv, IndInv', IdInv, BarsOK, BarsOK', NotWrapped', [Next]_vars
  PROVE  [Service!Next]_(Service!vars)
<1>1. ASSUME UNCHANGED <<mem, session_id, active, keys>>, usingBar' = usingBar
      PROVE  UNCHANGED Service!vars
  BY <1>1, NoSession DEF Service!vars
<1>2. CASE UNCHANGED vars
  <2>1. UNCHANGED <<mem, session_id, active, keys, pc, session>>
    BY <1>2 DEF vars, fields, locals
  <2> QED
    BY <1>1, <2>1 DEF usingBar
<1>3. ASSUME NEW t \in Thread, NEW id \in Id, CloseUnknown(t, id)
      PROVE  [Service!Next]_(Service!vars)
  BY <1>2, <1>3 DEF CloseUnknown
<1>4. ASSUME NEW t \in Thread, NEW id \in Id, ValidateSession(t, id)
      PROVE  [Service!Next]_(Service!vars)
  <2>1. /\ pc[t] = "idle" /\ pc' = [pc EXCEPT ![t] = "validated"]
        /\ UNCHANGED <<mem, session_id, active, keys, session>>
    BY <1>4 DEF ValidateSession, Goto, fields
  <2>2. usingBar' = usingBar
    <3>1. session' = [session EXCEPT ![t] = session[t]]
      BY <2>1 DEF IndInv, TypeOK
    <3> QED
      BY <2>1, <3>1, NotUsing
  <2> QED
    BY <1>1, <2>1, <2>2
<1>5. ASSUME NEW t \in Thread, GetFirst(t) \/ GetValidated(t)
      PROVE  [Service!Next]_(Service!vars)
  <2>1. CASE GetFirst(t)
    BY <2>1, GetIsEnter DEF GetFirst
  <2>2. CASE GetValidated(t)
    <3>1. pc[t] = "validated" /\ request[t] \in Id
      BY <2>2 DEF GetValidated, IndInv, TypeOK
    <3>2. CASE GetSession(t, request[t])
      BY <3>1, <3>2, GetIsEnter
    <3>3. CASE Return(t) /\ UNCHANGED <<mem, fields, registry, sessions_mutex, torn>>
      <4>1. /\ pc' = [pc EXCEPT ![t] = "idle"] /\ session' = [session EXCEPT ![t] = Nil]
            /\ UNCHANGED <<mem, session_id, active, keys>>
        BY <3>3 DEF Return, Goto, fields
      <4>2. usingBar' = usingBar
        BY <3>1, <4>1, NotUsing
      <4> QED
        BY <1>1, <4>1, <4>2
    <3> QED
      BY <2>2, <3>2, <3>3 DEF GetValidated
  <2> QED
    BY <1>5, <2>1, <2>2
<1>6. ASSUME NEW t \in Thread, PutFree(t) \/ CloseFinish(t)
      PROVE  [Service!Next]_(Service!vars)
  <2>1. Allocated' = Allocated
    <3>1. ~ \E u \in Thread : CreateSession(u)
      <4> SUFFICES ASSUME NEW u \in Thread, CreateSession(u) PROVE FALSE
        OBVIOUS
      <4>1. pc' = pc
        BY DEF CreateSession, locals
      <4>2. pc[t] \in {"putting", "closing"} /\ pc' = [pc EXCEPT ![t] = "idle"]
        BY <1>6 DEF PutFree, CloseFinish, Return, Goto
      <4> QED
        BY <4>1, <4>2 DEF IndInv, TypeOK
    <3> QED
      BY <3>1, AllocatedStep
  <2> QED
    BY <1>6, <2>1, SecondHalves
<1> QED
  BY <1>2, <1>3, <1>4, <1>5, <1>6, CreateIsOpen, CloseIsClose, KeyIsChangeKeys,
     PutIsLeave DEF Next

\* The registry starts as SessionService does, and until ids wrap around each
\* of its steps is one of SessionService or invisible: opening, using and
\* closing look atomic to the clients, nobody enters a closed session, and a
\* session is destroyed, with its keys, only after the last worker has left.
\* Any number of sessions, of workers and of keys, any width of the id.
THEOREM RegistryImplementsService ==
  Spec => Service!Init /\ [][NotWrapped' => Service!Next]_(Service!vars)
<1>1. Init => Service!Init
  <2> SUFFICES ASSUME Init PROVE Service!Init
    OBVIOUS
  <2>1. \A id \in Id : Owners(id) = {}
    BY DEF Init, Owners, Allocated
  <2>2. stateBar = [id \in Id |-> "unused"] /\ keysBar = [id \in Id |-> {}]
    BY <2>1 DEF stateBar, keysBar, HandleState
  <2>3. usingBar = [t \in Thread |-> Nil]
    BY DEF Init, usingBar
  <2> QED
    BY <2>2, <2>3 DEF Service!Init
<1>2. IndInv' /\ IdInv' /\ NotWrapped' => BarsOK'
  BY BarValues, PTL
<1>3. IndInv /\ IndInv' /\ IdInv /\ IdInv' /\ [Next]_vars
      => [NotWrapped' => Service!Next]_(Service!vars)
  BY <1>2, BarValues, NotWrappedBefore, StepImplements
<1> QED
  BY <1>1, <1>3, SpecIndInv, SpecIds, PTL DEF Spec

\* With no more session allocations than there are ids, as on the instance
\* that is model-checked, both hold without reservation.
THEOREM FewSessionsImplementService ==
  ASSUME IsFiniteSet(Cell), Cardinality(Cell) <= IdModulus
  PROVE  Spec => /\ Service!Init /\ [][Service!Next]_(Service!vars)
                 /\ []KeyHandlesDistinct
<1>1. NotWrapped
  <2>1. Allocated \subseteq Cell
    BY DEF Allocated
  <2>2. /\ Cardinality(Allocated) <= Cardinality(Cell)
        /\ Cardinality(Allocated) \in Nat /\ Cardinality(Cell) \in Nat
    BY <2>1, FS_Subset, FS_CardinalityType
  <2> QED
    BY <2>2, SessionAssumption DEF NotWrapped
<1> QED
  BY <1>1, RegistryImplementsService, KeyHandlesUnique, PTL
=============================================================================
