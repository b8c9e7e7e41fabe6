--------------------------- MODULE SessionManager ---------------------------
(***************************************************************************)
(* The session registry of the daemon (sdfxd/src/session_manager.c) and    *)
(* the session keys hanging off a session (sdfxd/src/object_manager.c), as *)
(* the worker threads of the pool use them while the daemon runs.          *)
(*                                                                         *)
(* A session is a heap cell.  It sits in the singly linked list            *)
(* ctx->sessions and carries a reference count: one reference belongs to   *)
(* the list, one to every thread between session_manager_get_session and   *)
(* session_manager_put_session.  Two kinds of lock are involved:           *)
(* sessions_mutex guards the list, the ref_mutex of a session guards its   *)
(* count.  put_session takes only the second, so it interleaves with a     *)
(* close that is between its two halves; that is why close and put are two *)
(* actions each and get, create and validate are one.                      *)
(*                                                                         *)
(* Shutdown (session_manager_cleanup) is not part of this module.          *)
(***************************************************************************)
EXTENDS Integers, Sequences, FiniteSets

CONSTANTS
  Cell,        \* session_info_t allocations the heap can serve
  Thread,      \* worker threads of the pool
  Nil,         \* the NULL pointer, also "nobody owns the mutex"
  IdModulus,   \* session ids are counted modulo this (2^32 in the code)
  MaxKeys      \* bound: keys created per session

ASSUME SessionAssumption ==
  /\ IsFiniteSet(Thread)
  /\ Nil \notin Cell
  /\ Nil \notin Thread
  /\ Nil \notin 0 .. IdModulus - 1
  /\ IdModulus \in Nat \ {0}
  /\ MaxKeys \in Nat

VARIABLES
  mem,                    \* heap state of each cell: "none", "live", "freed"
  session_id, active, ref_count, keys, next_key_id,   \* the fields of a cell
  sessions,               \* ctx->sessions, head first
  active_sessions_count, next_session_id,
  sessions_mutex,         \* the thread that holds it, or Nil
  pc,                     \* where each thread is
  session,                \* each thread's local pointer
  final_ref_count,        \* each thread's local copy of the count
  request,                \* the session id of the request in progress
  torn                    \* ghost: an unlink read the next field of a freed cell

fields == <<session_id, active, ref_count, keys, next_key_id>>
registry == <<sessions, active_sessions_count, next_session_id>>
locals == <<pc, session, final_ref_count, request>>
vars == <<mem, fields, registry, sessions_mutex, locals, torn>>

Id == 0 .. IdModulus - 1

(***************************************************************************)
(* "validated": session_manager_validate_session said yes, get_session is  *)
(* still to come.  "using": the thread owns a reference.  "putting": the   *)
(* reference is given back, the decision to free is not taken yet.         *)
(* "closing": the session is marked, not yet unlinked; sessions_mutex is   *)
(* held.                                                                   *)
(***************************************************************************)
PC == {"idle", "validated", "using", "putting", "closing"}

TypeOK ==
  /\ mem \in [Cell -> {"none", "live", "freed"}]
  /\ session_id \in [Cell -> Id]
  /\ active \in [Cell -> BOOLEAN]
  /\ ref_count \in [Cell -> Int]
  /\ keys \in [Cell -> SUBSET (1 .. MaxKeys)]
  /\ next_key_id \in [Cell -> 0 .. MaxKeys]
  /\ sessions \in Seq(Cell)
  /\ active_sessions_count \in Int
  /\ next_session_id \in Id
  /\ sessions_mutex \in Thread \cup {Nil}
  /\ pc \in [Thread -> PC]
  /\ session \in [Thread -> Cell \cup {Nil}]
  /\ final_ref_count \in [Thread -> Int]
  /\ request \in [Thread -> Id]
  /\ torn \in BOOLEAN

-----------------------------------------------------------------------------
(* Helpers *)

Goto(t, l) == pc' = [pc EXCEPT ![t] = l]

\* The handler returns; its local variables go out of scope.
Return(t) ==
  /\ Goto(t, "idle")
  /\ session' = [session EXCEPT ![t] = Nil]
  /\ final_ref_count' = [final_ref_count EXCEPT ![t] = 0]
  /\ request' = [request EXCEPT ![t] = 0]

LockFree == sessions_mutex = Nil

\* find_session_locked: the first list entry with this id, or Nil.
find_session_locked(id) ==
  IF \E i \in 1 .. Len(sessions) : session_id[sessions[i]] = id
  THEN LET first == CHOOSE i \in 1 .. Len(sessions) :
                      /\ session_id[sessions[i]] = id
                      /\ \A j \in 1 .. i - 1 : session_id[sessions[j]] # id
       IN  sessions[first]
  ELSE Nil

\* The id names a session that requests may use.
Usable(id) ==
  /\ find_session_locked(id) # Nil
  /\ active[find_session_locked(id)]

FreeSession_Nothing(c) == UNCHANGED <<mem, keys>>

\* session_objects_cleanup, destruction of the session's mutexes, free().
FreeSession(c) ==
  /\ mem' = [mem EXCEPT ![c] = "freed"]
  /\ keys' = [keys EXCEPT ![c] = {}]

KeyHandle_NoSession(c, n) == <<0, n>>

\* The upper half of a key handle is the session, the lower half counts up.
KeyHandle(c, n) == <<session_id[c], n>>

-----------------------------------------------------------------------------
Init ==
  /\ mem = [c \in Cell |-> "none"]
  /\ session_id = [c \in Cell |-> 0]
  /\ active = [c \in Cell |-> FALSE]
  /\ ref_count = [c \in Cell |-> 0]
  /\ keys = [c \in Cell |-> {}]
  /\ next_key_id = [c \in Cell |-> 0]
  /\ sessions = <<>>
  /\ active_sessions_count = 0
  /\ next_session_id = 1 % IdModulus
  /\ sessions_mutex = Nil
  /\ pc = [t \in Thread |-> "idle"]
  /\ session = [t \in Thread |-> Nil]
  /\ final_ref_count = [t \in Thread |-> 0]
  /\ request = [t \in Thread |-> 0]
  /\ torn = FALSE

CreateSession_NoWrap(t) ==
  /\ pc[t] = "idle"
  /\ LockFree
  /\ \E c \in Cell :
       /\ mem[c] = "none"
       /\ mem' = [mem EXCEPT ![c] = "live"]
       /\ session_id' = [session_id EXCEPT ![c] = next_session_id]
       /\ active' = [active EXCEPT ![c] = TRUE]
       /\ ref_count' = [ref_count EXCEPT ![c] = 1]
       /\ sessions' = <<c>> \o sessions
  /\ next_session_id' = next_session_id + 1
  /\ active_sessions_count' = active_sessions_count + 1
  /\ UNCHANGED <<keys, next_key_id, sessions_mutex, locals, torn>>

(***************************************************************************)
(* session_manager_create_session.  The cell is filled before it becomes   *)
(* reachable; numbering it, linking it and counting it is one critical     *)
(* section.  An id that wrapped to 0 is reported to the client as a        *)
(* failure, but the session stays in the list.                             *)
(***************************************************************************)
CreateSession(t) ==
  /\ pc[t] = "idle"
  /\ LockFree
  /\ \E c \in Cell :
       /\ mem[c] = "none"
       /\ mem' = [mem EXCEPT ![c] = "live"]
       /\ session_id' = [session_id EXCEPT ![c] = next_session_id]
       /\ active' = [active EXCEPT ![c] = TRUE]
       /\ ref_count' = [ref_count EXCEPT ![c] = 1]
       /\ sessions' = <<c>> \o sessions
  /\ next_session_id' = (next_session_id + 1) % IdModulus
  /\ active_sessions_count' = active_sessions_count + 1
  /\ UNCHANGED <<keys, next_key_id, sessions_mutex, locals, torn>>

\* session_manager_validate_session, for the handlers that call it first.
ValidateSession(t, id) ==
  /\ pc[t] = "idle"
  /\ LockFree
  /\ Usable(id)
  /\ Goto(t, "validated")
  /\ request' = [request EXCEPT ![t] = id]
  /\ UNCHANGED <<mem, fields, registry, sessions_mutex, session,
                 final_ref_count, torn>>

GetSession_NoReference(t, id) ==
  /\ LockFree
  /\ Usable(id)
  /\ session' = [session EXCEPT ![t] = find_session_locked(id)]
  /\ Goto(t, "using")
  /\ UNCHANGED <<mem, fields, registry, sessions_mutex, final_ref_count,
                 request, torn>>

\* session_manager_get_session finds an active session and counts itself in.
GetSession(t, id) ==
  /\ LockFree
  /\ Usable(id)
  /\ LET c == find_session_locked(id) IN
       /\ ref_count' = [ref_count EXCEPT ![c] = @ + 1]
       /\ session' = [session EXCEPT ![t] = c]
  /\ Goto(t, "using")
  /\ UNCHANGED <<mem, session_id, active, keys, next_key_id, registry,
                 sessions_mutex, final_ref_count, request, torn>>

\* A handler that goes straight to get_session.
GetFirst(t) ==
  /\ pc[t] = "idle"
  /\ \E id \in Id : GetSession(t, id)

\* A handler whose session passed validation: it may be gone by now.
GetValidated(t) ==
  /\ pc[t] = "validated"
  /\ \/ GetSession(t, request[t])
     \/ /\ LockFree
        /\ ~ Usable(request[t])
        /\ Return(t)
        /\ UNCHANGED <<mem, fields, registry, sessions_mutex, torn>>

\* session_key_create on the session the thread holds.
CreateKey(t) ==
  /\ pc[t] = "using"
  /\ LET c == session[t]
         n == next_key_id[c] + 1
     IN  /\ n <= MaxKeys
         /\ next_key_id' = [next_key_id EXCEPT ![c] = n]
         /\ keys' = [keys EXCEPT ![c] = @ \cup {n}]
  /\ UNCHANGED <<mem, session_id, active, ref_count, registry,
                 sessions_mutex, locals, torn>>

\* session_key_destroy on the session the thread holds.
DestroyKey(t) ==
  /\ pc[t] = "using"
  /\ \E n \in keys[session[t]] :
       keys' = [keys EXCEPT ![session[t]] = @ \ {n}]
  /\ UNCHANGED <<mem, session_id, active, ref_count, next_key_id, registry,
                 sessions_mutex, locals, torn>>

\* session_manager_put_session, up to the release of ref_mutex.
PutSession(t) ==
  /\ pc[t] = "using"
  /\ LET c == session[t] IN
       /\ ref_count' = [ref_count EXCEPT ![c] = @ - 1]
       /\ final_ref_count' = [final_ref_count EXCEPT ![t] = ref_count[c] - 1]
  /\ Goto(t, "putting")
  /\ UNCHANGED <<mem, session_id, active, keys, next_key_id, registry,
                 sessions_mutex, session, request, torn>>

PutFree_IgnoresActive(t) ==
  /\ pc[t] = "putting"
  /\ IF final_ref_count[t] <= 1
     THEN FreeSession(session[t])
     ELSE UNCHANGED <<mem, keys>>
  /\ Return(t)
  /\ UNCHANGED <<session_id, active, ref_count, next_key_id, registry,
                 sessions_mutex, torn>>

\* The rest of session_manager_put_session: the last holder of a closed
\* session frees it.
PutFree(t) ==
  /\ pc[t] = "putting"
  /\ LET c == session[t] IN
       IF final_ref_count[t] <= 0 /\ ~ active[c]
       THEN FreeSession(c)
       ELSE UNCHANGED <<mem, keys>>
  /\ Return(t)
  /\ UNCHANGED <<session_id, active, ref_count, next_key_id, registry,
                 sessions_mutex, torn>>

\* session_manager_close_session, up to the release of ref_mutex: the
\* session stops being usable and loses the reference of the list.
CloseSession(t, id) ==
  /\ pc[t] = "idle"
  /\ LockFree
  /\ LET c == find_session_locked(id) IN
       /\ c # Nil
       /\ active' = [active EXCEPT ![c] = FALSE]
       /\ ref_count' = [ref_count EXCEPT ![c] = @ - 1]
       /\ final_ref_count' = [final_ref_count EXCEPT ![t] = ref_count[c] - 1]
       /\ session' = [session EXCEPT ![t] = c]
  /\ sessions_mutex' = t
  /\ Goto(t, "closing")
  /\ UNCHANGED <<mem, session_id, keys, next_key_id, registry, request, torn>>

(***************************************************************************)
(* prev->next = current->next.  If the last holder freed the cell after    *)
(* ref_mutex was released, the value read is whatever the heap left there: *)
(* the old pointer, or the NULL of a fresh allocation, which drops the     *)
(* rest of the list.  (A wild pointer ends the process.)                   *)
(***************************************************************************)
Unlink(c) ==
  \E i \in 1 .. Len(sessions) :
    /\ sessions[i] = c
    /\ \/ sessions' = SubSeq(sessions, 1, i - 1)
                      \o SubSeq(sessions, i + 1, Len(sessions))
       \/ mem[c] = "freed" /\ sessions' = SubSeq(sessions, 1, i - 1)

CloseFinish_NoCount(t) ==
  /\ pc[t] = "closing"
  /\ Unlink(session[t])
  /\ torn' = (torn \/ mem[session[t]] = "freed")
  /\ IF final_ref_count[t] <= 0
     THEN FreeSession(session[t])
     ELSE UNCHANGED <<mem, keys>>
  /\ sessions_mutex' = Nil
  /\ Return(t)
  /\ UNCHANGED <<session_id, active, ref_count, next_key_id,
                 active_sessions_count, next_session_id>>

\* The rest of session_manager_close_session: unlink, count, free if nobody
\* else holds a reference, unlock.
CloseFinish(t) ==
  /\ pc[t] = "closing"
  /\ LET c == session[t] IN
       /\ Unlink(c)
       /\ torn' = (torn \/ mem[c] = "freed")
       /\ IF final_ref_count[t] <= 0
          THEN FreeSession(c)
          ELSE UNCHANGED <<mem, keys>>
  /\ active_sessions_count' = active_sessions_count - 1
  /\ sessions_mutex' = Nil
  /\ Return(t)
  /\ UNCHANGED <<session_id, active, ref_count, next_key_id,
                 next_session_id>>

\* close_session of an id that is not in the list: SDR_INVALID_HANDLE.
CloseUnknown(t, id) ==
  /\ pc[t] = "idle"
  /\ LockFree
  /\ find_session_locked(id) = Nil
  /\ UNCHANGED vars

Next ==
  \E t \in Thread :
    \/ CreateSession(t)
    \/ \E id \in Id : \/ ValidateSession(t, id)
                      \/ CloseSession(t, id)
                      \/ CloseUnknown(t, id)
    \/ GetFirst(t) \/ GetValidated(t)
    \/ CreateKey(t) \/ DestroyKey(t)
    \/ PutSession(t) \/ PutFree(t) \/ CloseFinish(t)

(***************************************************************************)
(* Every handler returns, so a thread inside one keeps moving: it gives    *)
(* its reference back and finishes the close or put it began.  Nothing is  *)
(* assumed about which requests arrive.                                    *)
(***************************************************************************)
Fairness ==
  \A t \in Thread :
    /\ WF_vars(PutSession(t))
    /\ WF_vars(PutFree(t))
    /\ WF_vars(CloseFinish(t))

Spec == Init /\ [][Next]_vars /\ Fairness

-----------------------------------------------------------------------------
(* Properties *)

\* The threads that own a reference to c from get_session.
Holders(c) == {t \in Thread : pc[t] = "using" /\ session[t] = c}

\* A thread between get_session and put_session never works on a session
\* that close_session, or another thread's put_session, has freed.
HeldSessionIsLive ==
  \A t \in Thread : pc[t] = "using" => mem[session[t]] = "live"

\* ref_count is exact: one for the list while the session is active, one for
\* each thread inside a get/put pair.  It is what the <= 0 tests of put, close
\* rely on.
RefCountExact ==
  \A c \in Cell :
    mem[c] = "live" =>
      ref_count[c] = Cardinality(Holders(c)) + (IF active[c] THEN 1 ELSE 0)

\* The thread t is committed to freeing c in its next step.
WillFree(t, c) ==
  /\ session[t] = c
  /\ final_ref_count[t] <= 0
  /\ pc[t] = "closing" \/ (pc[t] = "putting" /\ ~ active[c])

\* free() is called at most once for each session: whoever is about to call
\* it finds the session allocated, and nobody else is about to.
FreedOnce ==
  \A t \in Thread, c \in Cell :
    WillFree(t, c) =>
      /\ mem[c] = "live"
      /\ \A u \in Thread : WillFree(u, c) => u = t

\* What lookups traverse is allocated, except for the one session whose close
\* is under way; and no active session is missing from it, unless an unlink
\* read freed memory.
RegistryIsLive ==
  /\ \A i \in 1 .. Len(sessions) :
       \/ mem[sessions[i]] = "live" /\ active[sessions[i]]
       \/ \E t \in Thread : pc[t] = "closing" /\ session[t] = sessions[i]
  /\ \/ torn
     \/ \A c \in Cell : active[c] => \E i \in 1 .. Len(sessions) : sessions[i] = c

\* active_sessions_count, which the maintenance operations consult to refuse
\* work while sessions are open, is the number of open sessions whenever the
\* mutex is free, those included that an unlink of freed memory has lost.
CountIsOpenSessions ==
  LockFree =>
    active_sessions_count = Cardinality({c \in Cell : active[c]})

\* A key handle names one key: no two sessions that still hold keys, closed
\* ones included, share a handle (while ids have not wrapped around).
KeyHandlesDistinct ==
  \A c, d \in Cell : \A m \in keys[c], n \in keys[d] :
    KeyHandle(c, m) = KeyHandle(d, n) => c = d

\* What the unlink in close_session reads has not been freed.  The comment on
\* put_session calls the reference protocol thread-safe; a put between the two
\* halves of a close breaks it.
UnlinkReadsLiveSession ==
  \A t \in Thread : pc[t] = "closing" => mem[session[t]] = "live"

\* A closed session is freed in the end, whoever still used it.
ClosedIsReclaimed ==
  \A c \in Cell : (mem[c] = "live" /\ ~ active[c]) ~> (mem[c] = "freed")

-----------------------------------------------------------------------------
(* The inductive invariant behind HeldSessionIsLive and FreedOnce *)

\* Threads point at a session exactly where the code dereferences one, and
\* sessions_mutex is held across the two halves of a close only.
PointersOK ==
  \A t \in Thread :
    /\ pc[t] \in {"using", "putting", "closing"} => session[t] \in Cell
    /\ pc[t] = "closing" => /\ sessions_mutex = t
                            /\ mem[session[t]] # "none"

\* Open sessions are allocated; the list holds each session once, and besides
\* open sessions only the one being closed.
ListOK ==
  /\ \A c \in Cell : active[c] => mem[c] = "live"
  /\ \A i, j \in 1 .. Len(sessions) : sessions[i] = sessions[j] => i = j
  /\ \A i \in 1 .. Len(sessions) :
       \/ active[sessions[i]]
       \/ \E t \in Thread : pc[t] = "closing" /\ session[t] = sessions[i]

\* A thread that saw the count reach zero.
SawZero(t) == pc[t] \in {"putting", "closing"} /\ final_ref_count[t] <= 0

\* Whoever saw zero is alone with a session that nobody can reach any more.
ZeroIsFinal ==
  \A t \in Thread : SawZero(t) =>
    /\ mem[session[t]] = "live"
    /\ ref_count[session[t]] = 0
    /\ \A u \in Thread : (SawZero(u) /\ session[u] = session[t]) => u = t

IndInv ==
  /\ TypeOK
  /\ PointersOK
  /\ ListOK
  /\ RefCountExact
  /\ HeldSessionIsLive
  /\ ZeroIsFinal

-----------------------------------------------------------------------------
(* Implementation of SessionService, as long as ids do not wrap around *)

\* The sessions opened so far, closed and freed ones included.
Allocated == {c \in Cell : mem[c] # "none"}

NotWrapped == Cardinality(Allocated) <= IdModulus

\* The cells that were given this id; at most one while ids do not wrap.
Owners(id) == {c \in Allocated : session_id[c] = id}

HandleState(id) ==
  IF Owners(id) = {} THEN "unused"
  ELSE LET c == CHOOSE d \in Owners(id) : TRUE
       IN  CASE mem[c] = "freed" -> "gone"
             [] mem[c] = "live" /\ active[c] -> "open"
             [] OTHER -> "closed"

stateBar == [id \in Id |-> HandleState(id)]
usingBar == [t \in Thread |-> IF pc[t] = "using" THEN session_id[session[t]] ELSE Nil]
keysBar == [id \in Id |-> UNION {keys[c] : c \in Owners(id)}]

Service == INSTANCE SessionService WITH
  Handle   <- Id,
  Worker   <- Thread,
  NoHandle <- Nil,
  Key      <- 1 .. MaxKeys,
  state    <- stateBar,
  using    <- usingBar,
  keys     <- keysBar

\* The registry keeps the promise of SessionService: what a client sees of
\* open, use and close is as if each were one step, use after close never
\* happens, and the session's keys are destroyed after the last use.
ImplementsService == Service!Spec
=============================================================================
