------------------------ MODULE SessionManagerProofs ------------------------
(***************************************************************************)
(* The reference protocol of session_manager.c is safe for any number of   *)
(* sessions and worker threads and any width of the session id: a session  *)
(* in use is never freed, its count is exact, and it is freed once.        *)
(***************************************************************************)
EXTENDS SessionManager, FiniteSetTheorems, WellFoundedInduction,
        SequenceTheorems, TLAPS

-----------------------------------------------------------------------------
(* Facts about the operators *)

NatLess == {p \in Nat \X Nat : p[1] < p[2]}

\* The order of the naturals, as a relation, is well founded.
LEMMA NatLessWF == IsWellFoundedOn(NatLess, Nat)
BY NatLessThanWellFounded, Zenon DEF OpToRel, NatLess

\* find_session_locked returns NULL or an entry of the list with that id.
LEMMA FindInList ==
  ASSUME NEW id \in Id, TypeOK, find_session_locked(id) # Nil
  PROVE  /\ \E i \in 1 .. Len(sessions) : find_session_locked(id) = sessions[i]
         /\ find_session_locked(id) \in Cell
         /\ session_id[find_session_locked(id)] = id
<1> DEFINE Hit(i) == session_id[sessions[i]] = id
           First(i) == Hit(i) /\ \A j \in 1 .. i - 1 : ~ Hit(j)
<1>1. PICK k \in 1 .. Len(sessions) : Hit(k)
  BY DEF find_session_locked
<1>2. Len(sessions) \in Nat
  BY DEF TypeOK
<1>3. \E i \in 1 .. Len(sessions) : First(i)
  <2> DEFINE S == {i \in 1 .. Len(sessions) : Hit(i)}
  <2>1. S \subseteq Nat /\ S # {}
    BY <1>1, <1>2
  <2>2. \E m \in S : \A n \in S : ~ (<<n, m>> \in NatLess)
    BY <2>1, WFMin, NatLessWF
  <2>4. \E m \in S : \A n \in S : ~ (n < m)
    BY <2>1, <2>2 DEF NatLess
  <2> QED
    BY <2>4, <1>2
<1>4. \E i \in 1 .. Len(sessions) : find_session_locked(id) = sessions[i] /\ Hit(i)
  BY <1>1, <1>3 DEF find_session_locked
<1>5. \A i \in 1 .. Len(sessions) : sessions[i] \in Cell
  BY DEF TypeOK
<1> QED
  BY <1>4, <1>5

\* Taking the i-th entry out of a sequence keeps the others, in order.
LEMMA RemoveEntry ==
  ASSUME NEW S, NEW s \in Seq(S), NEW i \in 1 .. Len(s)
  PROVE  LET r == SubSeq(s, 1, i - 1) \o SubSeq(s, i + 1, Len(s)) IN
         /\ r \in Seq(S)
         /\ Len(r) = Len(s) - 1
         /\ \A j \in 1 .. Len(s) - 1 : r[j] = IF j < i THEN s[j] ELSE s[j + 1]
<1> DEFINE a == SubSeq(s, 1, i - 1)
           b == SubSeq(s, i + 1, Len(s))
           r == a \o b
<1>1. a \in Seq(S) /\ Len(a) = i - 1 /\ \A j \in 1 .. i - 1 : a[j] = s[j]
  OBVIOUS
<1>2. b \in Seq(S) /\ Len(b) = Len(s) - i
      /\ \A j \in 1 .. Len(s) - i : b[j] = s[i + j]
  OBVIOUS
<1>3. /\ r \in Seq(S)
      /\ Len(r) = Len(a) + Len(b)
      /\ \A j \in 1 .. Len(a) + Len(b) :
           r[j] = IF j <= Len(a) THEN a[j] ELSE b[j - Len(a)]
  <2> HIDE DEF a, b
  <2> QED
    BY <1>1, <1>2, ConcatProperties, Zenon
<1> SUFFICES /\ r \in Seq(S)
             /\ Len(r) = Len(s) - 1
             /\ \A j \in 1 .. Len(s) - 1 :
                  r[j] = IF j < i THEN s[j] ELSE s[j + 1]
  OBVIOUS
<1> HIDE DEF r, a, b
<1>4. ASSUME NEW j \in 1 .. Len(s) - 1
      PROVE  r[j] = IF j < i THEN s[j] ELSE s[j + 1]
  <2>0. Len(s) \in Nat /\ j \in 1 .. Len(a) + Len(b)
    BY <1>1, <1>2
  <2>1. CASE j < i
    <3>1. r[j] = a[j]
      BY <1>1, <1>3, <2>0, <2>1
    <3> QED
      BY <1>1, <2>0, <2>1, <3>1
  <2>2. CASE ~ (j < i)
    <3>1. r[j] = b[j - (i - 1)]
      BY <1>1, <1>3, <2>0, <2>2
    <3>2. j - (i - 1) \in 1 .. Len(s) - i /\ i + (j - (i - 1)) = j + 1
      BY <2>0, <2>2
    <3> QED
      BY <1>2, <2>2, <3>1, <3>2
  <2> QED
    BY <2>1, <2>2
<1> QED
  BY <1>1, <1>2, <1>3, <1>4

\* What a close leaves in the list, even when it read a freed cell: entries
\* of the old list, each at most once, and not the closed session.
LEMMA UnlinkResult ==
  ASSUME TypeOK, ListOK, NEW c \in Cell, Unlink(c)
  PROVE  /\ sessions' \in Seq(Cell)
         /\ \A i \in 1 .. Len(sessions') :
              /\ sessions'[i] # c
              /\ \E j \in 1 .. Len(sessions) : sessions'[i] = sessions[j]
         /\ \A i, j \in 1 .. Len(sessions') :
              sessions'[i] = sessions'[j] => i = j
<1>0. sessions \in Seq(Cell)
  BY DEF TypeOK
<1>1. PICK k \in 1 .. Len(sessions) :
        /\ sessions[k] = c
        /\ \/ sessions' = SubSeq(sessions, 1, k - 1)
                           \o SubSeq(sessions, k + 1, Len(sessions))
           \/ sessions' = SubSeq(sessions, 1, k - 1)
  BY DEF Unlink
<1>2. \A i, j \in 1 .. Len(sessions) : sessions[i] = sessions[j] => i = j
  BY DEF ListOK
<1>3. CASE sessions' = SubSeq(sessions, 1, k - 1)
  <2>1. /\ sessions' \in Seq(Cell)
        /\ Len(sessions') = k - 1
        /\ \A i \in 1 .. k - 1 : sessions'[i] = sessions[i]
    BY <1>0, <1>1, <1>3
  <2> QED
    BY <1>0, <1>1, <1>2, <2>1
<1>4. CASE sessions' = SubSeq(sessions, 1, k - 1)
                       \o SubSeq(sessions, k + 1, Len(sessions))
  <2>1. /\ sessions' \in Seq(Cell)
        /\ Len(sessions') = Len(sessions) - 1
        /\ \A i \in 1 .. Len(sessions') :
             sessions'[i] = IF i < k THEN sessions[i] ELSE sessions[i + 1]
    BY <1>0, <1>4, RemoveEntry
  <2> QED
    BY <1>0, <1>1, <1>2, <2>1
<1> QED
  BY <1>1, <1>3, <1>4
-----------------------------------------------------------------------------
(* Counting references *)

\* The holders of a session are finitely many.
LEMMA HoldersFinite ==
  ASSUME NEW c
  PROVE  IsFiniteSet(Holders(c)) /\ Cardinality(Holders(c)) \in Nat
<1>1. Holders(c) \in SUBSET Thread
  BY DEF Holders
<1> QED
  BY <1>1, FS_Subset, FS_CardinalityType, SessionAssumption

\* An exact count of zero or less means that nobody holds a session and that
\* it is closed; a holder means a count of at least one.
LEMMA CountMeaning ==
  ASSUME TypeOK, RefCountExact, NEW c \in Cell, mem[c] = "live"
  PROVE  /\ ref_count[c] \in Nat
         /\ ref_count[c] <= 0 => Holders(c) = {} /\ ~ active[c]
         /\ ref_count[c] = 0 <=> Holders(c) = {} /\ ~ active[c]
<1>1. ref_count[c] = Cardinality(Holders(c)) + (IF active[c] THEN 1 ELSE 0)
  BY DEF RefCountExact
<1>2. Cardinality(Holders(c)) \in Nat /\ IsFiniteSet(Holders(c))
  BY HoldersFinite
<1>3. Cardinality(Holders(c)) = 0 <=> Holders(c) = {}
  BY <1>2, FS_EmptySet
<1> QED
  BY <1>1, <1>2, <1>3

\* Steps that change neither counts, holders nor activity keep counts exact.
LEMMA CountsUntouched ==
  ASSUME RefCountExact, UNCHANGED <<active, ref_count>>,
         \A c \in Cell : mem[c]' = "live" => mem[c] = "live",
         \A c \in Cell : Holders(c)' = Holders(c)
  PROVE  RefCountExact'
BY DEF RefCountExact
-----------------------------------------------------------------------------
(* Initial states and one lemma per action *)

\* The invariant holds before the first request.
LEMMA InitIndInv == Init => IndInv
<1> SUFFICES ASSUME Init PROVE IndInv
  OBVIOUS
<1>1. TypeOK
  <2>1. 1 % IdModulus \in Id /\ 0 \in Id /\ MaxKeys \in Nat
    BY SessionAssumption DEF Id
  <2>2. /\ keys \in [Cell -> SUBSET (1 .. MaxKeys)]
        /\ next_key_id \in [Cell -> 0 .. MaxKeys]
    BY <2>1 DEF Init
  <2>3. sessions \in Seq(Cell)
    BY DEF Init
  <2>4. /\ session_id \in [Cell -> Id]
        /\ next_session_id \in Id
        /\ request \in [Thread -> Id]
    <3> HIDE DEF Id
    <3> QED
      BY <2>1 DEF Init
  <2>5. active \in [Cell -> BOOLEAN] /\ torn \in BOOLEAN
    BY Zenon DEF Init
  <2>6. /\ mem \in [Cell -> {"none", "live", "freed"}]
        /\ ref_count \in [Cell -> Int]
        /\ active_sessions_count \in Int
        /\ sessions_mutex \in Thread \cup {Nil}
        /\ pc \in [Thread -> PC]
        /\ session \in [Thread -> Cell \cup {Nil}]
        /\ final_ref_count \in [Thread -> Int]
    BY DEF Init, PC
  <2> QED
    BY <2>2, <2>3, <2>4, <2>5, <2>6 DEF TypeOK
<1>2. PointersOK /\ ListOK /\ HeldSessionIsLive /\ ZeroIsFinal
  BY DEF Init, PointersOK, ListOK, HeldSessionIsLive, ZeroIsFinal, SawZero
<1>3. RefCountExact
  BY DEF Init, RefCountExact
<1> QED
  BY <1>1, <1>2, <1>3 DEF IndInv

\* Creating a session links a fresh cell with one reference.
LEMMA CreateSessionStep ==
  ASSUME IndInv, NEW t \in Thread, CreateSession(t)
  PROVE  IndInv'
<1> USE DEF IndInv
<1>1. PICK c \in Cell :
        /\ mem[c] = "none"
        /\ mem' = [mem EXCEPT ![c] = "live"]
        /\ session_id' = [session_id EXCEPT ![c] = next_session_id]
        /\ active' = [active EXCEPT ![c] = TRUE]
        /\ ref_count' = [ref_count EXCEPT ![c] = 1]
        /\ sessions' = <<c>> \o sessions
  BY DEF CreateSession
<1>2. /\ UNCHANGED <<keys, next_key_id, sessions_mutex, pc, session,
                     final_ref_count, request, torn>>
      /\ sessions_mutex = Nil
      /\ next_session_id' = (next_session_id + 1) % IdModulus
      /\ active_sessions_count' = active_sessions_count + 1
  BY DEF CreateSession, locals, LockFree
<1>3. /\ sessions' \in Seq(Cell)
      /\ Len(sessions') = Len(sessions) + 1
      /\ \A i \in 1 .. Len(sessions') :
           sessions'[i] = IF i = 1 THEN c ELSE sessions[i - 1]
  BY <1>1 DEF TypeOK
<1>4. TypeOK'
  <2>1. next_session_id' \in Id
    BY <1>2, SessionAssumption DEF TypeOK, Id
  <2> QED
    BY <1>1, <1>2, <1>3, <2>1 DEF TypeOK
<1>5. \A u \in Thread : pc[u] # "closing"
  BY <1>2, SessionAssumption DEF PointersOK
<1>6. \A u \in Thread :
        pc[u] = "using" \/ SawZero(u) => session[u] # c
  BY <1>1 DEF HeldSessionIsLive, ZeroIsFinal
<1>7. PointersOK'
  BY <1>2, <1>5 DEF PointersOK
<1>8. ListOK'
  <2>1. \A i \in 1 .. Len(sessions) : active[sessions[i]] /\ sessions[i] # c
    BY <1>1, <1>5 DEF ListOK, TypeOK
  <2>2. \A d \in Cell : active'[d] => mem'[d] = "live"
    BY <1>1 DEF ListOK, TypeOK
  <2>3. \A i, j \in 1 .. Len(sessions') :
          sessions'[i] = sessions'[j] => i = j
    <3> SUFFICES ASSUME NEW i \in 1 .. Len(sessions'),
                        NEW j \in 1 .. Len(sessions'),
                        sessions'[i] = sessions'[j]
                 PROVE  i = j
      OBVIOUS
    <3>0. Len(sessions) \in Nat
      BY DEF TypeOK
    <3>1. CASE i = 1
      BY <1>3, <2>1, <3>0, <3>1
    <3>2. CASE j = 1
      BY <1>3, <2>1, <3>0, <3>2
    <3>3. CASE i # 1 /\ j # 1
      <4>1. /\ i - 1 \in 1 .. Len(sessions) /\ j - 1 \in 1 .. Len(sessions)
            /\ sessions[i - 1] = sessions[j - 1]
        BY <1>3, <3>0, <3>3
      <4> QED
        BY <4>1 DEF ListOK
    <3> QED
      BY <3>1, <3>2, <3>3
  <2>4. \A i \in 1 .. Len(sessions') : active'[sessions'[i]]
    BY <1>1, <1>3, <2>1 DEF TypeOK
  <2> QED
    BY <2>2, <2>3, <2>4 DEF ListOK
<1>9. RefCountExact'
  <2>1. \A d \in Cell : Holders(d)' = Holders(d)
    BY <1>2 DEF Holders
  <2>2. Holders(c) = {}
    BY <1>6 DEF Holders
  <2> SUFFICES ASSUME NEW d \in Cell, mem'[d] = "live"
               PROVE  ref_count'[d] = Cardinality(Holders(d))
                                      + (IF active'[d] THEN 1 ELSE 0)
    BY <2>1 DEF RefCountExact
  <2>3. CASE d = c
    <3>1. Cardinality(Holders(d)) = 0
      BY <2>2, <2>3, FS_EmptySet
    <3> QED
      BY <1>1, <2>3, <3>1 DEF TypeOK
  <2>4. CASE d # c
    BY <1>1, <2>4 DEF RefCountExact, TypeOK
  <2> QED
    BY <2>3, <2>4
<1>10. HeldSessionIsLive'
  BY <1>1, <1>2, <1>6 DEF HeldSessionIsLive, TypeOK, PointersOK
<1>11. ZeroIsFinal'
  BY <1>1, <1>2, <1>6 DEF ZeroIsFinal, SawZero, TypeOK, PointersOK
<1> QED
  BY <1>4, <1>7, <1>8, <1>9, <1>10, <1>11
\* Steps of a thread that holds nothing and gains nothing: validation, a
\* failed lookup after it.
LEMMA UnattachedStep ==
  ASSUME IndInv, NEW t \in Thread,
         pc[t] \in {"idle", "validated"},
         \E l \in {"idle", "validated"} : pc' = [pc EXCEPT ![t] = l],
         TypeOK',
         UNCHANGED <<mem, fields, registry, sessions_mutex, torn>>,
         \A u \in Thread \ {t} : /\ session'[u] = session[u]
                                /\ final_ref_count'[u] = final_ref_count[u]
  PROVE  IndInv'
<1> USE DEF IndInv, fields, registry
<1>1. \A u \in Thread \ {t} : pc'[u] = pc[u]
  BY DEF TypeOK
<1>2. pc'[t] \in {"idle", "validated"}
  BY DEF TypeOK
<1>3. PointersOK'
  BY <1>1, <1>2 DEF PointersOK
<1>4. ListOK'
  BY <1>1, <1>2 DEF ListOK
<1>5. \A c \in Cell : Holders(c)' = Holders(c)
  BY <1>1, <1>2 DEF Holders
<1>6. RefCountExact'
  BY <1>5, CountsUntouched
<1>7. HeldSessionIsLive'
  BY <1>1, <1>2 DEF HeldSessionIsLive
<1>8. \A u \in Thread : SawZero(u)' => u # t /\ SawZero(u)
  BY <1>1, <1>2 DEF SawZero
<1>9. ZeroIsFinal'
  BY <1>8 DEF ZeroIsFinal
<1> QED
  BY <1>3, <1>4, <1>6, <1>7, <1>9

\* Validation keeps no pointer.
LEMMA ValidateSessionStep ==
  ASSUME IndInv, NEW t \in Thread, NEW id \in Id, ValidateSession(t, id)
  PROVE  IndInv'
<1>1. TypeOK'
  BY DEF ValidateSession, IndInv, TypeOK, Goto, fields, registry, PC
<1> QED
  BY <1>1, UnattachedStep DEF ValidateSession, Goto

\* A validated session that disappeared before get_session.
LEMMA LookupFailedStep ==
  ASSUME IndInv, NEW t \in Thread, pc[t] = "validated", Return(t),
         UNCHANGED <<mem, fields, registry, sessions_mutex, torn>>
  PROVE  IndInv'
<1>1. TypeOK'
  <2>1. 0 \in Id
    BY SessionAssumption DEF Id
  <2> QED
    BY <2>1 DEF IndInv, TypeOK, Goto, Return, fields, registry, PC
<1>2. \A u \in Thread \ {t} : /\ session'[u] = session[u]
                              /\ final_ref_count'[u] = final_ref_count[u]
  BY DEF Return, IndInv, TypeOK
<1> QED
  BY <1>1, <1>2, UnattachedStep DEF Return, Goto

\* get_session adds the thread to the holders of an open session.
LEMMA GetSessionStep ==
  ASSUME IndInv, NEW t \in Thread, NEW id \in Id,
         pc[t] \in {"idle", "validated"}, GetSession(t, id)
  PROVE  IndInv'
<1> USE DEF IndInv
<1>0. find_session_locked(id) # Nil /\ active[find_session_locked(id)]
  BY DEF GetSession, Usable
<1>1. PICK c \in Cell : c = find_session_locked(id) /\ active[c]
  BY <1>0, FindInList
<1>2. mem[c] = "live"
  BY <1>1 DEF ListOK
<1>3. /\ ref_count' = [ref_count EXCEPT ![c] = @ + 1]
      /\ session' = [session EXCEPT ![t] = c]
      /\ pc' = [pc EXCEPT ![t] = "using"]
      /\ UNCHANGED <<mem, session_id, active, keys, next_key_id, sessions,
                     active_sessions_count, next_session_id, sessions_mutex,
                     final_ref_count, request, torn>>
  BY <1>1 DEF GetSession, Goto, registry
<1>4. TypeOK'
  BY <1>1, <1>3 DEF TypeOK, PC
<1>5. \A u \in Thread \ {t} : pc'[u] = pc[u] /\ session'[u] = session[u]
  BY <1>3 DEF TypeOK
<1>6. pc'[t] = "using" /\ session'[t] = c
  BY <1>3 DEF TypeOK
<1>7. PointersOK'
  BY <1>1, <1>3, <1>5, <1>6 DEF PointersOK
<1>8. ListOK'
  BY <1>3, <1>5, <1>6 DEF ListOK
<1>9. RefCountExact'
  <2>1. Holders(c)' = Holders(c) \cup {t} /\ t \notin Holders(c)
    BY <1>5, <1>6 DEF Holders
  <2>2. Cardinality(Holders(c)') = Cardinality(Holders(c)) + 1
    BY <2>1, HoldersFinite, FS_AddElement
  <2>3. \A d \in Cell \ {c} : Holders(d)' = Holders(d)
    BY <1>5, <1>6 DEF Holders
  <2> SUFFICES ASSUME NEW d \in Cell, mem'[d] = "live"
               PROVE  ref_count'[d] = Cardinality(Holders(d)')
                                      + (IF active'[d] THEN 1 ELSE 0)
    BY DEF RefCountExact
  <2>4. CASE d = c
    <3>1. ref_count'[c] = ref_count[c] + 1 /\ active'[c] = active[c]
      BY <1>1, <1>3 DEF TypeOK
    <3>2. ref_count[c] = Cardinality(Holders(c)) + 1
      BY <1>1, <1>2 DEF RefCountExact
    <3> QED
      BY <1>1, <2>2, <2>4, <3>1, <3>2, HoldersFinite
  <2>5. CASE d # c
    BY <1>3, <2>3, <2>5 DEF RefCountExact, TypeOK
  <2> QED
    BY <2>4, <2>5
<1>10. HeldSessionIsLive'
  BY <1>2, <1>3, <1>5, <1>6 DEF HeldSessionIsLive
<1>11. ZeroIsFinal'
  <2>1. \A u \in Thread : SawZero(u)' => u # t /\ SawZero(u)
    BY <1>3, <1>5, <1>6 DEF SawZero
  <2>2. \A u \in Thread : SawZero(u) => session[u] # c
    BY <1>1, <1>2, CountMeaning DEF ZeroIsFinal
  <2> QED
    BY <1>1, <1>3, <1>5, <2>1, <2>2 DEF ZeroIsFinal, TypeOK
<1> QED
  BY <1>4, <1>7, <1>8, <1>9, <1>10, <1>11

\* Key operations touch only the keys of the session.
LEMMA KeyStep ==
  ASSUME IndInv, NEW t \in Thread, CreateKey(t) \/ DestroyKey(t)
  PROVE  IndInv'
<1> USE DEF IndInv
<1>1. /\ UNCHANGED <<mem, session_id, active, ref_count, registry,
                     sessions_mutex, locals, torn>>
      /\ pc[t] = "using" /\ session[t] \in Cell
  BY DEF CreateKey, DestroyKey, PointersOK
<1>2. /\ keys' \in [Cell -> SUBSET (1 .. MaxKeys)]
      /\ next_key_id' \in [Cell -> 0 .. MaxKeys]
  <2>1. CASE CreateKey(t)
    <3>1. next_key_id[session[t]] + 1 \in 1 .. MaxKeys
      BY <1>1, <2>1, SessionAssumption DEF CreateKey, TypeOK
    <3> QED
      BY <1>1, <2>1, <3>1, SessionAssumption DEF CreateKey, TypeOK
  <2>2. CASE DestroyKey(t)
    BY <1>1, <2>2 DEF DestroyKey, TypeOK
  <2> QED
    BY <2>1, <2>2
<1>3. TypeOK'
  BY <1>1, <1>2 DEF TypeOK, registry, locals
<1>4. PointersOK' /\ ListOK' /\ HeldSessionIsLive'
  BY <1>1 DEF PointersOK, ListOK, HeldSessionIsLive, registry, locals
<1>5. ZeroIsFinal'
  BY <1>1 DEF ZeroIsFinal, SawZero, locals
<1>6. RefCountExact'
  BY <1>1 DEF RefCountExact, Holders, locals
<1> QED
  BY <1>3, <1>4, <1>5, <1>6
\* Giving a reference back: the count stays exact, and if it reaches zero
\* this thread is the only one that saw it.
LEMMA PutSessionStep ==
  ASSUME IndInv, NEW t \in Thread, PutSession(t)
  PROVE  IndInv'
<1> USE DEF IndInv
<1>0. pc[t] = "using"
  BY DEF PutSession
<1>1. PICK c \in Cell : c = session[t] /\ mem[c] = "live"
  BY <1>0 DEF PointersOK, HeldSessionIsLive
<1>2. /\ ref_count' = [ref_count EXCEPT ![c] = @ - 1]
      /\ final_ref_count' = [final_ref_count EXCEPT ![t] = ref_count[c] - 1]
      /\ pc' = [pc EXCEPT ![t] = "putting"]
      /\ UNCHANGED <<mem, session_id, active, keys, next_key_id, sessions,
                     active_sessions_count, next_session_id, sessions_mutex,
                     session, request, torn>>
  BY <1>1 DEF PutSession, Goto, registry
<1>3. TypeOK'
  <2>1. ref_count[c] - 1 \in Int
    BY <1>1 DEF TypeOK
  <2> QED
    BY <1>1, <1>2, <2>1 DEF TypeOK, PC
<1>4. \A u \in Thread \ {t} : /\ pc'[u] = pc[u]
                              /\ final_ref_count'[u] = final_ref_count[u]
  BY <1>2 DEF TypeOK
<1>5. /\ pc'[t] = "putting"
      /\ final_ref_count'[t] = ref_count[c] - 1
      /\ ref_count'[c] = ref_count[c] - 1
  BY <1>1, <1>2 DEF TypeOK
<1>6. PointersOK'
  BY <1>1, <1>2, <1>4, <1>5 DEF PointersOK
<1>7. ListOK'
  BY <1>0, <1>2, <1>4, <1>5 DEF ListOK
<1>8. RefCountExact'
  <2>1. Holders(c)' = Holders(c) \ {t} /\ t \in Holders(c)
    BY <1>0, <1>1, <1>2, <1>4, <1>5 DEF Holders
  <2>2. Cardinality(Holders(c)') = Cardinality(Holders(c)) - 1
    BY <2>1, HoldersFinite, FS_RemoveElement
  <2>3. \A d \in Cell \ {c} : Holders(d)' = Holders(d)
    BY <1>0, <1>1, <1>2, <1>4, <1>5 DEF Holders
  <2> SUFFICES ASSUME NEW d \in Cell, mem'[d] = "live"
               PROVE  ref_count'[d] = Cardinality(Holders(d)')
                                      + (IF active'[d] THEN 1 ELSE 0)
    BY DEF RefCountExact
  <2>4. CASE d = c
    <3>1. ref_count[c] = Cardinality(Holders(c)) + (IF active[c] THEN 1 ELSE 0)
      BY <1>1 DEF RefCountExact
    <3> QED
      BY <1>2, <1>5, <2>2, <2>4, <3>1, HoldersFinite
  <2>5. CASE d # c
    BY <1>2, <2>3, <2>5 DEF RefCountExact, TypeOK
  <2> QED
    BY <2>4, <2>5
<1>9. HeldSessionIsLive'
  BY <1>2, <1>4, <1>5 DEF HeldSessionIsLive
<1>10. ZeroIsFinal'
  <2>1. ref_count[c] \in Nat /\ ref_count[c] # 0
    <3>1. t \in Holders(c)
      BY <1>0, <1>1 DEF Holders
    <3> QED
      BY <1>1, <3>1, CountMeaning
  <2>2. \A u \in Thread \ {t} : SawZero(u)' <=> SawZero(u)
    BY <1>4 DEF SawZero
  <2>3. \A u \in Thread : SawZero(u) => session[u] # c
    BY <2>1 DEF ZeroIsFinal
  <2>4. SawZero(t)' => ref_count'[c] = 0
    BY <1>5, <2>1 DEF SawZero
  <2>5. \A d \in Cell : d # c => ref_count'[d] = ref_count[d]
    BY <1>2 DEF TypeOK
  <2> SUFFICES ASSUME NEW u \in Thread, SawZero(u)'
               PROVE  /\ mem[session[u]] = "live"
                      /\ ref_count'[session[u]] = 0
                      /\ \A v \in Thread :
                           (SawZero(v)' /\ session[v] = session[u]) => v = u
    BY <1>2 DEF ZeroIsFinal
  <2>6. CASE u = t
    BY <1>1, <2>2, <2>3, <2>4, <2>6
  <2>7. CASE u # t
    <3>1. SawZero(u) /\ session[u] \in Cell /\ session[u] # c
      BY <2>2, <2>3, <2>7 DEF SawZero, PointersOK
    <3> QED
      BY <1>1, <2>2, <2>5, <3>1 DEF ZeroIsFinal
  <2> QED
    BY <2>6, <2>7
<1> QED
  BY <1>3, <1>6, <1>7, <1>8, <1>9, <1>10

\* Freeing a session whose count is zero disturbs nobody.
LEMMA FreeAtZero ==
  ASSUME IndInv, NEW t \in Thread, SawZero(t), NEW c \in Cell, c = session[t]
  PROVE  /\ mem[c] = "live"
         /\ ~ active[c]
         /\ \A u \in Thread : pc[u] = "using" => session[u] # c
         /\ \A u \in Thread \ {t} : SawZero(u) => session[u] # c
<1> USE DEF IndInv
<1>1. mem[c] = "live" /\ ref_count[c] = 0
  BY DEF ZeroIsFinal
<1>2. Holders(c) = {} /\ ~ active[c]
  BY <1>1, CountMeaning
<1>3. \A u \in Thread : pc[u] = "using" => session[u] # c
  BY <1>2 DEF Holders
<1> QED
  BY <1>1, <1>2, <1>3 DEF ZeroIsFinal

\* The second half of a put, with or without the free.
LEMMA PutFreeStep ==
  ASSUME IndInv, NEW t \in Thread, PutFree(t)
  PROVE  IndInv'
<1> USE DEF IndInv
<1>0. pc[t] = "putting"
  BY DEF PutFree
<1>1. PICK c \in Cell : c = session[t]
  BY <1>0 DEF PointersOK
<1>2. /\ \/ final_ref_count[t] <= 0 /\ FreeSession(c)
         \/ UNCHANGED <<mem, keys>>
      /\ pc' = [pc EXCEPT ![t] = "idle"]
      /\ session' = [session EXCEPT ![t] = Nil]
      /\ final_ref_count' = [final_ref_count EXCEPT ![t] = 0]
      /\ request' = [request EXCEPT ![t] = 0]
      /\ UNCHANGED <<session_id, active, ref_count, next_key_id, sessions,
                     active_sessions_count, next_session_id, sessions_mutex,
                     torn>>
  BY <1>1 DEF PutFree, Return, Goto, registry
<1>3. TypeOK'
  <2>1. 0 \in Id
    BY SessionAssumption DEF Id
  <2>2. mem' \in [Cell -> {"none", "live", "freed"}]
        /\ keys' \in [Cell -> SUBSET (1 .. MaxKeys)]
    BY <1>1, <1>2 DEF FreeSession, TypeOK
  <2> QED
    BY <1>2, <2>1, <2>2 DEF TypeOK, PC
<1>4. \A u \in Thread \ {t} : /\ pc'[u] = pc[u]
                              /\ session'[u] = session[u]
                              /\ final_ref_count'[u] = final_ref_count[u]
  BY <1>2 DEF TypeOK
<1>5. pc'[t] = "idle"
  BY <1>2 DEF TypeOK
<1>6. \A d \in Cell : \/ mem'[d] = mem[d]
                      \/ SawZero(t) /\ d = c /\ mem'[d] = "freed"
  BY <1>0, <1>1, <1>2 DEF FreeSession, SawZero, TypeOK
<1>7. PointersOK'
  BY <1>2, <1>4, <1>5, <1>6 DEF PointersOK
<1>8. ListOK'
  <2>1. \A d \in Cell : active[d] => mem'[d] = "live"
    BY <1>1, <1>6, FreeAtZero DEF ListOK
  <2> QED
    BY <1>0, <1>2, <1>4, <1>5, <2>1 DEF ListOK
<1>9. RefCountExact'
  <2>1. \A d \in Cell : Holders(d)' = Holders(d)
    BY <1>0, <1>4, <1>5 DEF Holders
  <2>2. \A d \in Cell : mem'[d] = "live" => mem[d] = "live"
    BY <1>6
  <2> QED
    BY <1>2, <2>1, <2>2, CountsUntouched
<1>10. HeldSessionIsLive'
  BY <1>1, <1>4, <1>5, <1>6, FreeAtZero DEF HeldSessionIsLive, PointersOK
<1>11. ZeroIsFinal'
  <2>1. \A u \in Thread : SawZero(u)' => u # t /\ SawZero(u)
    BY <1>4, <1>5 DEF SawZero
  <2>2. \A u \in Thread : SawZero(u)' => mem'[session[u]] = "live"
    BY <1>1, <1>6, <2>1, FreeAtZero DEF ZeroIsFinal, PointersOK, SawZero
  <2> QED
    BY <1>2, <1>4, <2>1, <2>2 DEF ZeroIsFinal
<1> QED
  BY <1>3, <1>7, <1>8, <1>9, <1>10, <1>11
\* The first half of a close: the session is open, so the count it takes from
\* is at least one, and if it drops to zero nobody saw zero before.
LEMMA CloseSessionStep ==
  ASSUME IndInv, NEW t \in Thread, NEW id \in Id, CloseSession(t, id)
  PROVE  IndInv'
<1> USE DEF IndInv
<1>0. /\ pc[t] = "idle"
      /\ sessions_mutex = Nil
      /\ find_session_locked(id) # Nil
  BY DEF CloseSession, LockFree
<1>1. PICK c \in Cell : /\ c = find_session_locked(id)
                        /\ \E i \in 1 .. Len(sessions) : c = sessions[i]
  BY <1>0, FindInList
<1>2. /\ active' = [active EXCEPT ![c] = FALSE]
      /\ ref_count' = [ref_count EXCEPT ![c] = @ - 1]
      /\ final_ref_count' = [final_ref_count EXCEPT ![t] = ref_count[c] - 1]
      /\ session' = [session EXCEPT ![t] = c]
      /\ sessions_mutex' = t
      /\ pc' = [pc EXCEPT ![t] = "closing"]
      /\ UNCHANGED <<mem, session_id, keys, next_key_id, sessions,
                     active_sessions_count, next_session_id, request, torn>>
  BY <1>1 DEF CloseSession, Goto, registry
<1>3. \A u \in Thread : pc[u] # "closing"
  BY <1>0, SessionAssumption DEF PointersOK
<1>4. active[c] /\ mem[c] = "live"
  BY <1>1, <1>3 DEF ListOK
<1>5. TypeOK'
  <2>1. ref_count[c] - 1 \in Int
    BY <1>1 DEF TypeOK
  <2>2. active' \in [Cell -> BOOLEAN]
    BY <1>1, <1>2 DEF TypeOK
  <2> QED
    BY <1>1, <1>2, <2>1, <2>2 DEF TypeOK, PC
<1>6. \A u \in Thread \ {t} : /\ pc'[u] = pc[u]
                              /\ session'[u] = session[u]
                              /\ final_ref_count'[u] = final_ref_count[u]
  BY <1>2 DEF TypeOK
<1>7. /\ pc'[t] = "closing"
      /\ session'[t] = c
      /\ final_ref_count'[t] = ref_count[c] - 1
      /\ ref_count'[c] = ref_count[c] - 1
      /\ ~ active'[c]
  BY <1>1, <1>2 DEF TypeOK
<1>8. \A d \in Cell : d # c => /\ active'[d] = active[d]
                              /\ ref_count'[d] = ref_count[d]
  BY <1>2 DEF TypeOK
<1>9. PointersOK'
  BY <1>1, <1>2, <1>3, <1>4, <1>6, <1>7 DEF PointersOK
<1>10. ListOK'
  <2>1. \A i \in 1 .. Len(sessions) :
          sessions[i] \in Cell /\ (active[sessions[i]] \/ sessions[i] = c)
    BY <1>3 DEF ListOK, TypeOK
  <2>2. \A d \in Cell : active'[d] => mem'[d] = "live"
    BY <1>2, <1>7, <1>8 DEF ListOK
  <2>3. \A i \in 1 .. Len(sessions) :
          active'[sessions[i]] \/ (pc'[t] = "closing" /\ session'[t] = sessions[i])
    BY <1>7, <1>8, <2>1
  <2> QED
    BY <1>2, <2>2, <2>3 DEF ListOK
<1>11. \A d \in Cell : Holders(d)' = Holders(d)
  BY <1>0, <1>6, <1>7 DEF Holders
<1>12. RefCountExact'
  <2> SUFFICES ASSUME NEW d \in Cell, mem'[d] = "live"
               PROVE  ref_count'[d] = Cardinality(Holders(d))
                                      + (IF active'[d] THEN 1 ELSE 0)
    BY <1>11 DEF RefCountExact
  <2>1. CASE d = c
    <3>1. ref_count[c] = Cardinality(Holders(c)) + 1
      BY <1>4 DEF RefCountExact
    <3> QED
      BY <1>7, <2>1, <3>1, HoldersFinite
  <2>2. CASE d # c
    BY <1>2, <1>8, <2>2 DEF RefCountExact
  <2> QED
    BY <2>1, <2>2
<1>13. HeldSessionIsLive'
  BY <1>2, <1>6, <1>7 DEF HeldSessionIsLive
<1>14. ZeroIsFinal'
  <2>1. ref_count[c] \in Nat /\ ref_count[c] # 0
    BY <1>4, CountMeaning
  <2>2. \A u \in Thread \ {t} : SawZero(u)' <=> SawZero(u)
    BY <1>6 DEF SawZero
  <2>3. \A u \in Thread : SawZero(u) => session[u] # c
    BY <2>1 DEF ZeroIsFinal
  <2>4. SawZero(t)' => ref_count'[c] = 0
    BY <1>7, <2>1 DEF SawZero
  <2> SUFFICES ASSUME NEW u \in Thread, SawZero(u)'
               PROVE  /\ mem[session'[u]] = "live"
                      /\ ref_count'[session'[u]] = 0
                      /\ \A v \in Thread :
                           (SawZero(v)' /\ session'[v] = session'[u]) => v = u
    BY <1>2 DEF ZeroIsFinal
  <2>5. CASE u = t
    BY <1>4, <1>6, <1>7, <2>2, <2>3, <2>4, <2>5
  <2>6. CASE u # t
    <3>1. /\ SawZero(u) /\ session'[u] = session[u]
          /\ session[u] \in Cell /\ session[u] # c
      BY <1>6, <2>2, <2>3, <2>6 DEF SawZero, PointersOK
    <3> QED
      BY <1>6, <1>7, <1>8, <2>2, <3>1 DEF ZeroIsFinal
  <2> QED
    BY <2>5, <2>6
<1> QED
  BY <1>5, <1>9, <1>10, <1>12, <1>13, <1>14

\* The second half of a close: whatever the unlink read, the list keeps only
\* open sessions, and the free happens only at zero.
LEMMA CloseFinishStep ==
  ASSUME IndInv, NEW t \in Thread, CloseFinish(t)
  PROVE  IndInv'
<1> USE DEF IndInv
<1>0. pc[t] = "closing"
  BY DEF CloseFinish
<1>1. PICK c \in Cell : c = session[t]
  BY <1>0 DEF PointersOK
<1>2. /\ Unlink(c)
      /\ \/ final_ref_count[t] <= 0 /\ FreeSession(c)
         \/ UNCHANGED <<mem, keys>>
      /\ torn' = (torn \/ mem[c] = "freed")
      /\ active_sessions_count' = active_sessions_count - 1
      /\ sessions_mutex' = Nil
      /\ pc' = [pc EXCEPT ![t] = "idle"]
      /\ session' = [session EXCEPT ![t] = Nil]
      /\ final_ref_count' = [final_ref_count EXCEPT ![t] = 0]
      /\ request' = [request EXCEPT ![t] = 0]
      /\ UNCHANGED <<session_id, active, ref_count, next_key_id,
                     next_session_id>>
  BY <1>1 DEF CloseFinish, Return, Goto
<1>3. /\ sessions' \in Seq(Cell)
      /\ \A i \in 1 .. Len(sessions') :
           /\ sessions'[i] # c
           /\ \E j \in 1 .. Len(sessions) : sessions'[i] = sessions[j]
      /\ \A i, j \in 1 .. Len(sessions') :
           sessions'[i] = sessions'[j] => i = j
  BY <1>2, UnlinkResult
<1>4. TypeOK'
  <2>1. 0 \in Id
    BY SessionAssumption DEF Id
  <2>2. mem' \in [Cell -> {"none", "live", "freed"}]
        /\ keys' \in [Cell -> SUBSET (1 .. MaxKeys)]
    BY <1>1, <1>2 DEF FreeSession, TypeOK
  <2>3. torn' \in BOOLEAN
    BY <1>2
  <2> QED
    BY <1>2, <1>3, <2>1, <2>2, <2>3 DEF TypeOK, PC
<1>5. \A u \in Thread \ {t} : /\ pc'[u] = pc[u]
                              /\ session'[u] = session[u]
                              /\ final_ref_count'[u] = final_ref_count[u]
                              /\ pc[u] # "closing"
  BY <1>0, <1>2 DEF TypeOK, PointersOK
<1>6. pc'[t] = "idle"
  BY <1>2 DEF TypeOK
<1>7. \A d \in Cell : \/ mem'[d] = mem[d]
                      \/ SawZero(t) /\ d = c /\ mem'[d] = "freed"
  BY <1>0, <1>1, <1>2 DEF FreeSession, SawZero, TypeOK
<1>8. PointersOK'
  BY <1>2, <1>5, <1>6, <1>7 DEF PointersOK
<1>9. ListOK'
  <2>1. \A d \in Cell : active[d] => mem'[d] = "live"
    BY <1>1, <1>7, FreeAtZero DEF ListOK
  <2>2. \A j \in 1 .. Len(sessions) : active[sessions[j]] \/ sessions[j] = c
    BY <1>1, <1>5 DEF ListOK
  <2>3. \A i \in 1 .. Len(sessions') : active'[sessions'[i]]
    BY <1>2, <1>3, <2>2
  <2> QED
    BY <1>2, <1>3, <2>1, <2>3 DEF ListOK
<1>10. RefCountExact'
  <2>1. \A d \in Cell : Holders(d)' = Holders(d)
    BY <1>0, <1>5, <1>6 DEF Holders
  <2>2. \A d \in Cell : mem'[d] = "live" => mem[d] = "live"
    BY <1>7
  <2> QED
    BY <1>2, <2>1, <2>2, CountsUntouched
<1>11. HeldSessionIsLive'
  BY <1>1, <1>5, <1>6, <1>7, FreeAtZero DEF HeldSessionIsLive, PointersOK
<1>12. ZeroIsFinal'
  <2>1. \A u \in Thread : SawZero(u)' => u # t /\ SawZero(u)
    BY <1>5, <1>6 DEF SawZero
  <2>2. \A u \in Thread : SawZero(u)' => mem'[session[u]] = "live"
    BY <1>1, <1>7, <2>1, FreeAtZero DEF ZeroIsFinal, PointersOK, SawZero
  <2> QED
    BY <1>2, <1>5, <2>1, <2>2 DEF ZeroIsFinal
<1> QED
  BY <1>4, <1>8, <1>9, <1>10, <1>11, <1>12

-----------------------------------------------------------------------------
(* The theorems *)

\* Every step of every thread keeps the invariant.
LEMMA NextIndInv == IndInv /\ [Next]_vars => IndInv'
<1> SUFFICES ASSUME IndInv, [Next]_vars PROVE IndInv'
  OBVIOUS
<1>1. ASSUME UNCHANGED vars PROVE IndInv'
  <2> USE <1>1 DEF vars, fields, registry, locals
  <2>1. TypeOK' /\ PointersOK' /\ ListOK' /\ HeldSessionIsLive'
    BY DEF IndInv, TypeOK, PointersOK, ListOK, HeldSessionIsLive
  <2>2. RefCountExact' /\ ZeroIsFinal'
    BY DEF IndInv, RefCountExact, Holders, ZeroIsFinal, SawZero
  <2> QED
    BY <2>1, <2>2 DEF IndInv
<1>2. ASSUME NEW t \in Thread, NEW id \in Id,
             ValidateSession(t, id) \/ CloseSession(t, id) \/ CloseUnknown(t, id)
      PROVE  IndInv'
  <2>1. CASE CloseUnknown(t, id)
    BY <1>1, <2>1 DEF CloseUnknown
  <2> QED
    BY <1>2, <2>1, ValidateSessionStep, CloseSessionStep
<1>3. ASSUME NEW t \in Thread, GetFirst(t) \/ GetValidated(t)
      PROVE  IndInv'
  <2>1. CASE GetFirst(t)
    BY <2>1, GetSessionStep DEF GetFirst
  <2>2. CASE GetValidated(t)
    <3>1. pc[t] = "validated" /\ request[t] \in Id
      BY <2>2 DEF GetValidated, IndInv, TypeOK
    <3>2. CASE GetSession(t, request[t])
      BY <3>1, <3>2, GetSessionStep
    <3>3. CASE Return(t) /\ UNCHANGED <<mem, fields, registry, sessions_mutex, torn>>
      BY <3>1, <3>3, LookupFailedStep
    <3> QED
      BY <2>2, <3>2, <3>3 DEF GetValidated
  <2> QED
    BY <1>3, <2>1, <2>2
<1>4. ASSUME NEW t \in Thread,
             CreateSession(t) \/ CreateKey(t) \/ DestroyKey(t)
             \/ PutSession(t) \/ PutFree(t) \/ CloseFinish(t)
      PROVE  IndInv'
  BY <1>4, CreateSessionStep, KeyStep, PutSessionStep, PutFreeStep,
     CloseFinishStep
<1> QED
  BY <1>1, <1>2, <1>3, <1>4 DEF Next

\* The inductive invariant holds throughout every behaviour.
LEMMA SpecIndInv == Spec => []IndInv
<1>1. IndInv /\ [Next]_vars => IndInv'
  BY NextIndInv
<1> QED
  BY InitIndInv, <1>1, PTL DEF Spec

\* The variables keep their types.
THEOREM TypeCorrect == Spec => []TypeOK
<1>1. IndInv => TypeOK
  BY DEF IndInv
<1> QED
  BY SpecIndInv, <1>1, PTL

\* For any number of sessions and workers: no session is freed while a worker
\* is between get_session and put_session on it.
THEOREM HeldSessionNeverFreed == Spec => []HeldSessionIsLive
<1>1. IndInv => HeldSessionIsLive
  BY DEF IndInv
<1> QED
  BY SpecIndInv, <1>1, PTL

\* ref_count counts exactly the list's reference and the workers'.
THEOREM ReferenceCountExact == Spec => []RefCountExact
<1>1. IndInv => RefCountExact
  BY DEF IndInv
<1> QED
  BY SpecIndInv, <1>1, PTL

\* free() is called once: by a thread that finds the session allocated and is
\* the only one about to free it.
THEOREM SessionFreedOnce == Spec => []FreedOnce
<1>1. IndInv => FreedOnce
  BY DEF IndInv, FreedOnce, WillFree, ZeroIsFinal, SawZero
<1> QED
  BY SpecIndInv, <1>1, PTL

-----------------------------------------------------------------------------
(* The list and the counter *)

Open == {c \in Cell : active[c]}
Listed(c) == \E i \in 1 .. Len(sessions) : sessions[i] = c

\* No open session is missing from the list until an unlink reads a freed
\* cell.  A close in progress is still counted.
CountInv ==
  /\ torn \/ \A c \in Cell : active[c] => Listed(c)
  /\ \A t \in Thread : pc[t] = "closing" => ~ active[session[t]]
  /\ IsFiniteSet(Open)
  /\ active_sessions_count = Cardinality(Open) + (IF LockFree THEN 0 ELSE 1)

\* An unlink that read allocated memory drops the closed session only.
LEMMA UnlinkKeepsOthers ==
  ASSUME TypeOK, NEW c \in Cell, Unlink(c), mem[c] # "freed",
         NEW d \in Cell, d # c, Listed(d)
  PROVE  Listed(d)'
<1>0. sessions \in Seq(Cell) /\ Len(sessions) \in Nat
  BY DEF TypeOK
<1>1. PICK k \in 1 .. Len(sessions) :
        /\ sessions[k] = c
        /\ sessions' = SubSeq(sessions, 1, k - 1) \o SubSeq(sessions, k + 1, Len(sessions))
  BY DEF Unlink
<1>2. /\ Len(sessions') = Len(sessions) - 1
      /\ \A i \in 1 .. Len(sessions) - 1 :
           sessions'[i] = IF i < k THEN sessions[i] ELSE sessions[i + 1]
  BY <1>0, <1>1, RemoveEntry
<1>3. PICK j \in 1 .. Len(sessions) : sessions[j] = d
  BY DEF Listed
<1>4. j # k
  BY <1>1, <1>3
<1>5. CASE j < k
  <2>1. j \in 1 .. Len(sessions') /\ sessions'[j] = d
    BY <1>0, <1>2, <1>3, <1>5
  <2> QED
    BY <2>1 DEF Listed
<1>6. CASE j > k
  <2>1. j - 1 \in 1 .. Len(sessions') /\ ~ (j - 1 < k) /\ (j - 1) + 1 = j
    BY <1>0, <1>2, <1>6
  <2>2. sessions'[j - 1] = d
    BY <1>2, <1>3, <2>1
  <2> QED
    BY <2>1, <2>2 DEF Listed
<1> QED
  BY <1>0, <1>4, <1>5, <1>6

\* Every step keeps list and counter in agreement.
LEMMA NextCount == IndInv /\ IndInv' /\ CountInv /\ [Next]_vars => CountInv'
<1> SUFFICES ASSUME IndInv, IndInv', CountInv, [Next]_vars PROVE CountInv'
  OBVIOUS
<1>t. TypeOK /\ PointersOK /\ ListOK /\ active \in [Cell -> BOOLEAN]
  BY DEF IndInv, TypeOK
<1>f. IsFiniteSet(Open) /\ Cardinality(Open) \in Nat
  BY FS_CardinalityType DEF CountInv
<1>1. ASSUME UNCHANGED <<active, sessions, active_sessions_count, sessions_mutex, torn>>,
             \A t \in Thread : pc'[t] = "closing" => pc[t] = "closing" /\ session'[t] = session[t]
      PROVE  CountInv'
  BY <1>1 DEF CountInv, Open, Listed, LockFree
<1>q. LockFree => \A t \in Thread : pc[t] # "closing"
  BY <1>t, SessionAssumption DEF LockFree, PointersOK
<1>r. LockFree' => \A t \in Thread : pc'[t] # "closing"
  BY SessionAssumption DEF LockFree, IndInv, PointersOK
<1>2. ASSUME NEW t \in Thread, CreateSession(t) PROVE CountInv'
  <2>1. PICK c \in Cell : /\ mem[c] = "none" /\ active' = [active EXCEPT ![c] = TRUE]
                          /\ sessions' = <<c>> \o sessions
    BY <1>2 DEF CreateSession
  <2>2. /\ LockFree /\ LockFree' /\ torn' = torn
        /\ active_sessions_count' = active_sessions_count + 1
    BY <1>2 DEF CreateSession, LockFree
  <2>3. c \notin Open /\ Open' = Open \cup {c}
    BY <1>t, <2>1 DEF Open, ListOK
  <2>4. IsFiniteSet(Open') /\ Cardinality(Open') = Cardinality(Open) + 1
    BY <1>f, <2>3, FS_AddElement
  <2>5. \A d \in Cell : d = c \/ Listed(d) => Listed(d)'
    <3>1. sessions \in Seq(Cell) /\ <<c>> \in Seq(Cell) /\ Len(<<c>>) = 1 /\ <<c>>[1] = c
      BY <1>t DEF TypeOK
    <3>2. /\ Len(sessions') = 1 + Len(sessions) /\ Len(sessions) \in Nat
          /\ sessions'[1] = c
          /\ \A i \in 1 .. Len(sessions) : sessions'[i + 1] = sessions[i]
      BY <2>1, <3>1
    <3> QED
      BY <3>2 DEF Listed
  <2>6. torn' \/ \A d \in Cell : active'[d] => Listed(d)'
    BY <1>t, <2>1, <2>2, <2>5 DEF CountInv
  <2> QED
    BY <1>f, <1>r, <2>2, <2>4, <2>6 DEF CountInv
<1>3. ASSUME NEW t \in Thread, NEW id \in Id, CloseSession(t, id) PROVE CountInv'
  <2>1. PICK c \in Cell : /\ c = find_session_locked(id)
                          /\ active' = [active EXCEPT ![c] = FALSE]
    BY <1>3, <1>t, FindInList DEF CloseSession
  <2>2. /\ LockFree /\ ~ LockFree'
        /\ UNCHANGED <<sessions, active_sessions_count, torn>>
    BY <1>3, SessionAssumption DEF CloseSession, LockFree, registry
  <2>3. PICK i \in 1 .. Len(sessions) : sessions[i] = c
    BY <1>3, <1>t, <2>1, FindInList DEF CloseSession
  <2>4. c \in Open
    BY <1>t, <2>2, <2>3, SessionAssumption DEF ListOK, PointersOK, LockFree, Open
  <2>5. Open' = Open \ {c}
    BY <1>t, <2>1 DEF Open
  <2>6. IsFiniteSet(Open') /\ Cardinality(Open') = Cardinality(Open) - 1
    BY <1>f, <2>4, <2>5, FS_RemoveElement
  <2>7. torn' \/ \A d \in Cell : active'[d] => Listed(d)'
    BY <1>t, <2>1, <2>2 DEF CountInv, Listed
  <2>8. \A u \in Thread : pc'[u] = "closing" => session'[u] = c
    BY <1>3, <1>t, <1>q, <2>1, <2>2 DEF CloseSession, Goto, TypeOK
  <2>9. \A u \in Thread : pc'[u] = "closing" => ~ active'[session'[u]]
    BY <1>t, <2>1, <2>8
  <2> QED
    BY <1>f, <2>2, <2>6, <2>7, <2>9 DEF CountInv
<1>4. ASSUME NEW t \in Thread, CloseFinish(t) PROVE CountInv'
  <2>1. pc[t] = "closing" /\ session[t] \in Cell /\ sessions_mutex = t
    BY <1>4, <1>t DEF CloseFinish, PointersOK
  <2>2. ~ LockFree /\ LockFree'
    BY <1>4, <2>1, SessionAssumption DEF CloseFinish, LockFree
  <2>3. /\ active' = active /\ Unlink(session[t])
        /\ torn' = (torn \/ mem[session[t]] = "freed")
        /\ active_sessions_count' = active_sessions_count - 1
    BY <1>4 DEF CloseFinish
  <2>4. Open' = Open
    BY <2>3 DEF Open
  <2>5. ASSUME ~ torn, mem[session[t]] # "freed", NEW d \in Cell, active[d]
        PROVE  Listed(d)'
    <3>1. Listed(d)
      BY <2>5 DEF CountInv
    <3>2. d # session[t]
      BY <2>1, <2>5 DEF CountInv
    <3> QED
      BY <1>t, <2>1, <2>3, <2>5, <3>1, <3>2, UnlinkKeepsOthers
  <2>6. torn' \/ \A d \in Cell : active'[d] => Listed(d)'
    BY <2>3, <2>5
  <2> QED
    BY <1>f, <1>r, <2>2, <2>3, <2>4, <2>6 DEF CountInv
<1>5. ASSUME NEW t \in Thread,
             \/ \E id \in Id : ValidateSession(t, id) \/ CloseUnknown(t, id)
             \/ GetFirst(t) \/ GetValidated(t) \/ CreateKey(t) \/ DestroyKey(t)
             \/ PutSession(t) \/ PutFree(t)
      PROVE  CountInv'
  <2>1. /\ UNCHANGED <<active, sessions, active_sessions_count, sessions_mutex, torn>>
        /\ \/ UNCHANGED <<pc, session>>
           \/ /\ \E l \in {"idle", "validated", "using", "putting"} : pc' = [pc EXCEPT ![t] = l]
              /\ session' = session \/ \E s : session' = [session EXCEPT ![t] = s]
    BY <1>5 DEF ValidateSession, CloseUnknown, GetFirst, GetValidated, GetSession, CreateKey,
         DestroyKey, PutSession, PutFree, Return, Goto, vars, fields, registry, locals
  <2>2. \A u \in Thread : pc'[u] = "closing" => pc[u] = "closing" /\ session'[u] = session[u]
    BY <1>t, <2>1 DEF TypeOK
  <2> QED
    BY <1>1, <2>1, <2>2
<1>6. CASE UNCHANGED vars
  BY <1>1, <1>6 DEF vars, fields, registry, locals
<1> QED
  BY <1>2, <1>3, <1>4, <1>5, <1>6 DEF Next

\* List and counter agree in every reachable state.
LEMMA SpecCountInv == Spec => []CountInv
<1>1. Init => CountInv
  <2> SUFFICES ASSUME Init PROVE CountInv
    OBVIOUS
  <2>1. Open = {}
    BY DEF Init, Open
  <2>2. IsFiniteSet(Open) /\ Cardinality(Open) = 0
    BY <2>1, FS_EmptySet
  <2>3. active_sessions_count = 0 /\ LockFree
    BY DEF Init, LockFree
  <2>4. /\ \A c \in Cell : ~ active[c]
        /\ \A t \in Thread : pc[t] # "closing"
    BY DEF Init
  <2> QED
    BY <2>2, <2>3, <2>4 DEF CountInv
<1> QED
  BY <1>1, NextCount, SpecIndInv, PTL DEF Spec

\* Lookups traverse allocated, open sessions and at most one being closed, and
\* miss none while no unlink has read freed memory.
THEOREM RegistryStaysLive == Spec => []RegistryIsLive
<1>1. IndInv /\ CountInv => RegistryIsLive
  <2> SUFFICES ASSUME IndInv, CountInv PROVE RegistryIsLive
    OBVIOUS
  <2>1. \A i \in 1 .. Len(sessions) : sessions[i] \in Cell
    BY DEF IndInv, TypeOK
  <2> QED
    BY <2>1 DEF IndInv, ListOK, CountInv, Listed, RegistryIsLive
<1> QED
  BY <1>1, SpecIndInv, SpecCountInv, PTL

\* active_sessions_count is the number of open sessions between requests.
THEOREM OpenSessionsCounted == Spec => []CountIsOpenSessions
<1>1. CountInv => CountIsOpenSessions
  <2> SUFFICES ASSUME CountInv, LockFree
               PROVE  active_sessions_count = Cardinality({c \in Cell : active[c]})
    BY DEF CountIsOpenSessions
  <2>1. Cardinality(Open) \in Nat /\ active_sessions_count = Cardinality(Open) + 0
    BY FS_CardinalityType DEF CountInv
  <2>2. active_sessions_count = Cardinality(Open)
    BY <2>1
  <2> QED
    BY <2>2 DEF Open
<1> QED
  BY <1>1, SpecCountInv, PTL
=============================================================================
