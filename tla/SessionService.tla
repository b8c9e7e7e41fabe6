--------------------------- MODULE SessionService ---------------------------
(***************************************************************************)
(* What the session registry promises its callers, without lists, counts   *)
(* or locks.  A handle is opened once and closed once.  While it is open   *)
(* any worker may start using it; once it is closed no one new may, but    *)
(* those already inside finish undisturbed.  Only when the last of them is *)
(* out are the session and its keys destroyed, and then they always are.   *)
(***************************************************************************)
EXTENDS Naturals

CONSTANTS Handle, Worker, NoHandle, Key

VARIABLES
  state,    \* "unused", "open", "closed" or "gone", for each handle
  using,    \* the handle each worker is inside, or NoHandle
  keys      \* the keys each handle owns

vars == <<state, using, keys>>

Users(h) == {w \in Worker : using[w] = h}

Init ==
  /\ state = [h \in Handle |-> "unused"]
  /\ using = [w \in Worker |-> NoHandle]
  /\ keys = [h \in Handle |-> {}]

Open(h) ==
  /\ state[h] = "unused"
  /\ state' = [state EXCEPT ![h] = "open"]
  /\ UNCHANGED <<using, keys>>

Close(h) ==
  /\ state[h] = "open"
  /\ state' = [state EXCEPT ![h] = "closed"]
  /\ UNCHANGED <<using, keys>>

Enter(w, h) ==
  /\ state[h] = "open"
  /\ using[w] = NoHandle
  /\ using' = [using EXCEPT ![w] = h]
  /\ UNCHANGED <<state, keys>>

Leave(w) ==
  /\ using[w] # NoHandle
  /\ using' = [using EXCEPT ![w] = NoHandle]
  /\ UNCHANGED <<state, keys>>

\* Only a worker inside the session changes its keys.
ChangeKeys(w) ==
  /\ using[w] # NoHandle
  /\ \E K \in SUBSET Key : keys' = [keys EXCEPT ![using[w]] = K]
  /\ UNCHANGED <<state, using>>

Destroy(h) ==
  /\ state[h] = "closed"
  /\ Users(h) = {}
  /\ state' = [state EXCEPT ![h] = "gone"]
  /\ keys' = [keys EXCEPT ![h] = {}]
  /\ UNCHANGED using

Next ==
  \/ \E h \in Handle : Open(h) \/ Close(h) \/ Destroy(h)
  \/ \E w \in Worker : Leave(w) \/ ChangeKeys(w) \/ \E h \in Handle : Enter(w, h)

Fairness ==
  /\ \A w \in Worker : WF_vars(Leave(w))
  /\ \A h \in Handle : WF_vars(Destroy(h))

Spec == Init /\ [][Next]_vars /\ Fairness
=============================================================================
