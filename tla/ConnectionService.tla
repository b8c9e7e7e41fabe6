------------------------- MODULE ConnectionService -------------------------
(***************************************************************************)
(* What the daemon promises its clients, without threads, mutexes or       *)
(* condition variables.  Connections that have been accepted stand in one  *)
(* line and are served in the order in which they were accepted, so many   *)
(* at a time.  Only the newest in the line may be turned away, never one   *)
(* that others stand behind.  Requests are answered while their connection *)
(* is served, each once.  A connection that is over stays over, and when   *)
(* the service ends, nobody is being served.                               *)
(***************************************************************************)
EXTENDS Naturals, Sequences, FiniteSets

CONSTANTS
  Client,   \* the connections
  Places    \* how many can be served at a time

VARIABLES
  line,            \* accepted connections that are not served yet
  served,          \* those being served
  over,            \* those that were closed
  asked, answered, \* requests, per connection
  ended            \* the service has ended

vars == <<line, served, over, asked, answered, ended>>

InLine == {line[i] : i \in 1 .. Len(line)}

Init ==
  /\ line = <<>>
  /\ served = {} /\ over = {}
  /\ asked = [c \in Client |-> 0]
  /\ answered = [c \in Client |-> 0]
  /\ ended = FALSE

Arrive(c) ==
  /\ ~ ended
  /\ c \notin InLine \cup served \cup over
  /\ line' = Append(line, c)
  /\ UNCHANGED <<served, over, asked, answered, ended>>

TurnAway ==
  /\ line # <<>>
  /\ line' = SubSeq(line, 1, Len(line) - 1)
  /\ over' = over \cup {line[Len(line)]}
  /\ UNCHANGED <<served, asked, answered, ended>>

ServeNext ==
  /\ line # <<>>
  /\ Cardinality(served) < Places
  /\ served' = served \cup {Head(line)}
  /\ line' = Tail(line)
  /\ UNCHANGED <<over, asked, answered, ended>>

Ask(c) ==
  /\ c \notin over
  /\ asked' = [asked EXCEPT ![c] = @ + 1]
  /\ UNCHANGED <<line, served, over, answered, ended>>

Answer(c) ==
  /\ c \in served
  /\ answered[c] < asked[c]
  /\ answered' = [answered EXCEPT ![c] = @ + 1]
  /\ UNCHANGED <<line, served, over, asked, ended>>

Finish(c) ==
  /\ c \in served
  /\ served' = served \ {c}
  /\ over' = over \cup {c}
  /\ UNCHANGED <<line, asked, answered, ended>>

\* Whoever is still in the line is dropped with the process.
End ==
  /\ ~ ended
  /\ served = {}
  /\ line' = <<>>
  /\ ended' = TRUE
  /\ UNCHANGED <<served, over, asked, answered>>

Next ==
  \/ \E c \in Client : Arrive(c) \/ Ask(c) \/ Answer(c) \/ Finish(c)
  \/ TurnAway \/ ServeNext \/ End

Spec == Init /\ [][Next]_vars
=============================================================================
