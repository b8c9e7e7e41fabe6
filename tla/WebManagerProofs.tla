-------------------------- MODULE WebManagerProofs --------------------------
(***************************************************************************)
(* Proofs about WebManager, for any number of accounts, workers, changes,  *)
(* challenges and restarts.  Types come first; the other properties have   *)
(* an invariant each that uses them.                                       *)
(***************************************************************************)
EXTENDS WebManager, FiniteSetTheorems, TLAPS

(***************************************************************************)
(* Types                                                                   *)
(***************************************************************************)

\* A handler that has chosen an account, and a challenge, has them at hand.
JobOK(w) ==
  /\ pc[w] \in {"checked", "challenge", "granted", "verified"} => job[w].user \in Account
  /\ pc[w] = "verified" => job[w].challenge \in Challenge
  /\ pc[w] = "idle" => job[w].challenge = NoChallenge

RowsOK == \A c \in Challenge : challenges[c].row # "none" => challenges[c].user \in Account

TypeInv == TypeOK /\ RowsOK /\ \A w \in Worker : JobOK(w)

\* The constants of the model are of their types.
LEMMA Constants ==
  /\ Absent \in Record /\ \A super \in BOOLEAN : NewRecord(super) \in Record
  /\ NoUsers \in Users /\ NoJob \in Job /\ NoRow \in Row
  /\ Nobody \notin Account /\ Nobody \notin Worker
  /\ \A k \in FileKind : Unreadable(k) \in File
  /\ "none" \in FileKind /\ "empty" \in FileKind
<1>1. Absent \in Record /\ \A super \in BOOLEAN : NewRecord(super) \in Record
  BY DEF Absent, Record, Fields, NewRecord
<1>2. NoUsers \in Users
  BY <1>1 DEF NoUsers, Users
<1>3. NoJob \in Job /\ NoRow \in Row
  BY DEF NoJob, Job, NoRow, Row, Purge, NoChallenge
<1>4. Nobody \notin Account /\ Nobody \notin Worker
  BY WebAssumption
<1>5. \A k \in FileKind : Unreadable(k) \in File
  BY <1>2 DEF Unreadable, File
<1>6. "none" \in FileKind /\ "empty" \in FileKind
  BY DEF FileKind
<1> QED
  BY <1>1, <1>2, <1>3, <1>4, <1>5, <1>6

\* An empty device.
LEMMA InitType == Init => TypeInv
<1> SUFFICES ASSUME Init PROVE TypeInv
  OBVIOUS
<1>1. TypeOK
  <2>1. /\ MaxChallenges \in Nat /\ MaxChanges \in Nat
        /\ state \in File /\ temp \in File
    BY Constants, WebAssumption DEF Init
  <2>2. /\ failures \in [password : Nat, ukey : Nat]
        /\ challenges \in [Challenge -> Row]
    BY Constants DEF Init
  <2>3. /\ job \in [Worker -> Job] /\ copy \in [Worker -> Users] /\ pc \in [Worker -> PC]
        /\ stream \in [Worker -> {"none", "temp", "state", "lost"}]
    BY Constants DEF Init, PC
  <2>4. tables \in BOOLEAN /\ overlap \in BOOLEAN /\ shared \in BOOLEAN
    BY DEF Init
  <2>5. /\ lock \in Worker \cup {Nobody} /\ maintenance \in Worker \cup {Nobody}
        /\ sessions \in SUBSET Account /\ admitted \in [Challenge -> Nat]
        /\ issued \in 0 .. MaxChallenges
        /\ changes \in 0 .. MaxChanges
    BY <2>1 DEF Init
  <2> QED
    BY <2>1, <2>2, <2>3, <2>4, <2>5 DEF TypeOK
<1>2. RowsOK /\ \A w \in Worker : JobOK(w)
  BY DEF Init, RowsOK, JobOK, NoRow, NoJob
<1> QED
  BY <1>1, <1>2 DEF TypeInv

\* A change of the fields of one account is a change of accounts.
LEMMA UserTypes ==
  ASSUME TypeOK, NEW u \in Account
  PROVE  /\ \A r \in Record : [state.users EXCEPT ![u] = r] \in Users
         /\ \A b \in BOOLEAN : User(u).exists => [state.users EXCEPT ![u].ukey = b] \in Users
<1>1. state.users \in [Account -> Record]
  BY DEF TypeOK, File, Users
<1>2. \A b \in BOOLEAN : User(u).exists => [User(u) EXCEPT !.ukey = b] \in Record
  BY <1>1 DEF User, Record, Fields
<1> QED
  BY <1>1, <1>2 DEF Users, User

\* Fields of a job.
LEMMA JobFields ==
  ASSUME NEW j \in Job
  PROVE  /\ \A u \in Account :
              /\ [j EXCEPT !.user = u] \in Job
              /\ [j EXCEPT !.user = u].user = u
              /\ [j EXCEPT !.user = u].challenge = j.challenge
              /\ [j EXCEPT !.actor = u] \in Job
         /\ \A u \in Account \cup {Nobody}, p \in Purge :
              [j EXCEPT !.user = u, !.purge = p] \in Job
         /\ \A u \in Account, b \in BOOLEAN :
              /\ [j EXCEPT !.user = u, !.enable = b] \in Job
              /\ [j EXCEPT !.user = u, !.enable = b].user = u
              /\ [j EXCEPT !.user = u, !.enable = b].enable = b
         /\ \A u \in Account, c \in Challenge :
              /\ [j EXCEPT !.user = u, !.challenge = c] \in Job
              /\ [j EXCEPT !.user = u, !.challenge = c].user = u
              /\ [j EXCEPT !.user = u, !.challenge = c].challenge = c
BY DEF Job

\* Steps of one handler: the rest is for the other variables.
LEMMA JobType ==
  ASSUME TypeInv, NEW w \in Worker, NEW l \in PC, NEW j \in Job,
         pc' = [pc EXCEPT ![w] = l], job' = [job EXCEPT ![w] = j],
         l \in {"checked", "challenge", "granted", "verified"} => j.user \in Account,
         l = "verified" => j.challenge \in Challenge,
         l = "idle" => j.challenge = NoChallenge
  PROVE  /\ pc' \in [Worker -> PC] /\ job' \in [Worker -> Job]
         /\ pc'[w] = l /\ job'[w] = j
         /\ \A v \in Worker : JobOK(v)'
BY DEF TypeInv, TypeOK, JobOK

\* A handler that returns.
LEMMA ReturnType ==
  ASSUME TypeInv, NEW w \in Worker, Return(w)
  PROVE  /\ pc' \in [Worker -> PC] /\ job' \in [Worker -> Job] /\ copy' \in [Worker -> Users]
         /\ \A v \in Worker : JobOK(v)'
<1>1. NoJob \in Job /\ NoUsers \in Users /\ NoJob.challenge = NoChallenge /\ "idle" \in PC
  BY Constants DEF NoJob, PC
<1>2. copy' \in [Worker -> Users]
  BY <1>1 DEF TypeInv, TypeOK, Return
<1> QED
  BY <1>1, <1>2, JobType DEF Return, Goto

\* A handler that has changed its copy.
LEMMA ChangeType ==
  ASSUME TypeInv, NEW w \in Worker, NEW users \in Users,
         NEW user \in Account \cup {Nobody}, NEW purge \in Purge,
         Change(w, users, user, purge), lock' \in Worker \cup {Nobody}
  PROVE  TypeInv'
<1> DEFINE j == [NoJob EXCEPT !.user = user, !.purge = purge]
<1>t. TypeOK /\ job[w] \in Job /\ RowsOK
  BY DEF TypeInv, TypeOK
<1>1. j \in Job
  BY Constants, JobFields
<1>2. job' = [job EXCEPT ![w] = j]
  BY DEF Change
<1>3. /\ pc' \in [Worker -> PC] /\ job' \in [Worker -> Job]
      /\ \A v \in Worker : JobOK(v)'
  <2> HIDE DEF j
  <2> QED
    BY <1>1, <1>2, JobType DEF Change, Goto, PC
<1>4. TypeOK'
  BY <1>t, <1>3, WebAssumption DEF TypeOK, Change, NotesOverlap, files, database, ghosts
<1>5. RowsOK'
  BY <1>t DEF RowsOK, Change, database
<1> QED
  BY <1>3, <1>4, <1>5 DEF TypeInv

\* Handlers that change accounts, and those that stop before they do.
LEMMA AdministerType ==
  ASSUME TypeInv, NEW w \in Worker, Administer(w)
  PROVE  TypeInv'
<1>t. TypeOK /\ RowsOK /\ JobOK(w) /\ job[w] \in Job
  BY DEF TypeInv, TypeOK
<1>l. lock \in Worker \cup {Nobody} /\ w \in Worker \cup {Nobody}
  BY <1>t DEF TypeOK
<1>p. {"nothing", "sessions", "challenges", "all"} \subseteq Purge
  BY DEF Purge
<1>1. ASSUME Authorise(w) PROVE TypeInv'
  <2>1. PICK a \in sessions :
          \/ /\ Goto(w, "authorised") /\ job' = [job EXCEPT ![w].actor = a]
             /\ UNCHANGED sessions
          \/ sessions' = sessions \ {a} /\ UNCHANGED <<pc, job>>
    BY <1>1 DEF Authorise
  <2>2. sessions' \in SUBSET Account /\ a \in Account
    BY <1>t, <2>1 DEF TypeOK
  <2>3. pc' \in [Worker -> PC] /\ job' \in [Worker -> Job] /\ \A v \in Worker : JobOK(v)'
    <3>1. CASE Goto(w, "authorised") /\ job' = [job EXCEPT ![w].actor = a]
      <4>1. job' = [job EXCEPT ![w] = [job[w] EXCEPT !.actor = a]]
        BY <1>t, <3>1 DEF TypeOK
      <4>2. [job[w] EXCEPT !.actor = a] \in Job
        BY <1>t, <2>2, JobFields
      <4> QED
        BY <3>1, <4>1, <4>2, JobType DEF Goto, PC
    <3>2. CASE UNCHANGED <<pc, job>>
      BY <3>2 DEF TypeInv, TypeOK, JobOK
    <3> QED
      BY <2>1, <3>1, <3>2
  <2>4. TypeOK' /\ RowsOK'
    BY <1>1, <1>t, <2>2, <2>3 DEF Authorise, TypeOK, RowsOK, files, ghosts
  <2> QED
    BY <2>3, <2>4 DEF TypeInv
<1>2. ASSUME Initialize(w) PROVE TypeInv'
  <2>1. PICK u \in Account : Change(w, [NoUsers EXCEPT ![u] = NewRecord(TRUE)], u, "all")
    BY <1>2 DEF Initialize
  <2>2. [NoUsers EXCEPT ![u] = NewRecord(TRUE)] \in Users
    BY Constants DEF Users
  <2> QED
    BY <1>2, <1>l, <1>p, <2>1, <2>2, ChangeType DEF Initialize
<1>3. ASSUME CreateAdministrator(w) PROVE TypeInv'
  <2>1. PICK u \in Account, super \in BOOLEAN :
          Change(w, [state.users EXCEPT ![u] = NewRecord(super)], u, "nothing")
    BY <1>3 DEF CreateAdministrator
  <2>2. [state.users EXCEPT ![u] = NewRecord(super)] \in Users
    BY <1>t, Constants, UserTypes
  <2> QED
    BY <1>3, <1>l, <1>p, <2>1, <2>2, ChangeType DEF CreateAdministrator
<1>4. ASSUME UpdateAdministrator(w) PROVE TypeInv'
  <2>1. PICK u \in Account, r \in Record :
          Change(w, [state.users EXCEPT ![u] = r], u,
                 IF r.enabled THEN "nothing" ELSE "sessions")
    BY <1>4 DEF UpdateAdministrator
  <2>2. [state.users EXCEPT ![u] = r] \in Users
    BY <1>t, UserTypes
  <2> QED
    BY <1>4, <1>l, <1>p, <2>1, <2>2, ChangeType DEF UpdateAdministrator
<1>5. ASSUME DeleteAdministrator(w) PROVE TypeInv'
  <2>1. PICK u \in Account : Change(w, [state.users EXCEPT ![u] = Absent], u, "sessions")
    BY <1>5 DEF DeleteAdministrator
  <2>2. [state.users EXCEPT ![u] = Absent] \in Users
    BY <1>t, Constants, UserTypes
  <2> QED
    BY <1>5, <1>l, <1>p, <2>1, <2>2, ChangeType DEF DeleteAdministrator
<1>6. ASSUME ConfigureUKey(w) PROVE TypeInv'
  <2>1. PICK u \in Account, b \in BOOLEAN :
          job' = [job EXCEPT ![w].user = u, ![w].enable = b]
    BY <1>6 DEF ConfigureUKey
  <2> DEFINE j == [job[w] EXCEPT !.user = u, !.enable = b]
  <2>2. j \in Job /\ j.user = u
    BY <1>t DEF Job
  <2>3. job' = [job EXCEPT ![w] = j]
    BY <1>t, <2>1 DEF TypeOK
  <2>4. pc' \in [Worker -> PC] /\ job' \in [Worker -> Job] /\ \A v \in Worker : JobOK(v)'
    <3> HIDE DEF j
    <3> QED
      BY <1>6, <2>2, <2>3, JobType DEF ConfigureUKey, Goto, PC
  <2>5. /\ UNCHANGED <<files, copy, lock, maintenance, database, failures, changes, shared,
                       admitted>>
        /\ overlap' \in BOOLEAN
    BY <1>6 DEF ConfigureUKey, NotesOverlap
  <2>6. TypeOK' /\ RowsOK'
    BY <1>t, <2>4, <2>5 DEF TypeOK, RowsOK, files, database, ghosts
  <2> QED
    BY <2>4, <2>6 DEF TypeInv
<1>7. ASSUME StoreUKey(w) PROVE TypeInv'
  <2> DEFINE u == job[w].user
  <2>1. u \in Account /\ job[w].enable \in BOOLEAN
    BY <1>7, <1>t DEF StoreUKey, JobOK, Job
  <2>2. [state.users EXCEPT ![u].ukey = job[w].enable] \in Users
    BY <1>7, <1>t, <2>1, UserTypes DEF StoreUKey
  <2> QED
    BY <1>7, <1>l, <1>p, <2>1, <2>2, ChangeType DEF StoreUKey
<1>8. ASSUME RemoveUKey(w) PROVE TypeInv'
  <2>1. PICK u \in Account :
          /\ User(u).exists
          /\ Change(w, [state.users EXCEPT ![u].ukey = FALSE], u, "challenges")
    BY <1>8 DEF RemoveUKey
  <2>2. [state.users EXCEPT ![u].ukey = FALSE] \in Users
    BY <1>t, <2>1, UserTypes
  <2> QED
    BY <1>8, <1>l, <1>p, <2>1, <2>2, ChangeType DEF RemoveUKey
<1>9. ASSUME GiveUp(w) PROVE TypeInv'
  BY <1>9, <1>t, ReturnType DEF GiveUp, TypeInv, TypeOK, RowsOK, files, database, ghosts
<1>10. ASSUME UpdateDevice(w) PROVE TypeInv'
  <2>1. Change(w, state.users, Nobody, "nothing") /\ lock' = lock /\ state.users \in Users
    BY <1>10, <1>t DEF UpdateDevice, TypeOK, File
  <2> QED
    BY <1>l, <1>p, <2>1, ChangeType
<1> QED
  BY <1>1, <1>2, <1>3, <1>4, <1>5, <1>6, <1>7, <1>8, <1>9, <1>10 DEF Administer

\* A file that a piece is written to is a file.
LEMMA WrittenTypes ==
  ASSUME NEW f \in File, NEW w \in Worker, copy[w] \in Users
  PROVE  HeadWritten(f, w) \subseteq File /\ TailWritten(f, w) \subseteq File
<1>1. \A part \in SUBSET Account : Overlaid(f, part, copy[w]) \in Users
  BY DEF Overlaid, File, Users
<1>2. \A k \in {"head", "tail", "torn", "json"} : k \in FileKind
  BY DEF FileKind
<1>3. Front \in SUBSET Account /\ Account \ Front \in SUBSET Account
  BY WebAssumption
<1>4. ASSUME NEW g \in HeadWritten(f, w) PROVE g \in File
  <2>1. PICK k \in {"head", "torn", "json"} :
          g = [kind |-> k, users |-> Overlaid(f, Front, copy[w]),
               by |-> IF k = "head" THEN w ELSE Nobody]
    BY DEF HeadWritten
  <2> QED
    BY <1>1, <1>2, <1>3, <2>1 DEF File
<1>5. ASSUME NEW g \in TailWritten(f, w) PROVE g \in File
  <2>1. PICK k \in {"tail", "torn", "json"} :
          g = [kind |-> k, users |-> Overlaid(f, Account \ Front, copy[w]), by |-> Nobody]
    BY DEF TailWritten
  <2> QED
    BY <1>1, <1>2, <1>3, <2>1 DEF File
<1> QED
  BY <1>4, <1>5

\* atomic_json_write and what follows it.
LEMMA WriteType ==
  ASSUME TypeInv, NEW w \in Worker, Write(w)
  PROVE  TypeInv'
<1>t. TypeOK /\ RowsOK /\ JobOK(w) /\ job[w] \in Job /\ copy[w] \in Users
  BY DEF TypeInv, TypeOK
<1>l. Released(w) \in Worker \cup {Nobody}
  BY <1>t DEF TypeOK, Released
<1>f. \A f \in File : HeadWritten(f, w) \subseteq File /\ TailWritten(f, w) \subseteq File
  BY <1>t, WrittenTypes
<1>j. ASSUME NEW l \in {"opened", "half", "flushed", "written"}, Goto(w, l), UNCHANGED job
      PROVE  pc' \in [Worker -> PC] /\ job' \in [Worker -> Job] /\ \A v \in Worker : JobOK(v)'
  BY <1>j, <1>t DEF TypeInv, TypeOK, JobOK, Goto, PC
<1>1. ASSUME OpenTemp(w) PROVE TypeInv'
  <2>1. TypeOK' /\ RowsOK'
    <3>1. shared' \in BOOLEAN
      BY <1>1 DEF OpenTemp
    <3>2. temp' \in File /\ stream' \in [Worker -> {"none", "temp", "state", "lost"}]
      BY <1>1, <1>t, Constants DEF OpenTemp, TypeOK
    <3> QED
      BY <1>1, <1>t, <1>j, <3>1, <3>2 DEF OpenTemp, TypeOK, RowsOK, database
  <2> QED
    BY <1>1, <1>j, <2>1 DEF OpenTemp, TypeInv
<1>2. ASSUME FlushHead(w) PROVE TypeInv'
  <2>1. state' \in File /\ temp' \in File
    BY <1>2, <1>t, <1>f DEF FlushHead, WriteTo, TypeOK
  <2>2. TypeOK' /\ RowsOK'
    BY <1>2, <1>t, <1>j, <2>1 DEF FlushHead, TypeOK, RowsOK, database, ghosts
  <2> QED
    BY <1>2, <1>j, <2>2 DEF FlushHead, TypeInv
<1>6. ASSUME Flush(w) PROVE TypeInv'
  <2>1. state' \in File /\ temp' \in File
    BY <1>6, <1>t, <1>f DEF Flush, WriteTo, TypeOK
  <2>2. copy' \in [Worker -> Users]
    BY <1>6, <1>t, Constants DEF Flush, TypeOK
  <2>3. TypeOK' /\ RowsOK'
    BY <1>6, <1>t, <1>j, <2>1, <2>2 DEF Flush, TypeOK, RowsOK, database, ghosts
  <2> QED
    BY <1>6, <1>j, <2>3 DEF Flush, TypeInv
<1>3. ASSUME Replace(w) PROVE TypeInv'
  <2>1. CASE temp.kind = "none"
    BY <1>3, <1>t, <1>l, <2>1, ReturnType DEF Replace, TypeInv, TypeOK, RowsOK, files,
         database, ghosts
  <2>2. CASE temp.kind # "none"
    <3>1. stream' \in [Worker -> {"none", "temp", "state", "lost"}]
      BY <1>3, <1>t, <2>2 DEF Replace, TypeOK
    <3>2. /\ pc' \in [Worker -> PC] /\ job' \in [Worker -> Job] /\ copy' \in [Worker -> Users]
          /\ \A v \in Worker : JobOK(v)'
      BY <1>3, <1>t, <1>j, <2>2, ReturnType DEF Replace, TypeOK
    <3>3. state' \in File /\ temp' \in File
      BY <1>3, <1>t, <2>2, Constants DEF Replace, TypeOK
    <3>4. TypeOK' /\ RowsOK'
      BY <1>3, <1>t, <1>l, <2>2, <3>1, <3>2, <3>3 DEF Replace, TypeOK, RowsOK, database, ghosts
    <3> QED
      BY <3>2, <3>4 DEF TypeInv
  <2> QED
    BY <2>1, <2>2
<1>4. ASSUME WriteFails(w) PROVE TypeInv'
  BY <1>4, <1>t, <1>l, ReturnType DEF WriteFails, TypeInv, TypeOK, RowsOK, database, ghosts
<1>5. ASSUME PurgeRows(w) PROVE TypeInv'
  <2>1. sessions' \in SUBSET Account
    BY <1>5, <1>t DEF PurgeRows, TypeOK
  <2>2. challenges' \in [Challenge -> Row] /\ RowsOK'
    <3>1. \/ challenges' = challenges
          \/ \E S \in SUBSET Challenge :
               challenges' = [c \in Challenge |-> IF c \in S THEN NoRow ELSE challenges[c]]
      <4> DEFINE S == {c \in Challenge : job[w].purge = "all" \/
                         (job[w].purge = "challenges" /\ challenges[c].user = job[w].user)}
      <4>1. tables => challenges' = [c \in Challenge |-> IF c \in S THEN NoRow ELSE challenges[c]]
        BY <1>5 DEF PurgeRows
      <4>2. ~ tables => challenges' = challenges
        BY <1>5 DEF PurgeRows
      <4>3. S \in SUBSET Challenge
        OBVIOUS
      <4> QED
        BY <4>1, <4>2, <4>3
    <3>2. challenges \in [Challenge -> Row] /\ RowsOK /\ NoRow \in Row /\ NoRow.row = "none"
      BY <1>t, Constants DEF TypeOK, NoRow
    <3>3. ASSUME NEW S \in SUBSET Challenge,
                 challenges' = [c \in Challenge |-> IF c \in S THEN NoRow ELSE challenges[c]]
          PROVE  challenges' \in [Challenge -> Row] /\ RowsOK'
      BY <3>2, <3>3 DEF RowsOK
    <3> QED
      BY <3>1, <3>2, <3>3 DEF RowsOK
  <2> QED
    BY <1>5, <1>t, <2>1, <2>2, ReturnType DEF PurgeRows, TypeInv, TypeOK, files, ghosts
<1> QED
  BY <1>1, <1>2, <1>3, <1>4, <1>5, <1>6 DEF Write

\* Login, challenges, factory reset.
LEMMA LogInType ==
  ASSUME TypeInv, NEW w \in Worker,
         LogIn(w) \/ ResetBegin(w) \/ ResetRemove(w) \/ ResetDevice(w)
  PROVE  TypeInv'
<1>t. TypeOK /\ RowsOK /\ JobOK(w) /\ job[w] \in Job /\ failures \in [password : Nat, ukey : Nat]
  BY DEF TypeInv, TypeOK
<1>z. [password |-> 0, ukey |-> 0] \in [password : Nat, ukey : Nat]
  OBVIOUS
<1>u. ASSUME NEW u \in Account, NEW l \in {"granted", "challenge"},
             job' = [job EXCEPT ![w].user = u], Goto(w, l)
      PROVE  pc' \in [Worker -> PC] /\ job' \in [Worker -> Job] /\ \A v \in Worker : JobOK(v)'
  <2> DEFINE j == [job[w] EXCEPT !.user = u]
  <2>1. job' = [job EXCEPT ![w] = j]
    BY <1>t, <1>u DEF TypeOK
  <2>2. j \in Job /\ j.user = u
    BY <1>t, JobFields
  <2> HIDE DEF j
  <2> QED
    BY <1>u, <2>1, <2>2, JobType DEF Goto, PC
<1>d. ASSUME Goto(w, "denied"), UNCHANGED job
      PROVE  pc' \in [Worker -> PC] /\ job' \in [Worker -> Job] /\ \A v \in Worker : JobOK(v)'
  BY <1>d DEF TypeInv, TypeOK, JobOK, Goto, PC
<1>1. ASSUME LoginBegin(w) \/ ChallengeBegin(w) PROVE TypeInv'
  <2>1. \/ \E u \in Account, l \in {"granted", "challenge"} :
             job' = [job EXCEPT ![w].user = u] /\ Goto(w, l)
        \/ Goto(w, "denied") /\ UNCHANGED job
    BY <1>1 DEF LoginBegin, ChallengeBegin
  <2>2. UNCHANGED <<files, copy, lock, maintenance, database, failures, changes, ghosts>>
    BY <1>1 DEF LoginBegin, ChallengeBegin
  <2>3. pc' \in [Worker -> PC] /\ job' \in [Worker -> Job] /\ \A v \in Worker : JobOK(v)'
    BY <1>u, <1>d, <2>1
  <2> QED
    BY <1>t, <2>2, <2>3 DEF TypeInv, TypeOK, RowsOK, files, database, ghosts
<1>2. ASSUME LoginDenied(w) PROVE TypeInv'
  <2>1. failures' \in [password : Nat, ukey : Nat]
    BY <1>2, <1>t DEF LoginDenied
  <2> QED
    BY <1>2, <1>t, <2>1, ReturnType DEF LoginDenied, TypeInv, TypeOK, RowsOK, files, database,
         ghosts
<1>3. ASSUME LoginGranted(w) PROVE TypeInv'
  <2>1. failures' \in [password : Nat, ukey : Nat]
    BY <1>3, <1>z DEF LoginGranted
  <2>2. sessions' \in SUBSET Account
    BY <1>3, <1>t DEF LoginGranted, TypeOK, JobOK
  <2>3. admitted' \in [Challenge -> Nat]
    <3>1. \/ admitted' = admitted
          \/ /\ job[w].challenge \in Challenge
             /\ admitted' = [admitted EXCEPT ![job[w].challenge] = @ + 1]
      BY <1>3, <1>t DEF LoginGranted, Job
    <3> QED
      BY <1>t, <3>1 DEF TypeOK
  <2> QED
    BY <1>3, <1>t, <2>1, <2>2, <2>3, ReturnType DEF LoginGranted, TypeInv, TypeOK, RowsOK,
         files, ghosts
<1>4. ASSUME InsertChallenge(w) PROVE TypeInv'
  <2> DEFINE new == [row |-> "fresh", user |-> job[w].user, expired |-> FALSE]
  <2>1. job[w].user \in Account /\ new \in Row /\ new.user = job[w].user /\ NoRow \in Row
        /\ NoRow.row = "none"
    BY <1>4, <1>t, Constants DEF InsertChallenge, JobOK, Row, NoRow
  <2>2. MaxChallenges \in Nat
    BY WebAssumption
  <2>3. issued' \in 0 .. MaxChallenges
    BY <1>4, <1>t, <2>2 DEF InsertChallenge, TypeOK
  <2>4. challenges' \in [Challenge -> Row] /\ RowsOK'
    <3>1. CASE UNCHANGED challenges
      BY <1>t, <3>1 DEF TypeOK, RowsOK
    <3>2. CASE ~ UNCHANGED challenges
      <4>1. challenges' = [c \in Challenge |->
                             IF c = issued + 1 THEN new
                             ELSE IF challenges[c].expired THEN NoRow ELSE challenges[c]]
        BY <1>4, <3>2 DEF InsertChallenge
      <4> HIDE DEF new
      <4> QED
        BY <1>t, <2>1, <4>1 DEF TypeOK, RowsOK
    <3> QED
      BY <3>1, <3>2
  <2> QED
    BY <1>4, <1>t, <2>3, <2>4, ReturnType DEF InsertChallenge, TypeInv, TypeOK, files, ghosts
<1>5. ASSUME VerifyBegin(w) PROVE TypeInv'
  <2>1. PICK c \in Challenge :
          /\ challenges[c].row = "fresh"
          /\ job' = [job EXCEPT ![w].user = challenges[c].user, ![w].challenge = c]
    BY <1>5 DEF VerifyBegin
  <2> DEFINE u == challenges[c].user
             j == [job[w] EXCEPT !.user = u, !.challenge = c]
  <2>2. u \in Account
    BY <1>t, <2>1 DEF RowsOK
  <2>3. j \in Job /\ j.user = u /\ j.challenge = c
    <3> HIDE DEF u
    <3> QED
      BY <1>t, <2>2 DEF Job
  <2>4. job' = [job EXCEPT ![w] = j]
    BY <1>t, <2>1 DEF TypeOK
  <2>5. pc' \in [Worker -> PC] /\ job' \in [Worker -> Job] /\ \A v \in Worker : JobOK(v)'
    <3> HIDE DEF u, j
    <3> QED
      BY <1>5, <2>2, <2>3, <2>4, JobType DEF VerifyBegin, Goto, PC
  <2>6. UNCHANGED <<files, copy, lock, maintenance, database, failures, changes, ghosts>>
    BY <1>5 DEF VerifyBegin
  <2> QED
    BY <1>t, <2>5, <2>6 DEF TypeInv, TypeOK, RowsOK, files, database, ghosts
<1>6. ASSUME VerifyDenied(w) PROVE TypeInv'
  <2>1. failures' \in [password : Nat, ukey : Nat]
    BY <1>6, <1>t DEF VerifyDenied
  <2>2. UNCHANGED <<files, pc, job, copy, lock, maintenance, database, changes, ghosts>>
    BY <1>6 DEF VerifyDenied
  <2> QED
    BY <2>1, <2>2 DEF TypeInv, TypeOK, RowsOK, JobOK, files, database, ghosts
<1>7. ASSUME ClaimChallenge(w) PROVE TypeInv'
  <2>1. CASE Return(w) /\ UNCHANGED challenges
    BY <1>7, <1>t, <2>1, ReturnType DEF ClaimChallenge, TypeInv, TypeOK, RowsOK, files, ghosts
  <2>2. CASE /\ challenges' = [challenges EXCEPT ![job[w].challenge].row = "used"]
             /\ Goto(w, "granted") /\ UNCHANGED <<job, copy>>
             /\ challenges[job[w].challenge].row = "fresh"
    <3> DEFINE c == job[w].challenge
               r == [challenges[c] EXCEPT !.row = "used"]
    <3>1. c \in Challenge /\ job[w].user \in Account
      BY <1>7, <1>t DEF ClaimChallenge, JobOK
    <3>2. challenges[c] \in Row /\ challenges[c].user \in Account
      BY <1>t, <2>2, <3>1 DEF TypeOK, RowsOK
    <3>3. r \in Row /\ r.user \in Account
      BY <3>2 DEF Row
    <3>4. challenges' = [challenges EXCEPT ![c] = r]
      BY <1>t, <2>2, <3>1 DEF TypeOK
    <3>5. challenges' \in [Challenge -> Row] /\ RowsOK'
      <4> HIDE DEF r
      <4> QED
        BY <1>t, <3>1, <3>3, <3>4 DEF TypeOK, RowsOK
    <3>6. pc' \in [Worker -> PC] /\ \A v \in Worker : JobOK(v)'
      BY <1>t, <2>2, <3>1 DEF TypeInv, TypeOK, JobOK, Goto, PC
    <3> QED
      BY <1>7, <1>t, <2>2, <3>5, <3>6 DEF ClaimChallenge, TypeInv, TypeOK, files, ghosts
  <2> QED
    BY <1>7, <2>1, <2>2 DEF ClaimChallenge
<1>8. ASSUME ResetBegin(w) PROVE TypeInv'
  <2>1. /\ pc' = [pc EXCEPT ![w] = "reset"] /\ maintenance' = w /\ changes' \in 0 .. MaxChanges
        /\ UNCHANGED <<files, job, copy, lock, database, failures, ghosts>>
    BY <1>8, <1>t, WebAssumption DEF ResetBegin, Goto, TypeOK
  <2> QED
    BY <1>t, <2>1 DEF TypeInv, TypeOK, RowsOK, JobOK, PC, files, database, ghosts
<1>9. ASSUME ResetRemove(w) PROVE TypeInv'
  <2>1. /\ state' \in File /\ temp' \in File
        /\ stream' \in [Worker -> {"none", "temp", "state", "lost"}]
        /\ sessions' \in SUBSET Account
    BY <1>9, <1>t, Constants DEF ResetRemove, TypeOK, files
  <2>2. challenges' \in [Challenge -> Row] /\ RowsOK' /\ tables' \in BOOLEAN
    <3>1. \/ challenges' = [c \in Challenge |-> NoRow] /\ tables' = FALSE
          \/ challenges' = challenges /\ tables' = tables
      BY <1>9 DEF ResetRemove
    <3>2. NoRow \in Row /\ NoRow.row = "none"
      BY Constants DEF NoRow
    <3>3. challenges' \in [Challenge -> Row] /\ RowsOK'
      BY <1>t, <3>1, <3>2 DEF TypeOK, RowsOK
    <3>4. tables' \in BOOLEAN
      BY <1>t, <3>1 DEF TypeOK
    <3> QED
      BY <3>3, <3>4
  <2>3. UNCHANGED <<pc, job, copy, lock, maintenance, issued, failures, changes, ghosts>>
    BY <1>9 DEF ResetRemove
  <2> QED
    BY <1>t, <2>1, <2>2, <2>3 DEF TypeInv, TypeOK, JobOK, ghosts
<1>10. ASSUME ResetDevice(w) PROVE TypeInv'
  <2>1. failures' \in [password : Nat, ukey : Nat]
    BY <1>10, <1>t, <1>z DEF ResetDevice
  <2> QED
    BY <1>10, <1>t, <2>1, ReturnType DEF ResetDevice, TypeInv, TypeOK, RowsOK, files, database,
         ghosts
<1> QED
  BY <1>1, <1>2, <1>3, <1>4, <1>5, <1>6, <1>7, <1>8, <1>9, <1>10 DEF LogIn

\* Steps of no handler.
LEMMA OtherType ==
  ASSUME TypeInv, EndSession \/ ForgetFailures \/ ExpireChallenge \/ Restart
  PROVE  TypeInv'
<1>t. TypeOK /\ RowsOK
  BY DEF TypeInv
<1>1. ASSUME EndSession PROVE TypeInv'
  BY <1>1 DEF EndSession, TypeInv, TypeOK, RowsOK, JobOK, files, ghosts
<1>2. ASSUME ForgetFailures PROVE TypeInv'
  <2>1. failures' \in [password : Nat, ukey : Nat]
    BY <1>2, <1>t DEF ForgetFailures, TypeOK
  <2> QED
    BY <1>2, <2>1 DEF ForgetFailures, TypeInv, TypeOK, RowsOK, JobOK, files, database, ghosts
<1>3. ASSUME ExpireChallenge PROVE TypeInv'
  <2>1. PICK c \in Challenge : challenges' = [challenges EXCEPT ![c].expired = TRUE]
    BY <1>3 DEF ExpireChallenge
  <2>2. challenges' \in [Challenge -> Row] /\ RowsOK'
    BY <1>t, <2>1 DEF TypeOK, RowsOK, Row
  <2> QED
    BY <1>3, <2>2 DEF ExpireChallenge, TypeInv, TypeOK, JobOK, files, ghosts
<1>4. ASSUME Restart PROVE TypeInv'
  <2>1. \A w \in Worker : JobOK(w)'
    BY <1>4 DEF Restart, JobOK, NoJob
  <2>2. /\ failures' \in [password : Nat, ukey : Nat] /\ changes' \in 0 .. MaxChanges
        /\ job' \in [Worker -> Job] /\ copy' \in [Worker -> Users] /\ pc' \in [Worker -> PC]
    BY <1>4, <1>t, Constants, WebAssumption DEF Restart, TypeOK, PC
  <2>3. RowsOK' /\ tables' \in BOOLEAN
    BY <1>4, <1>t DEF Restart, RowsOK
  <2> QED
    BY <1>4, <1>t, <2>1, <2>2, <2>3 DEF Restart, TypeInv, TypeOK, ghosts
<1> QED
  BY <1>1, <1>2, <1>3, <1>4

\* Every step keeps the types.
LEMMA NextType == TypeInv /\ [Next]_vars => TypeInv'
<1> SUFFICES ASSUME TypeInv, [Next]_vars PROVE TypeInv'
  OBVIOUS
<1>1. CASE UNCHANGED vars
  BY <1>1 DEF vars, TypeInv, TypeOK, RowsOK, JobOK, files, database, ghosts
<1> QED
  BY <1>1, AdministerType, WriteType, LogInType, OtherType DEF Next

\* Types hold in every reachable state.
LEMMA Types == Spec => []TypeInv
  BY InitType, NextType, PTL DEF Spec

(***************************************************************************)
(* What a step can do to the account files                                 *)
(***************************************************************************)

\* A handler goes on, or ends, without touching files or accounts.
Calm(w, l) ==
  /\ pc' = [pc EXCEPT ![w] = l]
  /\ \A v \in Worker \ {w} : copy'[v] = copy[v] /\ job'[v] = job[v]
  /\ UNCHANGED <<files, overlap, shared>>

Still == UNCHANGED <<files, pc, job, copy, overlap, shared>>

\* A reset has removed one of the two files.
Erased ==
  /\ \/ /\ state' = Unreadable("none") /\ temp' = temp
        /\ stream' = [v \in Worker |-> IF stream[v] = "state" THEN "lost" ELSE stream[v]]
     \/ /\ temp' = Unreadable("none") /\ state' = state
        /\ stream' = [v \in Worker |-> IF stream[v] = "temp" THEN "lost" ELSE stream[v]]
  /\ UNCHANGED <<pc, job, copy, overlap, shared>>

\* Handlers that change accounts.
Changes(w) ==
  \/ Initialize(w) \/ CreateAdministrator(w) \/ UpdateAdministrator(w)
  \/ DeleteAdministrator(w) \/ StoreUKey(w) \/ RemoveUKey(w) \/ UpdateDevice(w)

Writes(w) == OpenTemp(w) \/ FlushHead(w) \/ Flush(w) \/ Replace(w) \/ WriteFails(w)

\* Every step is one of these.
LEMMA Steps ==
  ASSUME TypeInv, [Next]_vars
  PROVE  \/ Still \/ Restart \/ Erased
         \/ \E w \in Worker :
              \/ Changes(w) \/ Writes(w) \/ ConfigureUKey(w)
              \/ \E l \in PC \ Changing : Calm(w, l)
<1>t. TypeOK
  BY DEF TypeInv
<1>1. ASSUME NEW w \in Worker, Return(w), UNCHANGED <<files, overlap, shared>>
      PROVE  Calm(w, "idle")
  BY <1>1, <1>t DEF Return, Goto, Calm, TypeOK
<1>2. ASSUME NEW w \in Worker, NEW l \in PC, Goto(w, l), NEW j, job' = [job EXCEPT ![w] = j],
             UNCHANGED <<files, copy, overlap, shared>>
      PROVE  Calm(w, l)
  BY <1>2, <1>t DEF Goto, Calm, TypeOK
<1>3. \A l \in {"idle", "authorised", "written", "denied", "granted", "challenge", "verified",
                "reset"} : l \in PC \ Changing
  BY DEF PC, Changing
<1>4. ASSUME NEW w \in Worker, Authorise(w)
      PROVE  Still \/ \E l \in PC \ Changing : Calm(w, l)
  <2>1. \/ Goto(w, "authorised") /\ \E a \in sessions : job' = [job EXCEPT ![w].actor = a]
        \/ UNCHANGED <<pc, job>>
    BY <1>4 DEF Authorise
  <2>2. UNCHANGED <<files, copy, overlap, shared>>
    BY <1>4 DEF Authorise, ghosts
  <2>3. CASE Goto(w, "authorised") /\ \E a \in sessions : job' = [job EXCEPT ![w].actor = a]
    <3>1. PICK a \in sessions : job' = [job EXCEPT ![w] = [job[w] EXCEPT !.actor = a]]
      BY <1>t, <2>3 DEF TypeOK
    <3>2. Calm(w, "authorised")
      BY <1>2, <1>3, <2>2, <2>3, <3>1
    <3> QED
      BY <1>3, <3>2
  <2>4. CASE UNCHANGED <<pc, job>>
    BY <2>2, <2>4 DEF Still
  <2> QED
    BY <2>1, <2>3, <2>4
<1>5. ASSUME NEW w \in Worker,
             \/ GiveUp(w) \/ PurgeRows(w) \/ LoginDenied(w) \/ LoginGranted(w)
             \/ InsertChallenge(w)
      PROVE  \E l \in PC \ Changing : Calm(w, l)
  <2>1. Return(w) /\ UNCHANGED <<files, overlap, shared>>
    BY <1>5 DEF GiveUp, PurgeRows, LoginDenied, LoginGranted, InsertChallenge, ghosts
  <2> QED
    BY <1>1, <1>3, <2>1
<1>6. ASSUME NEW w \in Worker, LoginBegin(w) \/ ChallengeBegin(w) \/ VerifyBegin(w)
      PROVE  \E l \in PC \ Changing : Calm(w, l)
  <2>1. UNCHANGED <<files, copy, overlap, shared>>
    BY <1>6 DEF LoginBegin, ChallengeBegin, VerifyBegin, ghosts
  <2>2. \E l \in {"granted", "denied", "challenge", "verified"} : Goto(w, l)
    BY <1>6 DEF LoginBegin, ChallengeBegin, VerifyBegin
  <2>3. \A v \in Worker \ {w} : job'[v] = job[v]
    BY <1>6, <1>t DEF LoginBegin, ChallengeBegin, VerifyBegin, TypeOK
  <2> QED
    BY <1>3, <2>1, <2>2, <2>3 DEF Calm, Goto
<1>7. ASSUME NEW w \in Worker, ClaimChallenge(w)
      PROVE  \E l \in PC \ Changing : Calm(w, l)
  <2>1. UNCHANGED <<files, overlap, shared>> /\ (Return(w) \/ (Goto(w, "granted") /\ UNCHANGED <<job, copy>>))
    BY <1>7 DEF ClaimChallenge, ghosts
  <2>2. CASE Return(w)
    BY <1>1, <1>3, <2>1, <2>2
  <2>3. CASE Goto(w, "granted") /\ UNCHANGED <<job, copy>>
    BY <1>3, <2>1, <2>3 DEF Calm, Goto
  <2> QED
    BY <2>1, <2>2, <2>3
<1>8. ASSUME NEW w \in Worker, ResetBegin(w)
      PROVE  \E l \in PC \ Changing : Calm(w, l)
  BY <1>3, <1>8 DEF ResetBegin, Calm, Goto, ghosts
<1>9. ASSUME NEW w \in Worker, ResetRemove(w) \/ ResetDevice(w)
      PROVE  Still \/ Erased \/ \E l \in PC \ Changing : Calm(w, l)
  <2>1. CASE ResetRemove(w)
    BY <2>1 DEF ResetRemove, Still, Erased, ghosts
  <2>2. CASE ResetDevice(w)
    <3>1. Return(w) /\ UNCHANGED <<files, overlap, shared>>
      BY <2>2 DEF ResetDevice, ghosts
    <3> QED
      BY <1>1, <1>3, <3>1
  <2> QED
    BY <1>9, <2>1, <2>2
<1>10. ASSUME NEW w \in Worker, VerifyDenied(w) PROVE Still
  BY <1>10 DEF VerifyDenied, Still, ghosts
<1>11. EndSession \/ ForgetFailures \/ ExpireChallenge \/ UNCHANGED vars => Still
  BY DEF EndSession, ForgetFailures, ExpireChallenge, vars, Still, ghosts
<1>12. ASSUME NEW w \in Worker, Administer(w) \/ Write(w) \/ LogIn(w)
       PROVE  \/ Still \/ Changes(w) \/ Writes(w) \/ ConfigureUKey(w)
              \/ \E l \in PC \ Changing : Calm(w, l)
  BY <1>4, <1>5, <1>6, <1>7, <1>10, <1>12 DEF Administer, Write, LogIn, Changes, Writes
<1> QED
  BY <1>8, <1>9, <1>11, <1>12 DEF Next

(***************************************************************************)
(* The last super administrator                                            *)
(***************************************************************************)

\* The file of an open stream holds what the stream has written, and no more.
Holds(w, file) ==
  /\ pc[w] = "opened" => file.kind = "empty"
  /\ pc[w] = "half" => /\ file.kind = "head" /\ file.by = w
                       /\ \A u \in Front : file.users[u] = copy[w][u]

StreamsOK ==
  /\ \A w \in Worker : /\ stream[w] = "temp" => Holds(w, temp)
                       /\ stream[w] = "state" => Holds(w, state)
  /\ \A v, w \in Worker :
       (stream[v] \in {"temp", "state"} /\ stream[v] = stream[w]) => v = w

FilesOK ==
  /\ state.kind = "json" => HasSuper(state.users)
  /\ temp.kind = "json" => HasSuper(temp.users)

CopiesOK == \A w \in Worker : pc[w] \in {"loaded", "opened", "half"} => HasSuper(copy[w])

SuperInv == shared \/ (StreamsOK /\ FilesOK /\ CopiesOK)

\* The first piece in a file that is empty.
LEMMA HeadOfEmpty ==
  ASSUME NEW f, f.kind = "empty", NEW w, NEW g \in HeadWritten(f, w)
  PROVE  /\ g.kind = "head" /\ g.by = w
         /\ \A u \in Front : g.users[u] = copy[w][u]
<1>1. g = [kind |-> "head", users |-> Overlaid(f, Front, copy[w]), by |-> w]
  BY DEF HeadWritten
<1>2. \A u \in Front : Overlaid(f, Front, copy[w])[u] = copy[w][u]
  BY WebAssumption DEF Overlaid
<1> QED
  BY <1>1, <1>2

\* The second piece after the first one of the same stream: the whole copy.
LEMMA TailOfHead ==
  ASSUME NEW f, NEW w, f.kind = "head", f.by = w,
         \A u \in Front : f.users[u] = copy[w][u], NEW g \in TailWritten(f, w)
  PROVE  g.kind = "json" /\ \A u \in Account : g.users[u] = copy[w][u]
<1>1. g = [kind |-> "json", users |-> Overlaid(f, Account \ Front, copy[w]), by |-> Nobody]
  BY DEF TailWritten
<1>2. \A u \in Account : Overlaid(f, Account \ Front, copy[w])[u] = copy[w][u]
  BY DEF Overlaid
<1> QED
  BY <1>1, <1>2

\* Every copy that a handler sets out to write has a super administrator,
\* because the file it was made from had one.
LEMMA ChangesSuper ==
  ASSUME TypeInv, FilesOK, NEW w \in Worker, Changes(w)
  PROVE  \E users \in Users : \E u, p : HasSuper(users) /\ Change(w, users, u, p)
<1>t. TypeOK /\ state.users \in [Account -> Record]
  BY DEF TypeInv, TypeOK, File, Users
<1>s. Loads => \E v \in Account : User(v).super /\ User(v).enabled
  BY DEF FilesOK, Loads, HasSuper, User
<1>r. Record \subseteq Fields /\ \A r \in Record : ~ r.exists => ~ r.enabled
  BY DEF Record, Absent
<1>1. ASSUME Initialize(w) PROVE \E users \in Users : \E u, p : HasSuper(users) /\ Change(w, users, u, p)
  <2>1. PICK u \in Account : Change(w, [NoUsers EXCEPT ![u] = NewRecord(TRUE)], u, "all")
    BY <1>1 DEF Initialize
  <2>2. NewRecord(TRUE).super /\ NewRecord(TRUE).enabled
    BY DEF NewRecord, Absent
  <2>3. [NoUsers EXCEPT ![u] = NewRecord(TRUE)] \in Users
    BY Constants DEF Users
  <2>4. [NoUsers EXCEPT ![u] = NewRecord(TRUE)][u] = NewRecord(TRUE)
    BY DEF NoUsers
  <2> QED
    BY <2>1, <2>2, <2>3, <2>4 DEF HasSuper
<1>2. ASSUME CreateAdministrator(w)
      PROVE  \E users \in Users : \E u, p : HasSuper(users) /\ Change(w, users, u, p)
  <2>1. PICK u \in Account, super \in BOOLEAN :
          /\ ~ User(u).exists
          /\ Change(w, [state.users EXCEPT ![u] = NewRecord(super)], u, "nothing")
    BY <1>2 DEF CreateAdministrator
  <2>2. PICK v \in Account : User(v).super /\ User(v).enabled
    BY <1>2, <1>s DEF CreateAdministrator
  <2>3. v # u
    BY <1>t, <1>r, <2>1, <2>2 DEF User
  <2>4. [state.users EXCEPT ![u] = NewRecord(super)] \in Users
    BY <1>t, Constants, UserTypes
  <2>5. HasSuper([state.users EXCEPT ![u] = NewRecord(super)])
    BY <1>t, <2>2, <2>3 DEF HasSuper, User
  <2> QED
    BY <2>1, <2>4, <2>5
<1>3. ASSUME UpdateAdministrator(w)
      PROVE  \E users \in Users : \E u, p : HasSuper(users) /\ Change(w, users, u, p)
  <2>1. PICK u \in Account, r \in Record :
          /\ HasSuper([state.users EXCEPT ![u] = r])
          /\ Change(w, [state.users EXCEPT ![u] = r], u,
                    IF r.enabled THEN "nothing" ELSE "sessions")
    BY <1>3 DEF UpdateAdministrator
  <2>2. [state.users EXCEPT ![u] = r] \in Users
    BY <1>t, UserTypes
  <2> QED
    BY <2>1, <2>2
<1>4. ASSUME DeleteAdministrator(w)
      PROVE  \E users \in Users : \E u, p : HasSuper(users) /\ Change(w, users, u, p)
  <2>1. PICK u \in Account :
          /\ User(u).super => \E v \in Account \ {u} : User(v).super /\ User(v).enabled
          /\ Change(w, [state.users EXCEPT ![u] = Absent], u, "sessions")
    BY <1>4 DEF DeleteAdministrator
  <2>2. PICK v \in Account \ {u} : User(v).super /\ User(v).enabled
    BY <1>4, <1>s, <2>1 DEF DeleteAdministrator
  <2>3. [state.users EXCEPT ![u] = Absent] \in Users
    BY <1>t, Constants, UserTypes
  <2>4. HasSuper([state.users EXCEPT ![u] = Absent])
    BY <1>t, <2>2 DEF HasSuper, User
  <2> QED
    BY <2>1, <2>3, <2>4
<1>5. ASSUME StoreUKey(w) \/ RemoveUKey(w)
      PROVE  \E users \in Users : \E u, p : HasSuper(users) /\ Change(w, users, u, p)
  <2>1. PICK u \in Account, b \in BOOLEAN :
          /\ User(u).exists
          /\ \E p : Change(w, [state.users EXCEPT ![u].ukey = b], u, p)
    <3>1. CASE StoreUKey(w)
      <4>1. job[w].user \in Account /\ job[w].enable \in BOOLEAN
        BY <3>1 DEF StoreUKey, TypeInv, TypeOK, JobOK, Job
      <4> QED
        BY <3>1, <4>1 DEF StoreUKey
    <3>2. CASE RemoveUKey(w)
      BY <3>2 DEF RemoveUKey
    <3> QED
      BY <1>5, <3>1, <3>2
  <2>2. PICK v \in Account : User(v).super /\ User(v).enabled
    BY <1>5, <1>s DEF StoreUKey, RemoveUKey
  <2>3. [state.users EXCEPT ![u].ukey = b] \in Users
    BY <1>t, <2>1, UserTypes
  <2>4. HasSuper([state.users EXCEPT ![u].ukey = b])
    BY <1>t, <1>r, <2>2 DEF HasSuper, User, Fields
  <2> QED
    BY <2>1, <2>3, <2>4
<1>6. ASSUME UpdateDevice(w)
      PROVE  \E users \in Users : \E u, p : HasSuper(users) /\ Change(w, users, u, p)
  <2>1. Change(w, state.users, Nobody, "nothing") /\ HasSuper(state.users)
    BY <1>6 DEF UpdateDevice, FilesOK, Loads
  <2> QED
    BY <1>t, <2>1 DEF Users
<1> QED
  BY <1>1, <1>2, <1>3, <1>4, <1>5, <1>6 DEF Changes

\* Every step keeps a super administrator in every file and every copy, or
\* opens a file that another handler is writing.
LEMMA NextSuper == TypeInv /\ SuperInv /\ [Next]_vars => SuperInv'
<1> SUFFICES ASSUME TypeInv, SuperInv, [Next]_vars, ~ shared'
             PROVE  StreamsOK' /\ FilesOK' /\ CopiesOK'
  BY DEF SuperInv
<1>t. /\ pc \in [Worker -> PC] /\ copy \in [Worker -> Users]
      /\ stream \in [Worker -> {"none", "temp", "state", "lost"}]
  BY DEF TypeInv, TypeOK
<1>k. Unreadable("none").kind = "none" /\ Unreadable("empty").kind = "empty"
  BY DEF Unreadable
<1>l. {"loaded", "opened", "half"} \subseteq Changing
  BY DEF Changing
<1>s. ASSUME ~ shared PROVE StreamsOK /\ FilesOK /\ CopiesOK
  BY <1>s DEF SuperInv
<1>1. ASSUME Still PROVE StreamsOK' /\ FilesOK' /\ CopiesOK'
  BY <1>1, <1>s DEF Still, files, StreamsOK, Holds, FilesOK, CopiesOK
<1>2. ASSUME Restart PROVE StreamsOK' /\ FilesOK' /\ CopiesOK'
  <2>1. ~ shared /\ UNCHANGED <<state, temp>>
        /\ \A w \in Worker : pc'[w] = "idle" /\ stream'[w] = "none"
    BY <1>2 DEF Restart, ghosts
  <2> QED
    BY <1>s, <2>1 DEF StreamsOK, Holds, FilesOK, CopiesOK
<1>3. ASSUME Erased PROVE StreamsOK' /\ FilesOK' /\ CopiesOK'
  <2>1. ~ shared /\ UNCHANGED <<pc, copy>>
    BY <1>3 DEF Erased
  <2>2. FilesOK' /\ CopiesOK'
    BY <1>3, <1>s, <1>k, <2>1 DEF Erased, FilesOK, CopiesOK
  <2>3. \A w \in Worker : /\ stream'[w] \in {"temp", "state"} => stream'[w] = stream[w]
                          /\ stream'[w] = "temp" => temp' = temp
                          /\ stream'[w] = "state" => state' = state
    BY <1>3, <1>t DEF Erased
  <2>4. StreamsOK'
    BY <1>s, <2>1, <2>3 DEF StreamsOK, Holds
  <2> QED
    BY <2>2, <2>4
<1>4. ASSUME NEW w \in Worker, Changes(w) PROVE StreamsOK' /\ FilesOK' /\ CopiesOK'
  <2>1. ~ shared
    BY <1>4 DEF Changes, Initialize, CreateAdministrator, UpdateAdministrator,
         DeleteAdministrator, StoreUKey, RemoveUKey, UpdateDevice, Change
  <2>2. PICK users \in Users : \E u, p : HasSuper(users) /\ Change(w, users, u, p)
    BY <1>4, <1>s, <2>1, ChangesSuper
  <2>3. /\ UNCHANGED <<state, temp, stream>> /\ copy' = [copy EXCEPT ![w] = users]
        /\ pc' = [pc EXCEPT ![w] = "loaded"]
    BY <2>2 DEF Change, Goto, files
  <2>4. /\ pc'[w] = "loaded" /\ copy'[w] = users
        /\ \A v \in Worker \ {w} : pc'[v] = pc[v] /\ copy'[v] = copy[v]
    BY <1>t, <2>3
  <2>5. StreamsOK'
    BY <1>s, <2>1, <2>3, <2>4 DEF StreamsOK, Holds
  <2>6. FilesOK' /\ CopiesOK'
    BY <1>s, <2>1, <2>2, <2>3, <2>4 DEF FilesOK, CopiesOK, HasSuper
  <2> QED
    BY <2>5, <2>6
<1>5. ASSUME NEW w \in Worker, OpenTemp(w) PROVE StreamsOK' /\ FilesOK' /\ CopiesOK'
  <2>1. /\ ~ shared /\ \A v \in Worker \ {w} : stream[v] # "temp"
        /\ temp'.kind = "empty" /\ UNCHANGED <<state, copy>> /\ pc[w] = "loaded"
    BY <1>5, <1>k DEF OpenTemp
  <2>2. /\ pc'[w] = "opened" /\ stream'[w] = "temp"
        /\ \A v \in Worker \ {w} : pc'[v] = pc[v] /\ stream'[v] = stream[v]
    BY <1>5, <1>t DEF OpenTemp, Goto
  <2>3. StreamsOK'
    BY <1>s, <2>1, <2>2 DEF StreamsOK, Holds
  <2>4. FilesOK' /\ CopiesOK'
    BY <1>s, <2>1, <2>2 DEF FilesOK, CopiesOK
  <2> QED
    BY <2>3, <2>4
<1>6. ASSUME NEW w \in Worker, FlushHead(w) PROVE StreamsOK' /\ FilesOK' /\ CopiesOK'
  <2>1. ~ shared /\ UNCHANGED <<stream, copy>> /\ pc[w] = "opened"
    BY <1>6 DEF FlushHead, ghosts
  <2>2. pc'[w] = "half" /\ \A v \in Worker \ {w} : pc'[v] = pc[v]
    BY <1>6, <1>t DEF FlushHead, Goto
  <2>3. CopiesOK'
    BY <1>s, <2>1, <2>2 DEF CopiesOK
  <2>4. CASE stream[w] = "temp"
    <3>1. temp.kind = "empty" /\ temp' \in HeadWritten(temp, w) /\ state' = state
      BY <1>6, <1>s, <2>1, <2>4 DEF FlushHead, WriteTo, StreamsOK, Holds
    <3>2. temp'.kind = "head" /\ temp'.by = w /\ \A u \in Front : temp'.users[u] = copy[w][u]
      BY <3>1, HeadOfEmpty
    <3> QED
      BY <1>s, <2>1, <2>2, <2>3, <2>4, <3>1, <3>2 DEF StreamsOK, Holds, FilesOK
  <2>5. CASE stream[w] = "state"
    <3>1. state.kind = "empty" /\ state' \in HeadWritten(state, w) /\ temp' = temp
      BY <1>6, <1>s, <2>1, <2>5 DEF FlushHead, WriteTo, StreamsOK, Holds
    <3>2. state'.kind = "head" /\ state'.by = w /\ \A u \in Front : state'.users[u] = copy[w][u]
      BY <3>1, HeadOfEmpty
    <3> QED
      BY <1>s, <2>1, <2>2, <2>3, <2>5, <3>1, <3>2 DEF StreamsOK, Holds, FilesOK
  <2>6. CASE stream[w] \notin {"temp", "state"}
    <3>1. UNCHANGED <<state, temp>>
      BY <1>6, <2>6 DEF FlushHead, WriteTo
    <3> QED
      BY <1>s, <2>1, <2>2, <2>3, <2>6, <3>1 DEF StreamsOK, Holds, FilesOK
  <2> QED
    BY <2>4, <2>5, <2>6
<1>7. ASSUME NEW w \in Worker, Flush(w) PROVE StreamsOK' /\ FilesOK' /\ CopiesOK'
  <2>1. ~ shared /\ pc[w] = "half"
    BY <1>7 DEF Flush, ghosts
  <2>2. /\ pc'[w] = "flushed" /\ stream'[w] = "none"
        /\ \A v \in Worker \ {w} : /\ pc'[v] = pc[v] /\ stream'[v] = stream[v]
                                   /\ copy'[v] = copy[v]
    BY <1>7, <1>t DEF Flush, Goto
  <2>3. HasSuper(copy[w]) /\ CopiesOK'
    BY <1>s, <2>1, <2>2 DEF CopiesOK
  <2>4. CASE stream[w] = "temp"
    <3>1. Holds(w, temp) /\ temp' \in TailWritten(temp, w) /\ state' = state
      BY <1>7, <1>s, <2>1, <2>4 DEF Flush, WriteTo, StreamsOK
    <3>2. \A u \in Account : temp'.users[u] = copy[w][u]
      BY <2>1, <3>1, TailOfHead DEF Holds
    <3>3. HasSuper(temp'.users)
      BY <2>3, <3>2 DEF HasSuper
    <3> QED
      BY <1>s, <2>1, <2>2, <2>3, <2>4, <3>1, <3>3 DEF StreamsOK, Holds, FilesOK
  <2>5. CASE stream[w] = "state"
    <3>1. Holds(w, state) /\ state' \in TailWritten(state, w) /\ temp' = temp
      BY <1>7, <1>s, <2>1, <2>5 DEF Flush, WriteTo, StreamsOK
    <3>2. \A u \in Account : state'.users[u] = copy[w][u]
      BY <2>1, <3>1, TailOfHead DEF Holds
    <3>3. HasSuper(state'.users)
      BY <2>3, <3>2 DEF HasSuper
    <3> QED
      BY <1>s, <2>1, <2>2, <2>3, <2>5, <3>1, <3>3 DEF StreamsOK, Holds, FilesOK
  <2>6. CASE stream[w] \notin {"temp", "state"}
    <3>1. UNCHANGED <<state, temp>>
      BY <1>7, <2>6 DEF Flush, WriteTo
    <3> QED
      BY <1>s, <2>1, <2>2, <2>3, <3>1 DEF StreamsOK, Holds, FilesOK
  <2> QED
    BY <2>4, <2>5, <2>6
<1>8. ASSUME NEW w \in Worker, Replace(w) PROVE StreamsOK' /\ FilesOK' /\ CopiesOK'
  <2>1. ~ shared /\ pc[w] = "flushed"
    BY <1>8 DEF Replace, ghosts
  <2>2. /\ pc'[w] \in {"idle", "written"}
        /\ \A v \in Worker \ {w} : pc'[v] = pc[v] /\ copy'[v] = copy[v]
    BY <1>8, <1>t DEF Replace, Return, Goto
  <2>3. CopiesOK'
    BY <1>s, <2>1, <2>2 DEF CopiesOK
  <2>4. CASE UNCHANGED files
    BY <1>s, <2>1, <2>2, <2>3, <2>4 DEF files, StreamsOK, Holds, FilesOK
  <2>5. CASE ~ UNCHANGED files
    <3>1. state' = temp /\ temp'.kind = "none"
      BY <1>8, <1>k, <2>5 DEF Replace
    <3>2. \A v \in Worker : /\ stream'[v] # "temp"
                            /\ stream'[v] = "state" => stream[v] = "temp"
      BY <1>8, <1>t, <2>5 DEF Replace
    <3>3. StreamsOK'
      BY <1>s, <2>1, <2>2, <3>1, <3>2 DEF StreamsOK, Holds
    <3>4. FilesOK'
      BY <1>s, <2>1, <3>1 DEF FilesOK
    <3> QED
      BY <2>3, <3>3, <3>4
  <2> QED
    BY <2>4, <2>5
<1>9. ASSUME NEW w \in Worker, WriteFails(w) PROVE StreamsOK' /\ FilesOK' /\ CopiesOK'
  <2>1. ~ shared /\ UNCHANGED <<state, temp>>
    BY <1>9 DEF WriteFails, ghosts
  <2>2. /\ pc'[w] = "idle" /\ stream'[w] = "none"
        /\ \A v \in Worker \ {w} : /\ pc'[v] = pc[v] /\ stream'[v] = stream[v]
                                   /\ copy'[v] = copy[v]
    BY <1>9, <1>t DEF WriteFails, Return, Goto
  <2>3. StreamsOK'
    BY <1>s, <2>1, <2>2 DEF StreamsOK, Holds
  <2> QED
    BY <1>s, <2>1, <2>2, <2>3 DEF FilesOK, CopiesOK
<1>10. ASSUME NEW w \in Worker, NEW l \in PC \ {"loaded", "opened", "half"},
              pc' = [pc EXCEPT ![w] = l], UNCHANGED <<files, shared>>,
              \A v \in Worker \ {w} : copy'[v] = copy[v]
       PROVE  StreamsOK' /\ FilesOK' /\ CopiesOK'
  <2>1. /\ ~ shared /\ UNCHANGED <<state, temp, stream>>
        /\ pc'[w] \notin {"loaded", "opened", "half"}
        /\ \A v \in Worker \ {w} : pc'[v] = pc[v] /\ copy'[v] = copy[v]
    BY <1>10, <1>t DEF files
  <2>2. StreamsOK'
    BY <1>s, <2>1 DEF StreamsOK, Holds
  <2> QED
    BY <1>s, <2>1, <2>2 DEF FilesOK, CopiesOK
<1>11. ASSUME NEW w \in Worker, ConfigureUKey(w) PROVE StreamsOK' /\ FilesOK' /\ CopiesOK'
  <2>1. /\ pc' = [pc EXCEPT ![w] = "checked"] /\ UNCHANGED <<files, shared, copy>>
        /\ "checked" \in PC \ {"loaded", "opened", "half"}
    BY <1>11 DEF ConfigureUKey, Goto, PC
  <2> QED
    BY <1>10, <2>1
<1>12. ASSUME NEW w \in Worker, NEW l \in PC \ Changing, Calm(w, l)
       PROVE  StreamsOK' /\ FilesOK' /\ CopiesOK'
  <2>1. l \in PC \ {"loaded", "opened", "half"}
    BY <1>l
  <2> QED
    BY <1>10, <1>12, <2>1 DEF Calm
<1> QED
  BY <1>1, <1>2, <1>3, <1>4, <1>5, <1>6, <1>7, <1>8, <1>9, <1>11, <1>12, Steps DEF Writes

\* Handlers that change accounts from stale copies, kills and failed writes
\* leave an enabled super administrator in every account file that can be
\* read, as long as no two handlers had the temporary file open at once
\* (update_administrator, delete_administrator, atomic_json_write).
THEOREM SuperAdminStays == Spec => []SuperAdminRemains
<1>1. Init => SuperInv
  BY DEF Init, SuperInv, StreamsOK, Holds, FilesOK, CopiesOK, Unreadable
<1>2. SuperInv => SuperAdminRemains
  BY DEF SuperInv, FilesOK, SuperAdminRemains, Loads
<1> QED
  BY <1>1, <1>2, NextSuper, Types, PTL DEF Spec

(***************************************************************************)
(* Failed logins                                                           *)
(***************************************************************************)

NotDenied == {w \in Worker : pc[w] # "denied"}

\* Steps that are neither the test of the limit nor the count of a failure
\* count nothing, and leave nobody newly denied.
LEMMA OtherLimit ==
  ASSUME TypeInv, [Next]_vars,
         \A w \in Worker : ~ LoginBegin(w) /\ ~ ChallengeBegin(w) /\ ~ LoginDenied(w)
  PROVE  /\ failures'.password \in Nat /\ failures'.password <= failures.password
         /\ \A v \in Worker : pc'[v] = "denied" => pc[v] = "denied"
<1>t. /\ TypeOK /\ pc \in [Worker -> PC] /\ failures \in [password : Nat, ukey : Nat]
      /\ failures.password \in Nat
  BY DEF TypeInv, TypeOK
<1>p. \A w \in Worker, l \in PC \ {"denied"} :
         pc' = [pc EXCEPT ![w] = l] => \A v \in Worker : pc'[v] = "denied" => pc[v] = "denied"
  BY <1>t
<1>l. \A l \in {"idle", "authorised", "checked", "loaded", "opened", "half", "flushed",
                "written", "granted", "verified", "reset"} : l \in PC \ {"denied"}
  BY DEF PC
<1>1. ASSUME NEW w \in Worker, Administer(w)
      PROVE  failures' = failures /\ \A v \in Worker : pc'[v] = "denied" => pc[v] = "denied"
  <2>1. failures' = failures /\ (pc' = pc \/ \E l \in {"idle", "authorised", "checked", "loaded"} : Goto(w, l))
    <3>1. CASE Authorise(w)
      BY <3>1 DEF Authorise
    <3>2. CASE Initialize(w) \/ CreateAdministrator(w) \/ UpdateAdministrator(w)
      BY <3>2 DEF Initialize, CreateAdministrator, UpdateAdministrator, Change
    <3>3. CASE DeleteAdministrator(w) \/ StoreUKey(w) \/ RemoveUKey(w) \/ UpdateDevice(w)
      BY <3>3 DEF DeleteAdministrator, StoreUKey, RemoveUKey, UpdateDevice, Change
    <3>4. CASE ConfigureUKey(w) \/ GiveUp(w)
      BY <3>4 DEF ConfigureUKey, GiveUp, Return
    <3> QED
      BY <1>1, <3>1, <3>2, <3>3, <3>4 DEF Administer
  <2> QED
    BY <1>p, <1>l, <2>1 DEF Goto
<1>2. ASSUME NEW w \in Worker, Write(w)
      PROVE  failures' = failures /\ \A v \in Worker : pc'[v] = "denied" => pc[v] = "denied"
  <2>1. /\ failures' = failures
        /\ \E l \in {"idle", "opened", "half", "flushed", "written"} : Goto(w, l)
    BY <1>2 DEF Write, OpenTemp, FlushHead, Flush, Replace, WriteFails, PurgeRows, Return
  <2> QED
    BY <1>p, <1>l, <2>1 DEF Goto
<1>3. ASSUME NEW w \in Worker,
             InsertChallenge(w) \/ VerifyBegin(w) \/ VerifyDenied(w) \/ ClaimChallenge(w)
      PROVE  /\ failures'.password = failures.password
             /\ \A v \in Worker : pc'[v] = "denied" => pc[v] = "denied"
  <2>1. failures'.password = failures.password
    BY <1>3, <1>t DEF InsertChallenge, VerifyBegin, VerifyDenied, ClaimChallenge
  <2>2. pc' = pc \/ \E l \in {"idle", "verified", "granted"} : Goto(w, l)
    BY <1>3 DEF InsertChallenge, VerifyBegin, VerifyDenied, ClaimChallenge, Return
  <2> QED
    BY <1>p, <1>l, <2>1, <2>2 DEF Goto
<1>4. ASSUME NEW w \in Worker, LoginGranted(w) \/ ResetBegin(w) \/ ResetDevice(w) \/ ResetRemove(w)
      PROVE  /\ failures'.password \in {0, failures.password}
             /\ \A v \in Worker : pc'[v] = "denied" => pc[v] = "denied"
  <2>1. failures'.password \in {0, failures.password}
    BY <1>4 DEF LoginGranted, ResetBegin, ResetDevice, ResetRemove
  <2>2. pc' = pc \/ \E l \in {"idle", "reset"} : Goto(w, l)
    BY <1>4 DEF LoginGranted, ResetBegin, ResetDevice, ResetRemove, Return
  <2> QED
    BY <1>p, <1>l, <2>1, <2>2 DEF Goto
<1>5. ASSUME EndSession \/ ExpireChallenge \/ UNCHANGED vars
      PROVE  failures' = failures /\ pc' = pc
  BY <1>5 DEF EndSession, ExpireChallenge, vars
<1>6. ASSUME ForgetFailures
      PROVE  failures'.password \in 0 .. failures.password /\ pc' = pc
  BY <1>6 DEF ForgetFailures
<1>7. ASSUME Restart
      PROVE  failures'.password = 0 /\ \A v \in Worker : pc'[v] # "denied"
  BY <1>7 DEF Restart
<1> QED
  BY <1>1, <1>2, <1>3, <1>4, <1>5, <1>6, <1>7, <1>t DEF Next, LogIn

\* A failure is counted by a handler that was denied, and each handler is
\* denied at most once after the limit is reached.
LEMMA NextLimit == TypeInv /\ LoginsAreLimited /\ [Next]_vars => LoginsAreLimited'
<1> SUFFICES ASSUME TypeInv, LoginsAreLimited, [Next]_vars PROVE LoginsAreLimited'
  OBVIOUS
<1>t. TypeOK /\ failures.password \in Nat /\ failures.ukey \in Nat /\ FailureLimit \in Nat \ {0}
  BY WebAssumption DEF TypeInv, TypeOK
<1>n. LoginsAreLimited <=> failures.password <= FailureLimit - 1 + Cardinality(NotDenied)
  BY DEF LoginsAreLimited, NotDenied
<1>m. LoginsAreLimited' <=> failures'.password <= FailureLimit - 1 + Cardinality(NotDenied')
  BY DEF LoginsAreLimited, NotDenied
<1>f. /\ IsFiniteSet(NotDenied) /\ IsFiniteSet(NotDenied')
      /\ Cardinality(NotDenied) \in Nat /\ Cardinality(NotDenied') \in Nat
  <2>1. NotDenied \subseteq Worker /\ NotDenied' \subseteq Worker
    BY DEF NotDenied
  <2> QED
    BY <2>1, WebAssumption, FS_Subset, FS_CardinalityType
<1>1. ASSUME NEW w \in Worker, LoginBegin(w) \/ ChallengeBegin(w) PROVE LoginsAreLimited'
  <2>1. failures.password + failures.ukey < FailureLimit /\ failures' = failures
    BY <1>1 DEF LoginBegin, ChallengeBegin, UnderLimit
  <2> QED
    BY <1>t, <1>f, <1>m, <2>1
<1>2. ASSUME NEW w \in Worker, LoginDenied(w) PROVE LoginsAreLimited'
  <2>1. failures'.password = failures.password + 1
    BY <1>2, <1>t DEF LoginDenied, TypeOK
  <2>2. w \notin NotDenied /\ NotDenied' = NotDenied \cup {w}
    BY <1>2, <1>t DEF LoginDenied, Return, Goto, NotDenied, TypeOK
  <2>3. Cardinality(NotDenied') = Cardinality(NotDenied) + 1
    BY <1>f, <2>2, FS_AddElement
  <2> QED
    BY <1>t, <1>f, <1>m, <1>n, <2>1, <2>3
<1>3. ASSUME \A w \in Worker : ~ LoginBegin(w) /\ ~ ChallengeBegin(w) /\ ~ LoginDenied(w)
      PROVE  LoginsAreLimited'
  <2>1. /\ failures'.password \in Nat /\ failures'.password <= failures.password
        /\ NotDenied \subseteq NotDenied'
    BY <1>3, OtherLimit DEF NotDenied
  <2>2. Cardinality(NotDenied) <= Cardinality(NotDenied')
    BY <1>f, <2>1, FS_Subset
  <2> QED
    BY <1>t, <1>f, <1>m, <1>n, <2>1, <2>2
<1> QED
  BY <1>1, <1>2, <1>3

\* The limit of login_failures is passed by one failure per other worker at
\* most, however many requests arrive at once.
THEOREM LoginLimit == Spec => []LoginsAreLimited
<1>1. Init => LoginsAreLimited
  <2>1. IsFiniteSet(NotDenied)
    BY WebAssumption, FS_Subset DEF NotDenied
  <2>2. Cardinality(NotDenied) \in Nat
    BY <2>1, FS_CardinalityType
  <2> QED
    BY <2>2, WebAssumption DEF Init, LoginsAreLimited, NotDenied
<1> QED
  BY <1>1, NextLimit, Types, PTL DEF Spec

(***************************************************************************)
(* Challenges                                                              *)
(***************************************************************************)

\* Worker w has won challenge c and will create the session.
Claimed(w, c) == pc[w] = "granted" /\ job[w].challenge = c

Unclaimed(c) == admitted[c] = 0 /\ \A w \in Worker : ~ Claimed(w, c)

\* Only a challenge that was issued is in the table, a fresh one has admitted
\* nobody, and one that has been used is in one pair of hands.
OnceInv ==
  \A c \in Challenge :
    /\ c > issued => challenges[c].row = "none"
    /\ (c > issued \/ challenges[c].row = "fresh") => Unclaimed(c)
    /\ \A v, w \in Worker : Claimed(v, c) /\ Claimed(w, c) => v = w
    /\ \A w \in Worker : Claimed(w, c) => admitted[c] = 0
    /\ admitted[c] <= 1

\* Steps that claim nothing and make no row fresh.
LEMMA OtherOnce ==
  ASSUME TypeInv, OnceInv,
         \A c \in Challenge : challenges'[c].row \in {"none", challenges[c].row},
         issued' = issued, admitted' = admitted,
         \A w \in Worker, c \in Challenge : Claimed(w, c)' => Claimed(w, c)
  PROVE  OnceInv'
BY DEF OnceInv, Unclaimed

\* Every step keeps the invariant.
LEMMA NextOnce == TypeInv /\ OnceInv /\ [Next]_vars => OnceInv'
<1> SUFFICES ASSUME TypeInv, OnceInv, [Next]_vars PROVE OnceInv'
  OBVIOUS
<1>t. /\ TypeOK /\ pc \in [Worker -> PC] /\ job \in [Worker -> Job]
      /\ challenges \in [Challenge -> Row] /\ admitted \in [Challenge -> Nat]
      /\ issued \in Nat /\ Challenge \subseteq Nat /\ NoChallenge \notin Challenge
  BY WebAssumption DEF TypeInv, TypeOK, Challenge, NoChallenge
<1>c. ASSUME UNCHANGED <<challenges, issued, admitted>>,
             \A w \in Worker, c \in Challenge : Claimed(w, c)' => Claimed(w, c)
      PROVE  OnceInv'
  BY <1>c, OtherOnce
<1>g. ASSUME NEW w \in Worker, NEW l, l # "granted", Goto(w, l),
             \A v \in Worker \ {w} : job'[v] = job[v]
      PROVE  \A v \in Worker, c \in Challenge : Claimed(v, c)' => Claimed(v, c)
  BY <1>g, <1>t DEF Goto, Claimed
<1>r. ASSUME NEW w \in Worker, Return(w)
      PROVE  \A v \in Worker, c \in Challenge : Claimed(v, c)' => Claimed(v, c)
  BY <1>r, <1>t DEF Return, Goto, Claimed
<1>n. NoRow.row = "none"
  BY DEF NoRow
<1>1. ASSUME NEW w \in Worker, Administer(w) PROVE OnceInv'
  <2>1. UNCHANGED <<challenges, issued, admitted>>
    <3>1. CASE Authorise(w) \/ ConfigureUKey(w) \/ GiveUp(w)
      BY <3>1 DEF Authorise, ConfigureUKey, GiveUp, database, ghosts
    <3>2. CASE Changes(w)
      BY <3>2 DEF Changes, Initialize, CreateAdministrator, UpdateAdministrator,
           DeleteAdministrator, StoreUKey, RemoveUKey, UpdateDevice, Change, database
    <3> QED
      BY <1>1, <3>1, <3>2 DEF Administer, Changes
  <2>2. \/ UNCHANGED <<pc, job>>
        \/ /\ \E l \in {"idle", "authorised", "checked", "loaded"} : Goto(w, l)
           /\ \A v \in Worker \ {w} : job'[v] = job[v]
    <3>1. CASE Authorise(w)
      BY <1>t, <3>1 DEF Authorise
    <3>2. CASE ConfigureUKey(w) \/ GiveUp(w)
      BY <1>t, <3>2 DEF ConfigureUKey, GiveUp, Return
    <3>3. CASE Changes(w)
      <4>1. \E users, u, p : Change(w, users, u, p)
        BY <3>3 DEF Changes, Initialize, CreateAdministrator, UpdateAdministrator,
             DeleteAdministrator, StoreUKey, RemoveUKey, UpdateDevice
      <4> QED
        BY <1>t, <4>1 DEF Change
    <3> QED
      BY <1>1, <3>1, <3>2, <3>3 DEF Administer, Changes
  <2>3. CASE UNCHANGED <<pc, job>>
    BY <1>c, <2>1, <2>3 DEF Claimed
  <2>4. CASE ~ UNCHANGED <<pc, job>>
    BY <1>c, <1>g, <2>1, <2>2, <2>4
  <2> QED
    BY <2>3, <2>4
<1>2. ASSUME NEW w \in Worker, Writes(w) PROVE OnceInv'
  <2>1. UNCHANGED <<challenges, issued, admitted>>
    BY <1>2 DEF Writes, OpenTemp, FlushHead, Flush, Replace, WriteFails, database, ghosts
  <2>2. /\ \E l \in {"idle", "opened", "half", "flushed", "written"} : Goto(w, l)
        /\ \A v \in Worker \ {w} : job'[v] = job[v]
    BY <1>2, <1>t DEF Writes, OpenTemp, FlushHead, Flush, Replace, WriteFails, Return
  <2> QED
    BY <1>c, <1>g, <2>1, <2>2
<1>3. ASSUME NEW w \in Worker, PurgeRows(w) PROVE OnceInv'
  <2>1. \A c \in Challenge : challenges'[c].row \in {"none", challenges[c].row}
    BY <1>3, <1>n DEF PurgeRows
  <2> QED
    BY <1>3, <1>r, <2>1, OtherOnce DEF PurgeRows, ghosts
<1>4. ASSUME NEW w \in Worker, LoginBegin(w) \/ ChallengeBegin(w) PROVE OnceInv'
  <2>1. job[w].challenge = NoChallenge
    BY <1>4 DEF LoginBegin, ChallengeBegin, Arrives, TypeInv, JobOK
  <2>2. job' = job \/ \E u \in Account : job' = [job EXCEPT ![w].user = u]
    BY <1>4 DEF LoginBegin, ChallengeBegin
  <2>3. job'[w].challenge = NoChallenge /\ \A v \in Worker \ {w} : job'[v] = job[v]
    BY <1>t, <2>1, <2>2 DEF Job
  <2>4. \A v \in Worker \ {w} : pc'[v] = pc[v]
    BY <1>4, <1>t DEF LoginBegin, ChallengeBegin, Goto
  <2>5. UNCHANGED <<challenges, issued, admitted>>
    BY <1>4 DEF LoginBegin, ChallengeBegin, database, ghosts
  <2> QED
    BY <1>c, <1>t, <2>3, <2>4, <2>5 DEF Claimed
<1>5. ASSUME NEW w \in Worker, LoginDenied(w) PROVE OnceInv'
  BY <1>5, <1>c, <1>r DEF LoginDenied, database, ghosts
<1>6. ASSUME NEW w \in Worker, LoginGranted(w) PROVE OnceInv'
  <2>1. /\ UNCHANGED <<challenges, issued>> /\ pc[w] = "granted"
        /\ pc' = [pc EXCEPT ![w] = "idle"] /\ job' = [job EXCEPT ![w] = NoJob]
    BY <1>6 DEF LoginGranted, Return, Goto
  <2>2. \A v \in Worker, x \in Challenge : Claimed(v, x)' => v # w /\ Claimed(v, x)
    BY <1>t, <2>1 DEF Claimed
  <2>3. CASE UNCHANGED admitted
    BY <1>c, <2>1, <2>2, <2>3
  <2>4. ASSUME NEW c \in Challenge, c = job[w].challenge,
               admitted' = [admitted EXCEPT ![c] = @ + 1]
        PROVE  OnceInv'
    <3>1. Claimed(w, c)
      BY <2>1, <2>4 DEF Claimed
    <3>2. /\ admitted[c] = 0 /\ \A v \in Worker : Claimed(v, c) => v = w
          /\ ~ (c > issued) /\ challenges[c].row # "fresh"
      BY <2>4, <3>1 DEF OnceInv, Unclaimed
    <3>3. admitted'[c] = 1 /\ \A v \in Worker : ~ Claimed(v, c)'
      BY <1>t, <2>2, <2>4, <3>2
    <3>4. \A x \in Challenge \ {c} : admitted'[x] = admitted[x]
      BY <1>t, <2>4
    <3> SUFFICES ASSUME NEW x \in Challenge
                 PROVE  /\ x > issued => challenges[x].row = "none"
                        /\ (x > issued \/ challenges[x].row = "fresh") => Unclaimed(x)'
                        /\ \A v, u \in Worker : Claimed(v, x)' /\ Claimed(u, x)' => v = u
                        /\ \A v \in Worker : Claimed(v, x)' => admitted'[x] = 0
                        /\ admitted'[x] <= 1
      BY <2>1 DEF OnceInv
    <3>5. CASE x = c
      BY <3>2, <3>3, <3>5 DEF Unclaimed
    <3>6. CASE x # c
      BY <2>2, <3>4, <3>6 DEF OnceInv, Unclaimed
    <3> QED
      BY <3>5, <3>6
  <2> QED
    BY <1>6, <1>t, <2>3, <2>4 DEF LoginGranted, Job
<1>7. ASSUME NEW w \in Worker, InsertChallenge(w) PROVE OnceInv'
  <2>1. \A v \in Worker, c \in Challenge : Claimed(v, c)' => Claimed(v, c)
    BY <1>7, <1>r DEF InsertChallenge
  <2>2. CASE UNCHANGED <<issued, challenges>>
    BY <1>7, <1>c, <2>1, <2>2 DEF InsertChallenge, ghosts
  <2>3. CASE ~ UNCHANGED <<issued, challenges>>
    <3>1. /\ issued' = issued + 1 /\ admitted' = admitted
          /\ \A c \in Challenge : c # issued + 1 => challenges'[c].row \in {"none", challenges[c].row}
      BY <1>7, <1>n, <2>3 DEF InsertChallenge, ghosts
    <3>2. ASSUME NEW x \in Challenge, x = issued + 1
          PROVE  x > issued /\ ~ (x > issued') /\ Unclaimed(x) /\ Unclaimed(x)'
      BY <1>t, <2>1, <3>1, <3>2 DEF OnceInv, Unclaimed
    <3>3. ASSUME NEW x \in Challenge, x # issued + 1
          PROVE  x > issued' => x > issued
      BY <1>t, <3>1
    <3> QED
      BY <2>1, <3>1, <3>2, <3>3 DEF OnceInv, Unclaimed
  <2> QED
    BY <2>2, <2>3
<1>8. ASSUME NEW w \in Worker, VerifyBegin(w) PROVE OnceInv'
  <2>1. Goto(w, "verified") /\ \A v \in Worker \ {w} : job'[v] = job[v]
    BY <1>8, <1>t DEF VerifyBegin
  <2> QED
    BY <1>8, <1>c, <1>g, <2>1 DEF VerifyBegin, database, ghosts
<1>9. ASSUME NEW w \in Worker, ClaimChallenge(w) PROVE OnceInv'
  <2> DEFINE c == job[w].challenge
  <2>1. UNCHANGED <<issued, admitted>> /\ pc[w] = "verified" /\ c \in Challenge
    BY <1>9 DEF ClaimChallenge, TypeInv, JobOK, ghosts
  <2>2. CASE Return(w) /\ UNCHANGED challenges
    BY <1>c, <1>r, <2>1, <2>2
  <2>3. CASE /\ challenges[c].row = "fresh"
             /\ challenges' = [challenges EXCEPT ![c].row = "used"]
             /\ Goto(w, "granted") /\ UNCHANGED job
    <3>1. Unclaimed(c) /\ c <= issued
      BY <1>t, <2>1, <2>3 DEF OnceInv
    <3>2. /\ challenges'[c].row = "used"
          /\ \A x \in Challenge \ {c} : challenges'[x] = challenges[x]
      BY <1>t, <2>1, <2>3 DEF Row
    <3>3. \A v \in Worker, x \in Challenge :
             Claimed(v, x)' <=> (v = w /\ x = c) \/ Claimed(v, x)
      BY <1>t, <2>1, <2>3 DEF Claimed, Goto
    <3> HIDE DEF c
    <3> QED
      BY <1>t, <2>1, <3>1, <3>2, <3>3 DEF OnceInv, Unclaimed
  <2> QED
    BY <1>9, <2>2, <2>3 DEF ClaimChallenge
<1>10. ASSUME NEW w \in Worker, ResetBegin(w) PROVE OnceInv'
  BY <1>10, <1>c, <1>g DEF ResetBegin, database, ghosts
<1>11. ASSUME NEW w \in Worker, ResetRemove(w) \/ ResetDevice(w) PROVE OnceInv'
  <2>1. \A c \in Challenge : challenges'[c].row \in {"none", challenges[c].row}
    BY <1>11, <1>n DEF ResetRemove, ResetDevice, database
  <2>2. UNCHANGED <<issued, admitted>>
    BY <1>11 DEF ResetRemove, ResetDevice, database, ghosts
  <2>3. \A v \in Worker, c \in Challenge : Claimed(v, c)' => Claimed(v, c)
    BY <1>11, <1>r DEF ResetRemove, ResetDevice, Claimed
  <2> QED
    BY <2>1, <2>2, <2>3, OtherOnce
<1>12. ASSUME ExpireChallenge PROVE OnceInv'
  <2>1. \A c \in Challenge : challenges'[c].row = challenges[c].row
    BY <1>12, <1>t DEF ExpireChallenge, Row
  <2> QED
    BY <1>12, <2>1, OtherOnce DEF ExpireChallenge, Claimed, ghosts
<1>13. ASSUME Restart PROVE OnceInv'
  BY <1>13, <1>c DEF Restart, Claimed, ghosts
<1>14. ASSUME EndSession \/ ForgetFailures \/ UNCHANGED vars \/ \E w \in Worker : VerifyDenied(w)
       PROVE  OnceInv'
  <2>1. UNCHANGED <<challenges, issued, admitted, pc, job>>
    BY <1>14 DEF EndSession, ForgetFailures, VerifyDenied, vars, database, ghosts
  <2> QED
    BY <1>c, <2>1 DEF Claimed
<1> QED
  BY <1>1, <1>2, <1>3, <1>4, <1>5, <1>6, <1>7, <1>8, <1>9, <1>10, <1>11, <1>12, <1>13, <1>14
     DEF Next, Write, Writes, LogIn

\* verify_ukey_login creates one session per challenge at most, for any number
\* of requests that answer it, in any order and across restarts.
THEOREM ChallengeUsedOnce == Spec => []ChallengeOnce
<1>1. Init => OnceInv
  BY WebAssumption DEF Init, OnceInv, Unclaimed, Claimed, NoRow, Challenge
<1>2. OnceInv => ChallengeOnce
  BY DEF OnceInv, ChallengeOnce
<1> QED
  BY <1>1, <1>2, NextOnce, Types, PTL DEF Spec

(***************************************************************************)
(* Changes that do not overlap                                             *)
(***************************************************************************)

\* No account asks for a UKey that it has not.
UKeyed(users) == \A u \in Account : users[u].both => users[u].ukey

Alone == \A v, w \in Worker : pc[v] \in Changing /\ pc[w] \in Changing => v = w

\* The writer has a file of its own, unless a reset took it away.
WriterOK(w) ==
  /\ pc[w] \in {"loaded", "opened", "half"} => UKeyed(copy[w])
  /\ pc[w] \in {"opened", "half"} =>
       \/ stream[w] = "temp" /\ Holds(w, temp)
       \/ stream[w] = "lost" /\ temp.kind = "none"
  /\ pc[w] = "flushed" => temp.kind = "none" \/ (temp.kind = "json" /\ UKeyed(temp.users))

\* What configure_administrator_ukey tested is still so when it has the lock.
CheckOK(w) ==
  (pc[w] = "checked" /\ Loads /\ ~ job[w].enable) => ~ User(job[w].user).both

StateOK == state.kind \in {"none", "json"} /\ (Loads => UKeyed(state.users))

SerialInv ==
  overlap \/ (StateOK /\ Alone /\ \A w \in Worker : WriterOK(w) /\ CheckOK(w))

\* Every copy made from accounts that are in order is in order.
LEMMA ChangesUKeyed ==
  ASSUME TypeInv, StateOK, NEW w \in Worker, Changes(w), CheckOK(w)
  PROVE  \E users \in Users : \E u, p : UKeyed(users) /\ Change(w, users, u, p)
<1>t. TypeOK /\ state.users \in [Account -> Record]
  BY DEF TypeInv, TypeOK, File, Users
<1>s. Loads => \A v \in Account : state.users[v].both => state.users[v].ukey
  BY DEF StateOK, UKeyed
<1>n. ~ Absent.both /\ \A super \in BOOLEAN : ~ NewRecord(super).both
  BY DEF Absent, NewRecord
<1>1. ASSUME Initialize(w) PROVE \E users \in Users : \E u, p : UKeyed(users) /\ Change(w, users, u, p)
  <2>1. PICK u \in Account : Change(w, [NoUsers EXCEPT ![u] = NewRecord(TRUE)], u, "all")
    BY <1>1 DEF Initialize
  <2>2. [NoUsers EXCEPT ![u] = NewRecord(TRUE)] \in Users
    BY Constants DEF Users
  <2>3. \A v \in Account : ~ [NoUsers EXCEPT ![u] = NewRecord(TRUE)][v].both
    BY <1>n DEF NoUsers
  <2> QED
    BY <2>1, <2>2, <2>3 DEF UKeyed
<1>2. ASSUME NEW u \in Account, NEW r \in Record, NEW p, Loads, r.both => r.ukey,
             Change(w, [state.users EXCEPT ![u] = r], u, p)
      PROVE  \E users \in Users : \E x, q : UKeyed(users) /\ Change(w, users, x, q)
  <2>1. [state.users EXCEPT ![u] = r] \in Users
    BY <1>t, UserTypes
  <2>2. UKeyed([state.users EXCEPT ![u] = r])
    BY <1>t, <1>s, <1>2 DEF UKeyed
  <2> QED
    BY <1>2, <2>1, <2>2
<1>3. ASSUME CreateAdministrator(w)
      PROVE  \E users \in Users : \E u, p : UKeyed(users) /\ Change(w, users, u, p)
  BY <1>2, <1>3, <1>n, Constants DEF CreateAdministrator
<1>4. ASSUME UpdateAdministrator(w)
      PROVE  \E users \in Users : \E u, p : UKeyed(users) /\ Change(w, users, u, p)
  <2>1. PICK u \in Account, r \in Record :
          /\ Patched(job[w].actor, u, r)
          /\ Change(w, [state.users EXCEPT ![u] = r], u,
                    IF r.enabled THEN "nothing" ELSE "sessions")
    BY <1>4 DEF UpdateAdministrator
  <2>2. Loads
    BY <1>4 DEF UpdateAdministrator
  <2>3. r.both => r.ukey
    BY <1>s, <2>1, <2>2 DEF Patched, User
  <2> QED
    BY <1>2, <2>1, <2>2, <2>3
<1>5. ASSUME DeleteAdministrator(w)
      PROVE  \E users \in Users : \E u, p : UKeyed(users) /\ Change(w, users, u, p)
  BY <1>2, <1>5, <1>n, Constants DEF DeleteAdministrator
<1>6. ASSUME StoreUKey(w) \/ RemoveUKey(w)
      PROVE  \E users \in Users : \E u, p : UKeyed(users) /\ Change(w, users, u, p)
  <2>1. PICK u \in Account, b \in BOOLEAN :
          /\ User(u).exists /\ (b \/ ~ User(u).both)
          /\ \E p : Change(w, [state.users EXCEPT ![u].ukey = b], u, p)
    <3>1. CASE StoreUKey(w)
      <4>1. job[w].user \in Account /\ job[w].enable \in BOOLEAN /\ pc[w] = "checked" /\ Loads
        BY <3>1 DEF StoreUKey, TypeInv, TypeOK, JobOK, Job
      <4>2. job[w].enable \/ ~ User(job[w].user).both
        BY <4>1 DEF CheckOK
      <4> QED
        BY <3>1, <4>1, <4>2 DEF StoreUKey
    <3>2. CASE RemoveUKey(w)
      BY <3>2 DEF RemoveUKey
    <3> QED
      BY <1>6, <3>1, <3>2
  <2>2. Loads
    BY <1>6 DEF StoreUKey, RemoveUKey
  <2> DEFINE users == [state.users EXCEPT ![u].ukey = b]
  <2>3. users \in Users
    BY <1>t, <2>1, UserTypes
  <2>4. /\ users[u].both = state.users[u].both /\ users[u].ukey = b
        /\ \A v \in Account \ {u} : users[v] = state.users[v]
    BY <1>t DEF Record, Fields
  <2>5. UKeyed(users)
    <3> HIDE DEF users
    <3> QED
      BY <1>s, <2>1, <2>2, <2>4 DEF UKeyed, User
  <2> QED
    BY <2>1, <2>3, <2>5
<1>7. ASSUME UpdateDevice(w)
      PROVE  \E users \in Users : \E u, p : UKeyed(users) /\ Change(w, users, u, p)
  <2>1. Change(w, state.users, Nobody, "nothing") /\ UKeyed(state.users)
    BY <1>7 DEF UpdateDevice, StateOK
  <2> QED
    BY <1>t, <2>1 DEF Users
<1> QED
  BY <1>1, <1>3, <1>4, <1>5, <1>6, <1>7 DEF Changes

\* Every step keeps the invariant, or is an overlap.
LEMMA NextSerial == TypeInv /\ SerialInv /\ [Next]_vars => SerialInv'
<1> SUFFICES ASSUME TypeInv, SerialInv, [Next]_vars, ~ overlap'
             PROVE  StateOK' /\ Alone' /\ \A w \in Worker : (WriterOK(w) /\ CheckOK(w))'
  BY DEF SerialInv
<1>t. /\ TypeOK /\ pc \in [Worker -> PC] /\ copy \in [Worker -> Users]
      /\ stream \in [Worker -> {"none", "temp", "state", "lost"}] /\ job \in [Worker -> Job]
  BY DEF TypeInv, TypeOK
<1>k. Unreadable("none").kind = "none" /\ Unreadable("empty").kind = "empty"
  BY DEF Unreadable
<1>l. {"loaded", "opened", "half", "flushed", "checked"} \subseteq Changing
  BY DEF Changing
<1>o. ASSUME ~ overlap PROVE StateOK /\ Alone /\ \A w \in Worker : WriterOK(w) /\ CheckOK(w)
  BY <1>o DEF SerialInv
<1>1. ASSUME Still PROVE StateOK' /\ Alone' /\ \A w \in Worker : (WriterOK(w) /\ CheckOK(w))'
  BY <1>1, <1>o DEF Still, files, StateOK, Loads, Alone, WriterOK, Holds, CheckOK, User, UKeyed
<1>2. ASSUME Restart PROVE StateOK' /\ Alone' /\ \A w \in Worker : (WriterOK(w) /\ CheckOK(w))'
  <2>1. ~ overlap /\ state' = state /\ \A w \in Worker : pc'[w] = "idle"
    BY <1>2 DEF Restart, ghosts
  <2> QED
    BY <1>o, <2>1 DEF StateOK, Loads, Alone, WriterOK, CheckOK, UKeyed, Changing
<1>3. ASSUME NEW w \in Worker, Changes(w)
      PROVE  StateOK' /\ Alone' /\ \A v \in Worker : (WriterOK(v) /\ CheckOK(v))'
  <2>0. \E users, u, p : Change(w, users, u, p)
    BY <1>3 DEF Changes, Initialize, CreateAdministrator, UpdateAdministrator,
         DeleteAdministrator, StoreUKey, RemoveUKey, UpdateDevice
  <2>1. ~ overlap /\ \A v \in Worker \ {w} : pc[v] \notin Changing
    BY <2>0 DEF Change, NotesOverlap
  <2>2. PICK users \in Users : \E u, p : UKeyed(users) /\ Change(w, users, u, p)
    BY <1>3, <1>o, <2>1, ChangesUKeyed
  <2>3. /\ UNCHANGED <<state, temp, stream>> /\ copy' = [copy EXCEPT ![w] = users]
        /\ pc' = [pc EXCEPT ![w] = "loaded"]
    BY <2>2 DEF Change, Goto, files
  <2>4. \A v \in Worker \ {w} : pc'[v] = pc[v] /\ pc'[v] \notin Changing
    BY <1>t, <2>1, <2>3
  <2>5. StateOK' /\ Alone'
    BY <1>o, <2>1, <2>3, <2>4 DEF StateOK, Loads, Alone, UKeyed
  <2>6. pc'[w] = "loaded" /\ UKeyed(copy'[w])
    BY <1>t, <2>2, <2>3
  <2> QED
    BY <1>l, <2>4, <2>5, <2>6 DEF WriterOK, CheckOK, UKeyed
<1>4. ASSUME NEW w \in Worker, Writes(w)
      PROVE  StateOK' /\ Alone' /\ \A v \in Worker : (WriterOK(v) /\ CheckOK(v))'
  <2>1. ~ overlap /\ pc[w] \in Changing
    BY <1>4, <1>l DEF Writes, OpenTemp, FlushHead, Flush, Replace, WriteFails, ghosts
  <2>2. StateOK /\ Alone /\ WriterOK(w) /\ \A v \in Worker \ {w} : pc[v] \notin Changing
    BY <1>o, <2>1 DEF Alone
  <2>3. \E l \in PC : pc' = [pc EXCEPT ![w] = l]
    BY <1>4 DEF Writes, OpenTemp, FlushHead, Flush, Replace, WriteFails, Return, Goto, PC
  <2>4. \A v \in Worker \ {w} : pc'[v] \notin Changing
    BY <1>t, <2>2, <2>3
  <2>5. Alone' /\ \A v \in Worker \ {w} : (WriterOK(v) /\ CheckOK(v))'
    BY <1>l, <2>4 DEF Alone, WriterOK, CheckOK
  <2>6. StateOK' /\ (WriterOK(w) /\ CheckOK(w))'
    <3>1. CASE OpenTemp(w)
      <4>1. pc[w] = "loaded" /\ pc'[w] = "opened" /\ stream'[w] = "temp"
        BY <1>t, <3>1 DEF OpenTemp, Goto
      <4>2. temp'.kind = "empty" /\ state' = state /\ copy' = copy
        BY <1>k, <3>1 DEF OpenTemp
      <4> QED
        BY <2>2, <4>1, <4>2 DEF StateOK, Loads, WriterOK, Holds, CheckOK, UKeyed
    <3>5. CASE FlushHead(w)
      <4>1. pc[w] = "opened" /\ pc'[w] = "half" /\ UKeyed(copy[w]) /\ UNCHANGED <<stream, copy>>
        BY <1>t, <2>2, <3>5 DEF FlushHead, Goto, WriterOK
      <4>2. CASE stream[w] = "temp" /\ Holds(w, temp)
        <5>1. temp.kind = "empty" /\ temp' \in HeadWritten(temp, w) /\ state' = state
          BY <3>5, <4>1, <4>2 DEF FlushHead, WriteTo, Holds
        <5>2. Holds(w, temp)'
          BY <4>1, <5>1, HeadOfEmpty DEF Holds
        <5> QED
          BY <2>2, <4>1, <4>2, <5>1, <5>2 DEF StateOK, Loads, WriterOK, CheckOK, UKeyed
      <4>3. CASE stream[w] = "lost" /\ temp.kind = "none"
        <5>1. temp' = temp /\ state' = state
          BY <3>5, <4>3 DEF FlushHead, WriteTo
        <5> QED
          BY <2>2, <4>1, <4>3, <5>1 DEF StateOK, Loads, WriterOK, CheckOK, UKeyed
      <4> QED
        BY <2>2, <4>1, <4>2, <4>3 DEF WriterOK
    <3>2. CASE Flush(w)
      <4>1. pc[w] = "half" /\ pc'[w] = "flushed" /\ UKeyed(copy[w])
        BY <1>t, <2>2, <3>2 DEF Flush, Goto, WriterOK
      <4>2. CASE stream[w] = "temp" /\ Holds(w, temp)
        <5>1. temp' \in TailWritten(temp, w) /\ state' = state
          BY <3>2, <4>2 DEF Flush, WriteTo
        <5>2. temp'.kind = "json" /\ \A u \in Account : temp'.users[u] = copy[w][u]
          BY <4>1, <4>2, <5>1, TailOfHead DEF Holds
        <5>3. UKeyed(temp'.users)
          BY <4>1, <5>2 DEF UKeyed
        <5> QED
          BY <2>2, <4>1, <5>1, <5>2, <5>3 DEF StateOK, Loads, WriterOK, CheckOK, UKeyed
      <4>3. CASE stream[w] = "lost" /\ temp.kind = "none"
        <5>1. temp' = temp /\ state' = state
          BY <3>2, <4>3 DEF Flush, WriteTo
        <5> QED
          BY <2>2, <4>1, <4>3, <5>1 DEF StateOK, Loads, WriterOK, CheckOK, UKeyed
      <4> QED
        BY <2>2, <4>1, <4>2, <4>3 DEF WriterOK
    <3>3. CASE Replace(w)
      <4>1. pc'[w] \in {"idle", "written"}
        BY <1>t, <3>3 DEF Replace, Return, Goto
      <4>2. state' = state \/ (state' = temp /\ temp.kind # "none")
        BY <3>3 DEF Replace, files
      <4>3. temp.kind = "none" \/ (temp.kind = "json" /\ UKeyed(temp.users))
        BY <2>2, <3>3 DEF Replace, WriterOK
      <4> QED
        BY <2>2, <4>1, <4>2, <4>3 DEF StateOK, Loads, WriterOK, CheckOK, UKeyed
    <3>4. CASE WriteFails(w)
      <4>1. pc'[w] = "idle" /\ state' = state
        BY <1>t, <3>4 DEF WriteFails, Return, Goto
      <4> QED
        BY <2>2, <4>1 DEF StateOK, Loads, WriterOK, CheckOK, UKeyed
    <3> QED
      BY <1>4, <3>1, <3>2, <3>3, <3>4, <3>5 DEF Writes
  <2> QED
    BY <2>5, <2>6
<1>5. ASSUME NEW w \in Worker, ConfigureUKey(w)
      PROVE  StateOK' /\ Alone' /\ \A v \in Worker : (WriterOK(v) /\ CheckOK(v))'
  <2>1. PICK u \in Account, b \in BOOLEAN :
          (b \/ ~ User(u).both) /\ job' = [job EXCEPT ![w].user = u, ![w].enable = b]
    BY <1>5 DEF ConfigureUKey
  <2>2. /\ ~ overlap /\ \A v \in Worker \ {w} : pc[v] \notin Changing
        /\ pc' = [pc EXCEPT ![w] = "checked"] /\ state' = state
    BY <1>5 DEF ConfigureUKey, NotesOverlap, Goto, files
  <2>3. pc'[w] = "checked" /\ \A v \in Worker \ {w} : pc'[v] \notin Changing
    BY <1>t, <2>2
  <2>4. job'[w].user = u /\ job'[w].enable = b
    BY <1>t, <2>1 DEF Job
  <2>5. CheckOK(w)'
    BY <2>1, <2>2, <2>4 DEF CheckOK, User
  <2>6. StateOK'
    BY <1>o, <2>2 DEF StateOK, Loads, UKeyed
  <2> QED
    BY <1>l, <2>3, <2>5, <2>6 DEF Alone, WriterOK, CheckOK
<1>6. ASSUME Erased
      PROVE  StateOK' /\ Alone' /\ \A v \in Worker : (WriterOK(v) /\ CheckOK(v))'
  <2>1. ~ overlap /\ UNCHANGED <<pc, job, copy>>
    BY <1>6 DEF Erased
  <2>2. Alone'
    BY <1>o, <2>1 DEF Alone
  <2>3. CASE /\ state' = Unreadable("none") /\ temp' = temp
             /\ stream' = [v \in Worker |-> IF stream[v] = "state" THEN "lost" ELSE stream[v]]
    <3>1. state'.kind = "none"
      BY <1>k, <2>3
    <3>2. \A v \in Worker : stream[v] \in {"temp", "lost"} => stream'[v] = stream[v]
      BY <1>t, <2>3
    <3>3. \A v \in Worker : WriterOK(v)'
      BY <1>o, <2>1, <2>3, <3>2 DEF WriterOK, Holds, UKeyed
    <3> QED
      BY <2>2, <3>1, <3>3 DEF StateOK, Loads, CheckOK
  <2>4. CASE /\ temp' = Unreadable("none") /\ state' = state
             /\ stream' = [v \in Worker |-> IF stream[v] = "temp" THEN "lost" ELSE stream[v]]
    <3>1. temp'.kind = "none"
      BY <1>k, <2>4
    <3>2. \A v \in Worker : stream[v] \in {"temp", "lost"} => stream'[v] = "lost"
      BY <1>t, <2>4
    <3>3. \A v \in Worker : WriterOK(v)'
      BY <1>o, <2>1, <3>1, <3>2 DEF WriterOK, UKeyed
    <3>4. StateOK' /\ \A v \in Worker : CheckOK(v)'
      BY <1>o, <2>1, <2>4 DEF StateOK, Loads, CheckOK, User, UKeyed
    <3> QED
      BY <2>2, <3>3, <3>4
  <2> QED
    BY <1>6, <2>3, <2>4 DEF Erased
<1>7. ASSUME NEW w \in Worker, NEW l \in PC \ Changing, Calm(w, l)
      PROVE  StateOK' /\ Alone' /\ \A v \in Worker : (WriterOK(v) /\ CheckOK(v))'
  <2>1. /\ ~ overlap /\ UNCHANGED <<state, temp, stream>> /\ pc'[w] \notin Changing
        /\ \A v \in Worker \ {w} : pc'[v] = pc[v] /\ copy'[v] = copy[v] /\ job'[v] = job[v]
    BY <1>7, <1>t DEF Calm, files
  <2>2. StateOK' /\ Alone'
    BY <1>o, <2>1 DEF StateOK, Loads, Alone, UKeyed
  <2>3. ASSUME NEW v \in Worker PROVE (WriterOK(v) /\ CheckOK(v))'
    <3>1. CASE v = w
      BY <1>l, <2>1, <3>1 DEF WriterOK, CheckOK
    <3>2. CASE v # w
      BY <1>o, <2>1, <3>2 DEF WriterOK, Holds, CheckOK, UKeyed, Loads, User
    <3> QED
      BY <3>1, <3>2
  <2> QED
    BY <2>2, <2>3
<1> QED
  BY <1>1, <1>2, <1>3, <1>4, <1>5, <1>6, <1>7, Steps

\* The invariant holds in every reachable state.
LEMMA Serial == Spec => []SerialInv
<1>1. Init => SerialInv
  BY DEF Init, SerialInv, StateOK, Loads, Alone, WriterOK, CheckOK, Unreadable, Changing
<1> QED
  BY <1>1, NextSerial, Types, PTL DEF Spec

(***************************************************************************)
(* Results                                                                 *)
(***************************************************************************)

\* Files, tables and the variables of handlers have their types.
THEOREM TypeCorrect == Spec => []TypeOK
<1>1. TypeInv => TypeOK
  BY DEF TypeInv
<1> QED
  BY <1>1, Types, PTL

\* atomic_json_write leaves a readable state.json wherever it is killed or
\* fails, as long as no two handlers change accounts at once.
THEOREM WriteIsAtomic == Spec => []UnreadableOnlyByOverlap
<1>1. SerialInv => UnreadableOnlyByOverlap
  BY DEF SerialInv, StateOK, UnreadableOnlyByOverlap
<1> QED
  BY <1>1, Serial, PTL

\* The handlers for UKeys lock nobody out, although they test and store in two
\* loads of the file, as long as no two handlers change accounts at once.
THEOREM NobodyLockedOut == Spec => []LockedOutOnlyByOverlap
<1>1. SerialInv => LockedOutOnlyByOverlap
  BY DEF SerialInv, StateOK, LockedOutOnlyByOverlap, UKeyed, User
<1> QED
  BY <1>1, Serial, PTL

(***************************************************************************)
(* Changes that are not lost                                               *)
(***************************************************************************)

\* What the handler will write differs from the account file in the account of
\* its request only, unless the file is gone, and so does what it has written.
OwnChange(w) ==
  /\ (pc[w] \in {"loaded", "opened", "half"} /\ Loads) =>
       \A u \in Account : u = job[w].user \/ copy[w][u] = state.users[u]
  /\ (pc[w] = "flushed" /\ Loads /\ temp.kind = "json") =>
       \A u \in Account : u = job[w].user \/ temp.users[u] = state.users[u]

CopyInv == overlap \/ \A w \in Worker : OwnChange(w)

\* Each handler changes one account of the file it loaded.
LEMMA ChangesOne ==
  ASSUME TypeInv, NEW w \in Worker, Changes(w)
  PROVE  \E users, u, p :
           /\ Change(w, users, u, p)
           /\ Loads => \A v \in Account : v = u \/ users[v] = state.users[v]
<1>t. state.users \in [Account -> Record]
  BY DEF TypeInv, TypeOK, File, Users
<1>1. CASE Initialize(w)
  <2>1. ~ Loads
    BY <1>1 DEF Initialize, Loads
  <2> QED
    BY <1>1, <2>1 DEF Initialize
<1>2. ASSUME NEW u, NEW r, NEW p, Change(w, [state.users EXCEPT ![u] = r], u, p)
      PROVE  \E users, x, q :
               /\ Change(w, users, x, q)
               /\ Loads => \A v \in Account : v = x \/ users[v] = state.users[v]
  <2>0. PICK new : new = [state.users EXCEPT ![u] = r]
    OBVIOUS
  <2>1. \A v \in Account : v = u \/ new[v] = state.users[v]
    BY <1>t, <2>0
  <2>2. Change(w, new, u, p)
    BY <1>2, <2>0 DEF Change
  <2> QED
    BY <2>1, <2>2
<1>3. CASE CreateAdministrator(w) \/ UpdateAdministrator(w) \/ DeleteAdministrator(w)
  <2>1. \E u, r, p : Change(w, [state.users EXCEPT ![u] = r], u, p)
    BY <1>3 DEF CreateAdministrator, UpdateAdministrator, DeleteAdministrator
  <2> QED
    BY <1>2, <2>1
<1>4. CASE StoreUKey(w) \/ RemoveUKey(w)
  <2>1. \E u, b, p : Change(w, [state.users EXCEPT ![u].ukey = b], u, p)
    BY <1>4 DEF StoreUKey, RemoveUKey
  <2>2. PICK u, b, p : Change(w, [state.users EXCEPT ![u].ukey = b], u, p)
    BY <2>1
  <2>0. PICK new : new = [state.users EXCEPT ![u].ukey = b]
    OBVIOUS
  <2>3. \A v \in Account : v = u \/ new[v] = state.users[v]
    BY <1>t, <2>0
  <2>4. Change(w, new, u, p)
    BY <2>0, <2>2 DEF Change
  <2> QED
    BY <2>3, <2>4
<1>5. CASE UpdateDevice(w)
  <2>1. Change(w, state.users, Nobody, "nothing")
    BY <1>5 DEF UpdateDevice
  <2>0. PICK new : new = state.users
    OBVIOUS
  <2>2. Change(w, new, Nobody, "nothing")
    BY <2>0, <2>1 DEF Change
  <2> QED
    BY <2>0, <2>2
<1> QED
  BY <1>1, <1>3, <1>4, <1>5 DEF Changes

\* Every step keeps the invariant, or is an overlap.
LEMMA NextCopy == TypeInv /\ SerialInv /\ CopyInv /\ [Next]_vars => CopyInv'
<1> SUFFICES ASSUME TypeInv, SerialInv, CopyInv, [Next]_vars, ~ overlap'
             PROVE  \A v \in Worker : OwnChange(v)'
  BY DEF CopyInv
<1>t. /\ pc \in [Worker -> PC] /\ copy \in [Worker -> Users] /\ job \in [Worker -> Job]
      /\ stream \in [Worker -> {"none", "temp", "state", "lost"}]
  BY DEF TypeInv, TypeOK
<1>k. Unreadable("none").kind = "none" /\ Unreadable("empty").kind = "empty"
  BY DEF Unreadable
<1>l. {"loaded", "opened", "half", "flushed"} \subseteq Changing
  BY DEF Changing
<1>o. ASSUME ~ overlap
      PROVE  Alone /\ \A w \in Worker : WriterOK(w) /\ OwnChange(w)
  BY <1>o DEF SerialInv, CopyInv
<1>0. ASSUME NEW v \in Worker, pc'[v] \notin Changing PROVE OwnChange(v)'
  BY <1>0, <1>l DEF OwnChange
<1>1. ASSUME Still PROVE \A v \in Worker : OwnChange(v)'
  BY <1>1, <1>o DEF Still, files, OwnChange, Loads
<1>2. ASSUME Restart PROVE \A v \in Worker : OwnChange(v)'
  <2>1. \A v \in Worker : pc'[v] \notin Changing
    BY <1>2 DEF Restart, Changing
  <2> QED
    BY <1>0, <2>1
<1>3. ASSUME NEW w \in Worker, Changes(w) PROVE \A v \in Worker : OwnChange(v)'
  <2>1. PICK users, u, p :
          /\ Change(w, users, u, p)
          /\ Loads => \A v \in Account : v = u \/ users[v] = state.users[v]
    BY <1>3, ChangesOne
  <2>2. /\ \A v \in Worker \ {w} : pc[v] \notin Changing
        /\ state' = state /\ copy' = [copy EXCEPT ![w] = users]
        /\ pc' = [pc EXCEPT ![w] = "loaded"]
        /\ job' = [job EXCEPT ![w] = [NoJob EXCEPT !.user = u, !.purge = p]]
    BY <2>1 DEF Change, NotesOverlap, Goto, files
  <2>3. \A v \in Worker \ {w} : pc'[v] \notin Changing
    BY <1>t, <2>2
  <2>4. pc'[w] = "loaded" /\ copy'[w] = users
    BY <1>t, <2>2
  <2>5. job'[w].user = u
    BY <1>t, <2>2 DEF NoJob
  <2>6. OwnChange(w)'
    BY <2>1, <2>2, <2>4, <2>5 DEF OwnChange, Loads
  <2> QED
    BY <1>0, <2>3, <2>6
<1>4. ASSUME NEW w \in Worker, Writes(w) PROVE \A v \in Worker : OwnChange(v)'
  <2>1. ~ overlap /\ pc[w] \in Changing
    BY <1>4, <1>l DEF Writes, OpenTemp, FlushHead, Flush, Replace, WriteFails, ghosts
  <2>2. WriterOK(w) /\ OwnChange(w) /\ \A v \in Worker \ {w} : pc[v] \notin Changing
    BY <1>o, <2>1 DEF Alone
  <2>3. \E l \in PC : pc' = [pc EXCEPT ![w] = l]
    BY <1>4 DEF Writes, OpenTemp, FlushHead, Flush, Replace, WriteFails, Return, Goto, PC
  <2>4. \A v \in Worker \ {w} : pc'[v] \notin Changing
    BY <1>t, <2>2, <2>3
  <2>5. CASE OpenTemp(w)
    <3>1. pc[w] = "loaded" /\ pc'[w] = "opened" /\ UNCHANGED <<state, copy, job>>
      BY <1>t, <2>5 DEF OpenTemp, Goto
    <3>2. OwnChange(w)'
      BY <2>2, <3>1 DEF OwnChange, Loads
    <3> QED
      BY <1>0, <2>4, <3>2
  <2>8. CASE FlushHead(w)
    <3>1. pc[w] = "opened" /\ pc'[w] = "half" /\ UNCHANGED <<copy, job>>
      BY <1>t, <2>8 DEF FlushHead, Goto
    <3>2. state' = state
      BY <2>2, <2>8, <3>1 DEF FlushHead, WriteTo, WriterOK
    <3>3. OwnChange(w)'
      BY <2>2, <3>1, <3>2 DEF OwnChange, Loads
    <3> QED
      BY <1>0, <2>4, <3>3
  <2>6. CASE Flush(w)
    <3>1. pc[w] = "half" /\ pc'[w] = "flushed" /\ job' = job
      BY <1>t, <2>6 DEF Flush, Goto
    <3>2. /\ state' = state
          /\ temp'.kind = "json" => \A u \in Account : temp'.users[u] = copy[w][u]
      <4>1. CASE stream[w] = "temp" /\ Holds(w, temp)
        <5>1. temp' \in TailWritten(temp, w) /\ state' = state
          BY <2>6, <4>1 DEF Flush, WriteTo
        <5> QED
          BY <3>1, <4>1, <5>1, TailOfHead DEF Holds
      <4>2. CASE stream[w] = "lost" /\ temp.kind = "none"
        BY <2>6, <4>2 DEF Flush, WriteTo
      <4> QED
        BY <2>2, <3>1, <4>1, <4>2 DEF WriterOK
    <3>3. OwnChange(w)'
      BY <2>2, <3>1, <3>2 DEF OwnChange, Loads
    <3> QED
      BY <1>0, <2>4, <3>3
  <2>7. CASE Replace(w) \/ WriteFails(w)
    <3>1. pc'[w] \notin Changing
      BY <1>t, <2>7 DEF Replace, WriteFails, Return, Goto, Changing
    <3> QED
      BY <1>0, <2>4, <3>1
  <2> QED
    BY <1>4, <2>5, <2>6, <2>7, <2>8 DEF Writes
<1>5. ASSUME NEW w \in Worker, ConfigureUKey(w) PROVE \A v \in Worker : OwnChange(v)'
  <2>1. /\ \A v \in Worker \ {w} : pc[v] \notin Changing
        /\ pc' = [pc EXCEPT ![w] = "checked"]
    BY <1>5 DEF ConfigureUKey, NotesOverlap, Goto
  <2>2. \A v \in Worker : pc'[v] \notin {"loaded", "opened", "half", "flushed"}
    BY <1>t, <1>l, <2>1
  <2> QED
    BY <2>2 DEF OwnChange
<1>6. ASSUME Erased PROVE \A v \in Worker : OwnChange(v)'
  <2>1. /\ ~ overlap /\ UNCHANGED <<pc, job, copy>>
        /\ \/ state'.kind = "none"
           \/ state' = state /\ temp'.kind = "none"
    BY <1>6, <1>k DEF Erased
  <2> QED
    BY <1>o, <2>1 DEF OwnChange, Loads
<1>7. ASSUME NEW w \in Worker, NEW l \in PC \ Changing, Calm(w, l)
      PROVE  \A v \in Worker : OwnChange(v)'
  <2>1. /\ ~ overlap /\ UNCHANGED <<state, temp>> /\ pc'[w] \notin Changing
        /\ \A v \in Worker \ {w} : pc'[v] = pc[v] /\ copy'[v] = copy[v] /\ job'[v] = job[v]
    BY <1>7, <1>t DEF Calm, files
  <2>2. \A v \in Worker \ {w} : OwnChange(v)'
    BY <1>o, <2>1 DEF OwnChange, Loads
  <2> QED
    BY <1>0, <2>1, <2>2
<1> QED
  BY <1>1, <1>2, <1>3, <1>4, <1>5, <1>6, <1>7, Steps

\* As long as no two handlers change accounts at once, no change of an account
\* is lost and no deleted account comes back: each replacement of state.json
\* changes the account of its request only, kills and full disks included.
THEOREM NoUpdateLost == Spec => LostUpdateOnlyByOverlap
<1> DEFINE Kept == Loads /\ Loads' /\ ~ overlap' =>
                     \A u \in Account :
                       \/ User(u)' = User(u)
                       \/ \E w \in Worker : pc[w] = "flushed" /\ job[w].user = u
<1>1. Init => CopyInv
  BY DEF Init, CopyInv, OwnChange
<1>2. TypeInv /\ SerialInv /\ CopyInv /\ [Next]_vars => [Kept]_vars
  <2> SUFFICES ASSUME TypeInv, SerialInv, CopyInv, [Next]_vars, Loads, Loads', ~ overlap',
                      NEW u \in Account, state' # state
               PROVE  User(u)' = User(u) \/ \E w \in Worker : pc[w] = "flushed" /\ job[w].user = u
    BY DEF User
  <2>1. PICK w \in Worker : Writes(w)
    <3>1. ASSUME NEW w \in Worker, Changes(w) PROVE FALSE
      <4>1. state' = state
        BY <3>1, ChangesOne DEF Change, files
      <4> QED
        BY <4>1
    <3>2. /\ ~ Still /\ ~ Restart
          /\ \A w \in Worker : ~ ConfigureUKey(w) /\ \A l \in PC : ~ Calm(w, l)
      BY DEF Still, Restart, ConfigureUKey, Calm, files
    <3>3. ~ Erased
      BY DEF Erased, Loads, Unreadable
    <3> QED
      BY <3>1, <3>2, <3>3, Steps
  <2>3. ~ overlap
    BY <2>1 DEF Writes, OpenTemp, FlushHead, Flush, Replace, WriteFails, ghosts
  <2>4. WriterOK(w) /\ OwnChange(w)
    BY <2>3 DEF SerialInv, CopyInv
  <2>5. Replace(w)
    <3>1. ~ FlushHead(w) /\ ~ Flush(w)
      BY <2>4 DEF FlushHead, Flush, WriteTo, WriterOK
    <3> QED
      BY <2>1, <3>1 DEF Writes, OpenTemp, WriteFails
  <2>6. pc[w] = "flushed" /\ state' = temp
    BY <2>5 DEF Replace, files
  <2>7. temp.kind = "json"
    BY <2>6 DEF Loads
  <2> QED
    BY <2>4, <2>6, <2>7 DEF OwnChange, User
<1> QED
  BY <1>1, <1>2, NextCopy, Serial, Types, PTL DEF Spec, LostUpdateOnlyByOverlap
=============================================================================
