----------------------------- MODULE WebManager -----------------------------
(***************************************************************************)
(* The web management backend, src/web/backend/app/main.py: administrator  *)
(* accounts, login by password or by password and UKey, and factory reset. *)
(* FastAPI runs every handler in a worker thread of one process.           *)
(*                                                                         *)
(* Accounts live in web/state.json.  A handler loads the whole file,       *)
(* changes its copy and writes all of it back through a temporary file     *)
(* whose name holds only the process id, so all workers share it.  Login   *)
(* sessions and UKey challenges are rows of web/manager.db, where each     *)
(* statement is a transaction.  Only the UKey handlers take state_lock.    *)
(*                                                                         *)
(* json.dump writes through a buffered stream, so a text longer than the   *)
(* buffer reaches the file in pieces.  Two pieces stand for them here: the *)
(* accounts in Front are in the first one, the others in the second, and   *)
(* the pieces of two handlers may interleave in the one temporary file.    *)
(*                                                                         *)
(* Passwords and signatures are abstracted to whether they are right.  A   *)
(* role is super_admin or one of the others.  A change of password writes  *)
(* the file and changes nothing that is visible here.  Files written by    *)
(* earlier versions, which load_state converts, do not occur.              *)
(***************************************************************************)
EXTENDS Naturals, FiniteSets

CONSTANTS
  Account,           \* user names
  Worker,            \* threads that run handlers
  Front,             \* the accounts in the first piece of the text
  Nobody,
  FailureLimit,      \* failed logins from one address (5 in the code)
  MaxUKeyFailures,   \* bound: failed UKey answers
  MaxChallenges,     \* bound: challenges issued
  MaxChanges         \* bound: writes of state.json begun, resets and kills

ASSUME WebAssumption ==
  /\ Nobody \notin Account \cup Worker
  /\ Front \subseteq Account
  /\ IsFiniteSet(Worker)
  /\ FailureLimit \in Nat \ {0}
  /\ {MaxUKeyFailures, MaxChallenges, MaxChanges} \subseteq Nat

Challenge == 1 .. MaxChallenges
NoChallenge == 0

(* One account.  both: login_mode is "password_ukey".  ukey: a certificate *)
(* is bound and enabled.                                                   *)
Fields == [exists : BOOLEAN, super : BOOLEAN, enabled : BOOLEAN,
           both : BOOLEAN, ukey : BOOLEAN]
Absent == [exists |-> FALSE, super |-> FALSE, enabled |-> FALSE,
           both |-> FALSE, ukey |-> FALSE]
Record == {r \in Fields : r.exists \/ r = Absent}
NewRecord(super) == [Absent EXCEPT !.exists = TRUE, !.enabled = TRUE, !.super = super]

Users == [Account -> Record]
NoUsers == [u \in Account |-> Absent]

(* What a file holds.  "head": the first piece only, written by "by".       *)
(* "tail": the second piece only, after bytes that nobody wrote.  "torn":   *)
(* pieces that do not fit together.  "json": a text that can be read.       *)
FileKind == {"none", "empty", "head", "tail", "torn", "json"}
File == [kind : FileKind, users : Users, by : Worker \cup {Nobody}]
Unreadable(kind) == [kind |-> kind, users |-> NoUsers, by |-> Nobody]

VARIABLES
  state, temp,       \* web/state.json and web/state.json.tmp.<pid>
  stream,            \* the file each worker's open stream writes to
  pc, job, copy,     \* where each worker is, its arguments, what it will write
  lock,              \* who holds state_lock
  maintenance,       \* who has set maintenance_active
  tables,            \* manager.db has its tables
  sessions,          \* accounts with a row in the table sessions
  challenges,        \* the table ukey_challenges
  issued,            \* challenges inserted so far
  failures,          \* login_failures of the one address modelled
  changes,           \* writes, resets and kills so far
  overlap,           \* ghost: two handlers were changing accounts at once
  shared,            \* ghost: two handlers had the temporary file open at once
  admitted           \* ghost: sessions created from each challenge

files == <<state, temp, stream>>
database == <<tables, sessions, challenges, issued>>
ghosts == <<overlap, shared, admitted>>
vars == <<files, pc, job, copy, lock, maintenance, database, failures, changes, ghosts>>

(***************************************************************************)
(* "authorised": the dependency require_roles is passed.  "checked":       *)
(* ConfigureUKey has made its test and goes for the lock.  "loaded" ..     *)
(* "flushed": atomic_json_write, with the first piece written at "half".   *)
(* "written": rows are to be deleted.                                      *)
(* "denied", "granted": a login is decided.  "challenge": the password is  *)
(* right, the row is next.  "verified": the signature is right.  "reset":  *)
(* the daemon is asked to erase everything.                                *)
(***************************************************************************)
PC == {"idle", "authorised", "checked", "loaded", "opened", "half", "flushed",
       "written", "denied", "granted", "challenge", "verified", "reset"}
Changing == {"checked", "loaded", "opened", "half", "flushed"}

Purge == {"nothing", "sessions", "challenges", "all"}
Job == [actor : Account \cup {Nobody}, user : Account \cup {Nobody},
        enable : BOOLEAN, purge : Purge, challenge : Challenge \cup {NoChallenge}]
NoJob == [actor |-> Nobody, user |-> Nobody, enable |-> FALSE,
          purge |-> "nothing", challenge |-> NoChallenge]

Row == [row : {"none", "fresh", "used"}, user : Account \cup {Nobody}, expired : BOOLEAN]
NoRow == [row |-> "none", user |-> Nobody, expired |-> FALSE]

TypeOK ==
  /\ state \in File /\ temp \in File
  /\ stream \in [Worker -> {"none", "temp", "state", "lost"}]
  /\ pc \in [Worker -> PC]
  /\ job \in [Worker -> Job]
  /\ copy \in [Worker -> Users]
  /\ lock \in Worker \cup {Nobody} /\ maintenance \in Worker \cup {Nobody}
  /\ tables \in BOOLEAN
  /\ sessions \in SUBSET Account
  /\ challenges \in [Challenge -> Row] /\ issued \in 0 .. MaxChallenges
  /\ failures \in [password : Nat, ukey : Nat]
  /\ changes \in 0 .. MaxChanges
  /\ overlap \in BOOLEAN /\ shared \in BOOLEAN
  /\ admitted \in [Challenge -> Nat]

\* A new device: no accounts, and initialize_storage has made the tables.
Init ==
  /\ state = Unreadable("none") /\ temp = Unreadable("none")
  /\ stream = [w \in Worker |-> "none"]
  /\ pc = [w \in Worker |-> "idle"]
  /\ job = [w \in Worker |-> NoJob]
  /\ copy = [w \in Worker |-> NoUsers]
  /\ lock = Nobody /\ maintenance = Nobody
  /\ tables = TRUE /\ sessions = {}
  /\ challenges = [c \in Challenge |-> NoRow] /\ issued = 0
  /\ failures = [password |-> 0, ukey |-> 0]
  /\ changes = 0
  /\ overlap = FALSE /\ shared = FALSE
  /\ admitted = [c \in Challenge |-> 0]

-----------------------------------------------------------------------------
(* Helpers *)

\* load_state raises for a file that is there and is not JSON.
Loads == state.kind = "json"
User(u) == state.users[u]

HasSuper(users) == \E u \in Account : users[u].super /\ users[u].enabled

Goto(w, l) == pc' = [pc EXCEPT ![w] = l]

\* Back to the event loop; whatever the handler held is released.
Return(w) ==
  /\ Goto(w, "idle")
  /\ job' = [job EXCEPT ![w] = NoJob]
  /\ copy' = [copy EXCEPT ![w] = NoUsers]

\* The middleware request_context refuses everything during maintenance.
Arrives(w) == pc[w] = "idle" /\ maintenance = Nobody

NotesOverlap(w) ==
  overlap' = (overlap \/ \E v \in Worker \ {w} : pc[v] \in Changing)

\* The handler has changed its copy of the accounts and will write it.
Change(w, users, user, purge) ==
  /\ changes < MaxChanges
  /\ changes' = changes + 1
  /\ Goto(w, "loaded")
  /\ copy' = [copy EXCEPT ![w] = users]
  /\ job' = [job EXCEPT ![w] = [NoJob EXCEPT !.user = user, !.purge = purge]]
  /\ NotesOverlap(w)
  /\ UNCHANGED <<files, maintenance, database, failures, shared, admitted>>

-----------------------------------------------------------------------------
(* Sessions and roles *)

\* current_session and require_roles: the session's account must be enabled,
\* or the session is deleted, and must be a super administrator.
Authorise(w) ==
  /\ Arrives(w) /\ Loads /\ tables
  /\ \E a \in sessions :
       \/ /\ User(a).enabled /\ User(a).super
          /\ Goto(w, "authorised")
          /\ job' = [job EXCEPT ![w].actor = a]
          /\ UNCHANGED sessions
       \/ /\ ~ User(a).enabled
          /\ sessions' = sessions \ {a}
          /\ UNCHANGED <<pc, job>>
  /\ UNCHANGED <<files, copy, lock, maintenance, tables, challenges, issued, failures,
                 changes, ghosts>>

\* logout, or the row is older than SESSION_TTL.
EndSession ==
  /\ \E a \in sessions : sessions' = sessions \ {a}
  /\ UNCHANGED <<files, pc, job, copy, lock, maintenance, tables, challenges, issued,
                 failures, changes, ghosts>>

-----------------------------------------------------------------------------
(* Administrators *)

\* initialize: a device without state.json gets its first administrator.
Initialize(w) ==
  /\ Arrives(w) /\ state.kind = "none"
  /\ \E u \in Account :
       Change(w, [NoUsers EXCEPT ![u] = NewRecord(TRUE)], u, "all")
  /\ UNCHANGED lock

CreateAdministrator_FromScratch(w) ==
  /\ pc[w] = "authorised" /\ Loads
  /\ \E u \in Account, super \in BOOLEAN :
       /\ ~ User(u).exists
       /\ Change(w, [NoUsers EXCEPT ![u] = NewRecord(super)], u, "nothing")
  /\ UNCHANGED lock

CreateAdministrator(w) ==
  /\ pc[w] = "authorised" /\ Loads
  /\ \E u \in Account, super \in BOOLEAN :
       /\ ~ User(u).exists
       /\ Change(w, [state.users EXCEPT ![u] = NewRecord(super)], u, "nothing")
  /\ UNCHANGED lock

\* What PATCH /api/administrators/{u} may make of the account.
Patched(actor, u, r) ==
  /\ r.exists /\ r.ukey = User(u).ukey
  /\ (u = actor /\ User(u).enabled) => r.enabled
  /\ (r.both /\ ~ User(u).both) => r.ukey

UpdateAdministrator_CountsBefore(w) ==
  /\ pc[w] = "authorised" /\ Loads
  /\ \E u \in Account, r \in Record :
       /\ User(u).exists /\ Patched(job[w].actor, u, r)
       /\ HasSuper(state.users)
       /\ Change(w, [state.users EXCEPT ![u] = r], u,
                 IF r.enabled THEN "nothing" ELSE "sessions")
  /\ UNCHANGED lock

\* update_administrator counts the super administrators of the changed copy.
UpdateAdministrator(w) ==
  /\ pc[w] = "authorised" /\ Loads
  /\ \E u \in Account, r \in Record :
       /\ User(u).exists /\ Patched(job[w].actor, u, r)
       /\ HasSuper([state.users EXCEPT ![u] = r])
       /\ Change(w, [state.users EXCEPT ![u] = r], u,
                 IF r.enabled THEN "nothing" ELSE "sessions")
  /\ UNCHANGED lock

DeleteAdministrator_KeepsFields(w) ==
  /\ pc[w] = "authorised" /\ Loads
  /\ \E u \in Account \ {job[w].actor} :
       /\ User(u).exists
       /\ User(u).super => \E v \in Account \ {u} : User(v).super /\ User(v).enabled
       /\ Change(w, [state.users EXCEPT ![u].exists = FALSE], u, "sessions")
  /\ UNCHANGED lock

\* delete_administrator: never the own account, never the last enabled super
\* administrator.
DeleteAdministrator(w) ==
  /\ pc[w] = "authorised" /\ Loads
  /\ \E u \in Account \ {job[w].actor} :
       /\ User(u).exists
       /\ User(u).super => \E v \in Account \ {u} : User(v).super /\ User(v).enabled
       /\ Change(w, [state.users EXCEPT ![u] = Absent], u, "sessions")
  /\ UNCHANGED lock

\* configure_administrator_ukey: the mode is tested on a first load ...
ConfigureUKey(w) ==
  /\ pc[w] = "authorised" /\ Loads
  /\ \E u \in Account, enable \in BOOLEAN :
       /\ User(u).exists
       /\ ~ enable => ~ User(u).both
       /\ job' = [job EXCEPT ![w].user = u, ![w].enable = enable]
  /\ Goto(w, "checked")
  /\ NotesOverlap(w)
  /\ UNCHANGED <<files, copy, lock, maintenance, database, failures, changes, shared,
                 admitted>>

\* ... and the certificate stored in a second one, under state_lock.
StoreUKey(w) ==
  /\ pc[w] = "checked" /\ lock = Nobody /\ Loads
  /\ LET u == job[w].user
     IN  /\ User(u).exists
         /\ Change(w, [state.users EXCEPT ![u].ukey = job[w].enable], u, "nothing")
  /\ lock' = w

RemoveUKey_AnyMode(w) ==
  /\ pc[w] = "authorised" /\ lock = Nobody /\ Loads
  /\ \E u \in Account :
       /\ User(u).exists
       /\ Change(w, [state.users EXCEPT ![u].ukey = FALSE], u, "challenges")
  /\ lock' = w

RemoveUKey(w) ==
  /\ pc[w] = "authorised" /\ lock = Nobody /\ Loads
  /\ \E u \in Account :
       /\ User(u).exists /\ ~ User(u).both
       /\ Change(w, [state.users EXCEPT ![u].ukey = FALSE], u, "challenges")
  /\ lock' = w

\* Any handler before its write: a 4xx answer, or an error of the daemon.
GiveUp(w) ==
  /\ pc[w] \in {"authorised", "checked", "verified"}
  /\ Return(w)
  /\ UNCHANGED <<files, lock, maintenance, database, failures, changes, ghosts>>

\* update_device, for the role system_admin: no account changes, but the
\* whole file is written all the same.
UpdateDevice(w) ==
  /\ Arrives(w) /\ Loads /\ tables
  /\ \E a \in sessions : User(a).enabled /\ ~ User(a).super
  /\ Change(w, state.users, Nobody, "nothing")
  /\ UNCHANGED lock

-----------------------------------------------------------------------------
(* atomic_json_write *)

OpenTemp_InPlace(w) ==
  /\ pc[w] = "loaded"
  /\ state' = Unreadable("empty")
  /\ stream' = [stream EXCEPT ![w] = "state"]
  /\ Goto(w, "opened")
  /\ UNCHANGED <<temp, job, copy, lock, maintenance, database, failures, changes, ghosts>>

\* open("w"): the file is created, or truncated under another worker's stream.
OpenTemp(w) ==
  /\ pc[w] = "loaded"
  /\ temp' = Unreadable("empty")
  /\ stream' = [stream EXCEPT ![w] = "temp"]
  /\ shared' = (shared \/ \E v \in Worker \ {w} : stream[v] = "temp")
  /\ Goto(w, "opened")
  /\ UNCHANGED <<state, job, copy, lock, maintenance, database, failures, changes,
                 overlap, admitted>>

\* The accounts of a text that has part of another text written over it.
Overlaid(file, part, users) ==
  [u \in Account |-> IF u \in part THEN users[u] ELSE file.users[u]]

\* The first piece, written from offset 0.  Over somebody else's bytes the
\* result may fit together, or leave some of them behind.
HeadWritten(file, w) ==
  LET Kinds == CASE file.kind = "empty" -> {"head"}
                 [] file.kind = "head" -> {"head", "torn"}
                 [] OTHER -> {"json", "torn"}
  IN  {[kind |-> k, users |-> Overlaid(file, Front, copy[w]),
        by |-> IF k = "head" THEN w ELSE Nobody] : k \in Kinds}

\* The second piece, written where the first one of this stream ended: a text
\* of its own if that is still there, otherwise whatever the pieces make.
TailWritten(file, w) ==
  LET Kinds == CASE file.kind = "head" /\ file.by = w -> {"json"}
                 [] file.kind \in {"empty", "tail"} -> {"tail"}
                 [] OTHER -> {"json", "torn"}
  IN  {[kind |-> k, users |-> Overlaid(file, Account \ Front, copy[w]), by |-> Nobody] :
         k \in Kinds}

\* A write goes to the file of the stream, wherever that has been renamed to:
\* temps and states are what it may make of the one file and of the other.
WriteTo(w, temps, states) ==
  \/ stream[w] = "temp" /\ temp' \in temps /\ UNCHANGED state
  \/ stream[w] = "state" /\ state' \in states /\ UNCHANGED temp
  \/ stream[w] = "lost" /\ UNCHANGED <<state, temp>>

\* json.dump fills the buffer and the first piece is written.
FlushHead(w) ==
  /\ pc[w] = "opened"
  /\ WriteTo(w, HeadWritten(temp, w), HeadWritten(state, w))
  /\ Goto(w, "half")
  /\ UNCHANGED <<stream, job, copy, lock, maintenance, database, failures, changes, ghosts>>

\* The rest of dump, flush, fsync, close.
Flush(w) ==
  /\ pc[w] = "half"
  /\ WriteTo(w, TailWritten(temp, w), TailWritten(state, w))
  /\ stream' = [stream EXCEPT ![w] = "none"]
  /\ Goto(w, "flushed")
  /\ copy' = [copy EXCEPT ![w] = NoUsers]
  /\ UNCHANGED <<job, lock, maintenance, database, failures, changes, ghosts>>

Released(w) == IF lock = w THEN Nobody ELSE lock

\* chmod and os.replace: whatever has the temporary name becomes state.json;
\* if another worker took it already, FileNotFoundError ends the request.
Replace(w) ==
  /\ pc[w] = "flushed"
  /\ IF temp.kind = "none"
     THEN /\ Return(w)
          /\ UNCHANGED files
     ELSE /\ state' = temp
          /\ temp' = Unreadable("none")
          /\ stream' = [v \in Worker |-> CASE stream[v] = "temp" -> "state"
                                           [] stream[v] = "state" -> "lost"
                                           [] OTHER -> stream[v]]
          /\ IF job[w].purge = "nothing"
             THEN Return(w)
             ELSE Goto(w, "written") /\ UNCHANGED <<job, copy>>
  /\ lock' = Released(w)
  /\ UNCHANGED <<maintenance, database, failures, changes, ghosts>>

\* The disk is full: the exception leaves what has been written so far.
WriteFails(w) ==
  /\ pc[w] \in {"opened", "half"}
  /\ stream' = [stream EXCEPT ![w] = "none"]
  /\ Return(w)
  /\ lock' = Released(w)
  /\ UNCHANGED <<state, temp, maintenance, database, failures, changes, ghosts>>

\* The rows that go with the change; without tables sqlite3 raises.
PurgeRows(w) ==
  /\ pc[w] = "written"
  /\ LET u == job[w].user
         p == job[w].purge
     IN  IF tables
         THEN /\ sessions' = CASE p = "sessions" -> sessions \ {u}
                               [] p = "all" -> {}
                               [] OTHER -> sessions
              /\ challenges' = [c \in Challenge |->
                                  IF p = "all" \/ (p = "challenges" /\ challenges[c].user = u)
                                  THEN NoRow ELSE challenges[c]]
         ELSE UNCHANGED <<sessions, challenges>>
  /\ Return(w)
  /\ UNCHANGED <<files, lock, maintenance, tables, issued, failures, changes, ghosts>>

-----------------------------------------------------------------------------
(* Login *)

UnderLimit == failures.password + failures.ukey < FailureLimit

LoginBegin_OffByOne(w) ==
  /\ Arrives(w) /\ Loads
  /\ failures.password + failures.ukey <= FailureLimit
  /\ \/ /\ \E u \in Account :
             /\ User(u).enabled /\ ~ User(u).both
             /\ job' = [job EXCEPT ![w].user = u]
        /\ Goto(w, "granted")
     \/ Goto(w, "denied") /\ UNCHANGED job
  /\ UNCHANGED <<files, copy, lock, maintenance, database, failures, changes, ghosts>>

\* login: the accounts are loaded, the limit is tested, the password compared.
LoginBegin(w) ==
  /\ Arrives(w) /\ Loads /\ UnderLimit
  /\ \/ /\ \E u \in Account :
             /\ User(u).enabled /\ ~ User(u).both
             /\ job' = [job EXCEPT ![w].user = u]
        /\ Goto(w, "granted")
     \/ Goto(w, "denied") /\ UNCHANGED job
  /\ UNCHANGED <<files, copy, lock, maintenance, database, failures, changes, ghosts>>

\* The failure is appended in a second critical section.
LoginDenied(w) ==
  /\ pc[w] = "denied"
  /\ failures' = [failures EXCEPT !.password = @ + 1]
  /\ Return(w)
  /\ UNCHANGED <<files, lock, maintenance, database, changes, ghosts>>

\* The failures are forgotten and create_session inserts the row, if it can.
LoginGranted(w) ==
  /\ pc[w] = "granted"
  /\ failures' = [password |-> 0, ukey |-> 0]
  /\ sessions' = IF tables THEN sessions \cup {job[w].user} ELSE sessions
  /\ admitted' = IF tables /\ job[w].challenge # NoChallenge
                 THEN [admitted EXCEPT ![job[w].challenge] = @ + 1]
                 ELSE admitted
  /\ Return(w)
  /\ UNCHANGED <<files, lock, maintenance, tables, challenges, issued, changes, overlap,
                 shared>>

\* Entries older than 15 minutes are dropped at the next attempt.
ForgetFailures ==
  /\ failures' \in [password : 0 .. failures.password, ukey : 0 .. failures.ukey]
  /\ failures' # failures
  /\ UNCHANGED <<files, pc, job, copy, lock, maintenance, database, changes, ghosts>>

-----------------------------------------------------------------------------
(* Login with a UKey *)

\* require_ukey_user
UKeyUser(u) == User(u).enabled /\ User(u).ukey /\ User(u).both

\* create_ukey_challenge: limit, account, password.
ChallengeBegin(w) ==
  /\ Arrives(w) /\ Loads /\ UnderLimit
  /\ \E u \in Account :
       /\ UKeyUser(u)
       /\ \/ Goto(w, "challenge") /\ job' = [job EXCEPT ![w].user = u]
          \/ Goto(w, "denied") /\ UNCHANGED job
  /\ UNCHANGED <<files, copy, lock, maintenance, database, failures, changes, ghosts>>

\* Expired rows are deleted and the new one inserted, in one transaction.
InsertChallenge(w) ==
  /\ pc[w] = "challenge"
  /\ \/ /\ tables /\ issued < MaxChallenges
        /\ issued' = issued + 1
        /\ challenges' =
             [c \in Challenge |->
                IF c = issued + 1
                THEN [row |-> "fresh", user |-> job[w].user, expired |-> FALSE]
                ELSE IF challenges[c].expired THEN NoRow ELSE challenges[c]]
     \/ UNCHANGED <<issued, challenges>>     \* no table, or the daemon failed
  /\ Return(w)
  /\ UNCHANGED <<files, lock, maintenance, tables, sessions, failures, changes, ghosts>>

ExpireChallenge ==
  /\ \E c \in Challenge :
       /\ challenges[c].row # "none" /\ ~ challenges[c].expired
       /\ challenges' = [challenges EXCEPT ![c].expired = TRUE]
  /\ UNCHANGED <<files, pc, job, copy, lock, maintenance, tables, sessions, issued,
                 failures, changes, ghosts>>

\* verify_ukey_login: the row is selected and the certificate and signature
\* are verified with the daemon.
VerifyBegin(w) ==
  /\ Arrives(w) /\ Loads /\ tables
  /\ \E c \in Challenge :
       /\ challenges[c].row = "fresh" /\ ~ challenges[c].expired
       /\ UKeyUser(challenges[c].user)
       /\ job' = [job EXCEPT ![w].user = challenges[c].user, ![w].challenge = c]
  /\ Goto(w, "verified")
  /\ UNCHANGED <<files, copy, lock, maintenance, database, failures, changes, ghosts>>

\* A challenge that is not valid, or a wrong signature.
VerifyDenied(w) ==
  /\ Arrives(w) /\ Loads /\ tables
  /\ \E u \in Account : UKeyUser(u)
  /\ failures.ukey < MaxUKeyFailures
  /\ failures' = [failures EXCEPT !.ukey = @ + 1]
  /\ UNCHANGED <<files, pc, job, copy, lock, maintenance, database, changes, ghosts>>

ClaimChallenge_NoTest(w) ==
  /\ pc[w] = "verified"
  /\ IF tables /\ challenges[job[w].challenge].row # "none"
     THEN /\ challenges' = [challenges EXCEPT ![job[w].challenge].row = "used"]
          /\ Goto(w, "granted")
          /\ UNCHANGED <<job, copy>>
     ELSE /\ Return(w)
          /\ UNCHANGED challenges
  /\ UNCHANGED <<files, lock, maintenance, tables, sessions, issued, failures, changes, ghosts>>

\* UPDATE ... SET used = 1 WHERE challenge_id = ? AND used = 0, and rowcount.
ClaimChallenge(w) ==
  /\ pc[w] = "verified"
  /\ IF tables /\ challenges[job[w].challenge].row = "fresh"
     THEN /\ challenges' = [challenges EXCEPT ![job[w].challenge].row = "used"]
          /\ Goto(w, "granted")
          /\ UNCHANGED <<job, copy>>
     ELSE /\ Return(w)
          /\ UNCHANGED challenges
  /\ UNCHANGED <<files, lock, maintenance, tables, sessions, issued, failures, changes, ghosts>>

-----------------------------------------------------------------------------
(* Factory reset, and the process itself *)

\* reset_device, by a super or system administrator, up to the daemon.
ResetBegin(w) ==
  /\ Arrives(w) /\ Loads /\ tables
  /\ \E a \in sessions : User(a).enabled
  /\ changes < MaxChanges
  /\ changes' = changes + 1
  /\ maintenance' = w
  /\ Goto(w, "reset")
  /\ UNCHANGED <<files, job, copy, lock, database, failures, ghosts>>

\* remove_tree unlinks the files of web/ one by one, in the directory's order.
\* A stream on a file that is gone writes to nothing.
ResetRemove(w) ==
  /\ pc[w] = "reset"
  /\ \/ /\ state' = Unreadable("none")
        /\ stream' = [v \in Worker |-> IF stream[v] = "state" THEN "lost" ELSE stream[v]]
        /\ UNCHANGED <<temp, tables, sessions, challenges>>
     \/ /\ temp' = Unreadable("none")
        /\ stream' = [v \in Worker |-> IF stream[v] = "temp" THEN "lost" ELSE stream[v]]
        /\ UNCHANGED <<state, tables, sessions, challenges>>
     \/ /\ tables' = FALSE /\ sessions' = {}
        /\ challenges' = [c \in Challenge |-> NoRow]
        /\ UNCHANGED files
  /\ UNCHANGED <<pc, job, copy, lock, maintenance, issued, failures, changes, ghosts>>

\* The daemon answers: web/ is gone, or it failed somewhere on the way.  The
\* tables are not made again: only the start of the process does that.
ResetDevice(w) ==
  /\ pc[w] = "reset"
  /\ \/ /\ state.kind = "none" /\ temp.kind = "none" /\ ~ tables
        /\ failures' = [password |-> 0, ukey |-> 0]
     \/ UNCHANGED failures
  /\ maintenance' = Nobody
  /\ Return(w)
  /\ UNCHANGED <<files, lock, database, changes, ghosts>>

\* The process is killed and started again; initialize_storage runs.
Restart ==
  /\ changes < MaxChanges
  /\ changes' = changes + 1
  /\ stream' = [w \in Worker |-> "none"]
  /\ pc' = [w \in Worker |-> "idle"]
  /\ job' = [w \in Worker |-> NoJob]
  /\ copy' = [w \in Worker |-> NoUsers]
  /\ lock' = Nobody /\ maintenance' = Nobody
  /\ tables' = TRUE
  /\ failures' = [password |-> 0, ukey |-> 0]
  /\ UNCHANGED <<state, temp, sessions, challenges, issued, ghosts>>

Write(w) ==
  \/ OpenTemp(w) \/ FlushHead(w) \/ Flush(w) \/ Replace(w) \/ WriteFails(w) \/ PurgeRows(w)

Administer(w) ==
  \/ Authorise(w) \/ Initialize(w) \/ CreateAdministrator(w) \/ UpdateAdministrator(w)
  \/ DeleteAdministrator(w) \/ ConfigureUKey(w) \/ StoreUKey(w) \/ RemoveUKey(w)
  \/ UpdateDevice(w) \/ GiveUp(w)

LogIn(w) ==
  \/ LoginBegin(w) \/ LoginDenied(w) \/ LoginGranted(w)
  \/ ChallengeBegin(w) \/ InsertChallenge(w)
  \/ VerifyBegin(w) \/ VerifyDenied(w) \/ ClaimChallenge(w)

Next ==
  \/ \E w \in Worker :
       \/ Administer(w) \/ Write(w) \/ LogIn(w)
       \/ ResetBegin(w) \/ ResetRemove(w) \/ ResetDevice(w)
  \/ EndSession \/ ForgetFailures \/ ExpireChallenge \/ Restart

Spec == Init /\ [][Next]_vars

-----------------------------------------------------------------------------
(* Properties *)

\* Handlers that change accounts at the same time overwrite each other's
\* changes, and still an account file that can be read has an enabled super
\* administrator: no update or delete made from a stale copy removes the last
\* one.  Only two handlers that write into the temporary file at once can,
\* when pieces of both their texts make one that can be read.
SuperAdminRemains == shared \/ (Loads => HasSuper(state.users))

\* A UKey challenge admits one session at most, also when two requests answer
\* it at once or it is answered again later.
ChallengeOnce == \A c \in Challenge : admitted[c] <= 1

\* The limit on failed logins is tested in one critical section and the
\* failure counted in another: workers that passed the test together may pass
\* the limit, each of them once.
LoginsAreLimited ==
  failures.password <= FailureLimit - 1 + Cardinality({w \in Worker : pc[w] # "denied"})

\* As long as no two changes overlapped, a kill or a full disk at any point of
\* atomic_json_write leaves the old accounts or the new ones.
UnreadableOnlyByOverlap == overlap \/ state.kind \in {"none", "json"}

\* As long as no two changes overlapped, no account asks for a UKey that is not
\* there: one that did could not log in at all.
LockedOutOnlyByOverlap ==
  overlap \/ \A u \in Account : (Loads /\ User(u).both) => User(u).ukey

\* As long as no two changes overlapped, the account file that a handler puts in
\* place differs from the one it replaces in the account of the request only:
\* no change made by another is lost and no deleted account comes back.
LostUpdateOnlyByOverlap ==
  [][Loads /\ Loads' /\ ~ overlap' =>
       \A u \in Account :
         \/ User(u)' = User(u)
         \/ \E w \in Worker : pc[w] = "flushed" /\ job[w].user = u]_vars

\* README.md: the volume keeps the administrators' accounts.  A state.json that
\* exists can be read.
AccountsReadable == state.kind \in {"none", "json"}

\* maintenance.js: after a reset the device is to be initialised again.  When
\* initialize has put the first account in place, an administrator can log in:
\* the tables that it goes on to clear, and that hold his session, are there.
InitialisedCanLogin ==
  \A w \in Worker : (pc[w] = "written" /\ job[w].purge = "all") => tables
=============================================================================
