# Verification of the CryptoKit soft HSM

TLA+ models of the concurrent and persistent core of the soft HSM: of its daemon
`sdfxd` the session registry, the path of a connection through accept thread and
thread pool, the store of asymmetric keys, the right to use a private key, and
backup / restore / factory reset; of its web backend the accounts, logins and
the account file. TLC checks them on small instances; TLAPS proves the safety
properties that TLC confirms, and that session registry and connection handling
implement their abstract specifications, for any number of threads, sessions, keys, accounts and
crashes.

All source paths below are relative to `src/sdfx/sdfxd/src/` unless they start
with `src/`; `main.py` is `src/web/backend/app/main.py`.

## 1. The system

`sdfxd` listens on TCP or a Unix socket. An accept thread hands each connection
to a pool of worker threads; a worker serves one connection until it ends.
Requests name a session by a 32-bit id and may come over any connection, so all
state behind a session is shared by the workers. Persistent state is a tree of
files below one storage root. The web backend, one process with a pool of
handler threads, keeps its accounts and its database in the directory `web/` of
that tree and talks to the daemon with administrative commands.

| Component | State | Operations | Hard behaviour |
|---|---|---|---|
| Session registry (`session_manager.c`) | linked list, id counter, reference counts, two kinds of mutex | create, validate, get, put, close, cleanup | last put against close; stale validation; id wrap-around |
| Session objects (`object_manager.c`) | keys and permissions of a session; user files | create, destroy, clean up keys; MAC; wrapped keys; files | keys must die with the session and not before its last user |
| Thread pool (`thread_pool.c`) | queue, condition variable, shutdown flag | submit, worker loop, destroy | lost wake-ups, shutdown races |
| Daemon core (`daemon_core.c`, `main.c`) | running flag, threads | accept loop, request loop, stop | ownership of a descriptor on failure paths; order of clean-up |
| Transport (`src/sdfx/transport`) | sockets | accept, receive, send, close | partial and bad messages |
| Protocol handler (`protocol_handler.c`) | none of its own | ~60 commands, request validation | length arithmetic |
| SM2 and RSA keys (`internal_key_manager.c`, `internal_key_admin.inc`, `rsa_key_manager.c`) | record file and `.disabled` marker per key, one mutex per family; secrets cached in sessions | create, delete, enable, reindex, change password, get and release access, load | several files per operation; kills; reads without a mutex; stale permissions |
| KEKs (`kek_admin.inc`) | one record per key | create, delete, enable, verify, load | shares `g_storage_mutex` with maintenance |
| Maintenance (`backup_admin.inc`) | archives, staging directories | backup, restore, delete, reset | item-by-item replacement, kills, sessions opened meanwhile |
| Admin protocol (`admin_*.inc`) | admin token, device information | dispatch | – |
| Streams and agreement (`crypto_hash.c`, `crypto_extended.c`, `crypto_agreement.c`) | contexts hanging off a session | init / update / final | contexts shared by connections |
| Client SDK (`src/sdfx/sdk`) | handle table, one connection | SDF API | reconnects |
| Web management (`main.py`, `ukey_auth.py`) | `state.json`, `manager.db`, failure counters, maintenance flag | initialise, log in, challenge and answer, change accounts and UKeys, reset | load–change–write of whole files; a shared temporary file; replay; lock-out |
| Audit database, configuration, UKey agent, openHiTLS | – | – | I/O, or vendored |

What makes the parts correct: a session is never used after it is freed, freed
exactly once and in the end, and its count is exact; a connection has one owner,
is served when a worker is free, and stopping ends every thread; a key is never
lost except by deletion, a disabled key is not used, and a key with a password
is used only by sessions that have shown it; an archive is a snapshot of the
device, and erased key material stays erased; the accounts stay readable, somebody can
always administer them, and a challenge admits once.

## 2. Modules

Proofs live in modules of their own; `MC*` modules add only symmetry sets and
one state constraint. Operators whose names have a suffix
(`GetSession_NoReference`, `Signal_Lost`, ...) are plausible mistakes in the
operator they stand next to. They are not part of any specification;
substituting one shows that a property really depends on that piece of code.

### SessionManager, SessionService, SessionManagerProofs, SessionServiceProofs

`SessionManager` has the fields of `session_info_t` as functions of a heap cell,
the list `ctx->sessions` as a sequence, `sessions_mutex`, and each thread's
local variables. `create`, `validate` and `get` are one critical section each
and one action each. `put_session` takes only the session's `ref_mutex`, and
decides after releasing it whether to free: two actions (`PutSession`,
`PutFree`). `close_session` holds `sessions_mutex` throughout but releases
`ref_mutex` after its first half, so it is two actions as well (`CloseSession`,
`CloseFinish`), and puts interleave with it. If a put frees the cell in
between, `current->next` is read from freed memory: `Unlink` then either gets
the old value or NULL, which drops the rest of the list, and the ghost `torn`
records it. Memory is not reused after `free`; a cell stands for one allocation.
Ids are counted modulo `IdModulus`.

`SessionService` is the promise to the callers: a handle opens once, closes
once, is entered only while open, and is destroyed with its keys after the last
user left. It has no list, count or lock. A handle of the service is a session
id: `stateBar`, `usingBar` and `keysBar` say what has become of it, read off the
cells. `ImplementsService` is the refinement; it holds as long as ids do not
wrap (`NotWrapped`), because afterwards one id stands for two sessions.

### DaemonCore, ConnectionService, DaemonCoreProofs, DaemonServiceProofs

Accept thread (`AcceptLoop` .. `Push`), workers (`TakeMutex` .. `CloseClient`),
main thread (`JoinAccept` .. `FinishDestroy`), signal handler and clients. The
queue mutex and `pool_mutex` are separate, as in the code; `pthread_cond_wait`
is split into the test (`Check`), the atomic release-and-wait (`Sleep`) and the
return (`TakeMutex` from "woken"), with spurious wake-ups. A request is one step.
The test of `shutdown` in `thread_pool_submit` can never be true in this
daemon, because the accept thread is joined before the flag is set;
`NoSubmitToDyingPool` says so.

`ConnectionService` is the promise to the clients, without threads and locks:
accepted connections stand in one line, are served in the order in which they
were accepted and no more at a time than there are places, only the newest in
the line may be turned away, each request is answered at most once and while
its connection is served, and the service ends when nobody is served. The line is the
queue followed by the connection in the hands of the accept thread. The service
states safety only; that queued connections are served is `QueuedIsServed`.

### KeyStore, KeyStoreProofs

One record file per (family, type, index) and a set of markers. Commands are
split where they take the mutex and between the file operations they make inside
it; a crash may fall between any two. Writing a record is one step because the
code writes a temporary file and renames it. The two families share the actions
and differ in the tests they make before the mutex: SM2 create looks for its own
record first, RSA reindex asks whether SM2 uses the new index and SM2 reindex
does not ask about RSA. `ReadRecord`/`CheckDisabled` are the reads of the
cryptographic operations, under no mutex. `off`, `barred` and `overlap` are
ghosts: what the administrator asked for last, whether the key of a
read was off throughout, and whether two commands have overlapped or one was killed.
`unlink` on the clean-up paths of reindex is taken to succeed, as the code
ignores its result; writing, opening and generating may fail.

### KeyAccess, KeyAccessProofs

The other half of the key store: what a record holds and who gets at the private
key in it. Here a record has its public key, salt, verifier and ciphertext, and
a secret is the pair of what it was derived from (a password, or the place of a
key without password) and the salt. `Decrypt` with a wrong secret gives
`Garbage` and no error, as SM4 in CTR mode does. `CreateRecord`,
`ChangePassword`, `ReindexCopy`/`ReindexUnlink` and `DeleteRecord` run under the
family's mutex; `internal_key_get_access` is three steps, one per key it
verifies and one that stores (`AccessSign`, `AccessEnc`, `AccessStore`), and an
operation reads the record and takes the session's secret in two (`LoadRead`,
`LoadSecret`). Several threads may use one session. The ghost `proved` holds
which session has shown which password for which place and not given the right
back; `seen` in a permission is the record it was verified against.

### Maintenance, MaintenanceProofs

The five items below the storage root, the archives, the staging directories,
and the three operations item by item under `g_storage_mutex`. Contents are
numbers (the device key; the installation an item belongs to). `tar`'s format is
abstracted to which items an archive holds: `run_archive_tool` packs four items
and fails if one is missing, `validate_backup_archive` asks for accounts and
device information. `EnsureDeviceKey` may run at any time, as any verification of a
record does. A `request` of the web backend goes through its own steps beside
the commands: `InitialiseBegin`, `IntegrityInit`, `ConfigureDevice` and
`WriteAccounts` set up a device without accounts, `ChangeBegin` is a handler that
changes an initialised one. The middleware asks for maintenance only when a
request arrives, and device information and accounts are written without
`g_storage_mutex`; so a request that came before a command writes while the
command runs, and the ghost `crossed` holds what it wrote. A directory that a
request made again is in the way of a restore's rename. Restore ends by removing
the staging directory, which may fail unnoticed; the name of the archive is then
taken for good, as after a kill. An item that was removed only in part counts as
still there.

### WebManager, WebManagerProofs

Handlers of the web backend, which FastAPI runs in threads of one process.
`state.json` is loaded, changed and written back as a whole; the write is split
as in `atomic_json_write` into opening the temporary file (`OpenTemp`, which
truncates it), writing it (`FlushHead`, `Flush`) and the rename (`Replace`), each
of which may fail or be the last before a kill. `json.dump` writes through a
buffer of some 8 KiB, so that a larger text reaches the file in several writes;
two pieces stand for them, with the accounts in `Front` in the first and the
others in the second. The temporary file is one variable because its name holds
only the process id. What two streams make of it is `HeadWritten` and
`TailWritten`: one text, pieces that do not fit together, or pieces of both texts
that can be read all the same. The boundary between the pieces lies between two
accounts; where it cuts through one, the two halves of a record mix in the same
way, which is not modelled. A stream follows its file when it is renamed or
unlinked (`WriteTo`). Only the UKey handlers take `state_lock`. Tables of
`manager.db` change one statement at a time. The middleware's refusal during
maintenance is tested when a request arrives, not afterwards. A reset removes
the files of `web/` one by one (`ResetRemove`), in whatever order the directory
gives, and may fail between them. Passwords and signatures are right or wrong;
of the roles only `super_admin` is told apart. The ghosts are `overlap` (two
handlers were changing accounts at once), `shared` (two had the temporary file
open at once) and `admitted` (sessions created from each challenge).

## 3. Runs

| Run | Instance | Shows |
|---|---|---|
| `sessions` | 3 threads, 2 sessions, ids mod 3, 1 key each | `HeldSessionIsLive`, `RefCountExact`, `FreedOnce`, `RegistryIsLive`, `CountIsOpenSessions`, `KeyHandlesDistinct`, `ClosedIsReclaimed`, refinement of `SessionService` |
| `sessions_unlink` | 2 threads, 2 sessions | **violated**: `UnlinkReadsLiveSession` |
| `daemon` | 2 workers, 2 connections, 1 request each | `SleepersNotNeeded`, `OneOwner`, `NoSubmitToDyingPool`, `QueuedIsServed`, `RequestIsHandled`, refinement of `ConnectionService` |
| `daemon_destroy` | 2 workers, 2 connections | **violated**: `NoSleeperAtJoin` |
| `keys` | 2 administrators, 1 user, 2 indexes, 2 keys, 1 crash | `OneRecordAtRest`, `MoveKeepsBoth`, `OnlyDeleteRemoves`, `MarkerTellsState`, `SharedOnlyByMove`, `DisabledOnlyIfMoved` |
| `keys_disabled` | 1 administrator, 1 user, 1 key | **violated**: `DisabledIsRefused` |
| `key_access` | 2 threads, 1 session, 2 indexes, 1 password, 2 salts | `RecordOpens`, `WrongKeyOnlyIfStale`, `KeyIsEarned` |
| `maintenance_safety` | 2 commands at a time, 1 archive id, 3 numbers, 1 session, 1 request, 1 crash | `ArchiveIsSnapshot`, `ErasedStaysErased`, `OnlyDeleteRemovesBackups`, `RestoreIsFaithful` |
| `maintenance_devicekey` | 1 command, no crash | **violated**: `OnlyResetRemovesDeviceKey` |
| `web_safety` | 2 handlers, 2 accounts, one in each piece, 1 challenge, 4 changes, resets or kills | `SuperAdminRemains`, `ChallengeOnce`, `LoginsAreLimited`, `UnreadableOnlyByOverlap`, `LockedOutOnlyByOverlap`, `LostUpdateOnlyByOverlap` |
| `web_file` | 2 handlers, 2 accounts, 3 changes | **violated**: `AccountsReadable` |
| `web_reset` | 1 handler, 1 account | **violated**: `InitialisedCanLogin` |

Bounds. Three threads are what a use after free needs at most: one that closes,
one that puts, one that still holds. Two sessions of three ids do not wrap: that
the safety of the registry survives repeated ids is shown by the theorems, which
are for every `IdModulus`. `LowestFirst` keeps one of the orders in which equal
cells can be allocated; no symmetry set is used in that run or in `daemon`,
because both check liveness. Two workers and two connections let a connection be
queued while one worker is busy and the other asleep or about to sleep, and be
taken by a worker that was not signalled. A third connection behind two busy
workers is out of reach of the liveness checks; safety for it is proved. Two indexes and two keys suffice for a move onto an
index that another command wants; one crash reaches every intermediate state as
a resting state. In `key_access` the signature and the encryption key of two
indexes and two salts allow a permission to outlive a change of password, a move
and a new key. One archive id is enough because archives do not interact; three
numbers allow backup, reset, a new device key, re-initialisation and restore of
the old archive in one behaviour, with the last number shared by everything that
is made after it. One request is enough to cross a command. In `web_safety` four changes allow
initialisation, a second account, and two that overlap; resets and kills are
counted with them, so that a kill falls into every state that three changes
reach. The two accounts are not interchangeable there, because they are in
different pieces; the handlers are. `FailureLimit` is 1 so that two handlers can
pass it together.

Deadlock checking is off for `DaemonCore`, because the daemon stops after a
signal, and for `WebManager`, where a `state.json` that is not JSON answers every
request with an error until somebody repairs it.

Fairness. In `SessionManager` the second halves of close and put, and the put
after a get, are weakly fair: every handler returns. Nothing is assumed about
which requests arrive. In `DaemonCore` workers, the main thread and the
non-blocking steps of the accept thread are weakly fair, and taking a contended
mutex is strongly fair, as a thread that keeps finding it free gets it; clients
owe nothing. The other modules state only safety.

### What the violated properties say

* **A close can read freed memory.** `session_manager.c:145-159`: `ref_mutex` is
  released before the session is unlinked; a `put_session` in between sees count
  0 and `active == false` and frees the cell whose `next` is read afterwards.
  The comment at line 261 calls the protocol thread-safe. The consequences stay
  local in the model: no thread that holds a session is affected, nothing is
  freed twice, and the session counter stays exact.
* **Stopping can hang.** `thread_pool.c:271-281`: the flag is set and the
  condition broadcast without the queue mutex, so a worker that has tested the
  flag and is about to wait sleeps through the only broadcast, and the join never
  returns, against the comment at line 275.
* **A disabled key is usable while it is moved.** `internal_key_admin.inc:276-286`
  writes the new record before its marker, and readers take no mutex;
  `src/api-matrix.md:17` says disabled keys are refused. `DisabledOnlyIfMoved` shows
  how far this goes while commands do not overlap: an operation gets a disabled
  key in that window, or if the key was moved or deleted, marker and all, between
  its reading the record and its looking for the marker; otherwise never.
* **Restore removes the device key.** `backup_admin.inc:390` includes `master`,
  which no archive contains (line 62): every restore removes the live directory,
  fails, and leaves all records unverifiable. `src/WEB-MANAGEMENT.md:22` says only
  a factory reset deletes it. `DeviceInfoNeverRestored` proves the other half: no
  restore of any archive gets past that item.
* **Overlapping changes can destroy the accounts.** All handlers write the same
  temporary file (`main.py:446`): one truncates it after another has written it,
  and the rename of the first publishes an empty or half-written file. Every
  request that loads it fails, against `src/README.md:128`, where the volume keeps
  the accounts. In the shortest trace the second handler then writes its text into
  the renamed file and repairs it; the damage stays if that handler is killed or
  its disk full, or if the pieces of the two texts do not fit together.
  `UnreadableOnlyByOverlap` shows that in this model only overlapping changes do
  this, among them the write of `update_device`, which changes no account.
  If the pieces do fit, the file can be read and is a mixture: with two handlers
  that each demote another super administrator it has none left. That is the
  exception in `SuperAdminRemains`; without two open streams it cannot happen.
* **Nobody can log in after a reset.** The daemon's reset deletes `manager.db`,
  and its tables are made only when the backend starts (`main.py:703`);
  `src/web/backend/static/maintenance.js:172` asks the user to initialise the
  device again, which fails until a restart.

More things the models contain without a run of their own. A request of the web
backend that arrived before a maintenance command writes accounts and device
information while it runs: an archive may hold the device information of one
moment and the accounts of another, and after a reset the old accounts may be
back. And an archive is a snapshot, not one installation: a restore after a reset
fails at `master` and leaves old keys next to new device information, which the
next backup archives. `src/README.md:261`
says that maintenance requires that no session is active; the test
(`backup_admin.inc:23`) is made once, before the mutex, and a session can be
opened right after it. A permission outlives a change of password: the
operation then succeeds with a wrong key, the exception in
`WrongKeyOnlyIfStale`.

## 4. Proofs

Each proof module has one lemma per action (or per group of actions that disturb
the same parts) and a lemma that combines them. The constants are arbitrary but
for the named assumptions next to their declarations: sets of threads are finite
where a cardinality counts them, "nobody" values are not threads, bounds are
naturals.

**SessionManagerProofs**: `TypeCorrect`, `HeldSessionNeverFreed`,
`ReferenceCountExact`, `SessionFreedOnce`, `RegistryStaysLive`,
`OpenSessionsCounted`. None of the properties is inductive alone. `IndInv` adds
`PointersOK` (a thread points at a cell exactly where the code dereferences one,
and `sessions_mutex` is held between the halves of a close), `ListOK` (the list
holds each session once and, besides open sessions, only the one being closed,
so `get` cannot revive a closed session: it takes the mutex, which the closer
holds until the session is unlinked) and `ZeroIsFinal` (a thread that saw the
count reach zero finds the cell allocated, its count still zero, and nobody else
in that position). The count of holders is a cardinality; `CountMeaning` turns a
count of zero into "no holder and closed". `CountInv` relates the session
counter to the open sessions also while a close is under way, when it is one
ahead.

**SessionServiceProofs**: `RegistryImplementsService`, `KeyHandlesUnique`,
`FewSessionsImplementService`. `IdInv` says that ids are handed out in the order
of the allocations, from 1 on: while the `n` cells ever allocated are fewer than
`IdModulus` their ids lie in `1 .. n`, the next one gets 0, and up to there no two
cells have the same id. So an id can be read as a handle of the service, and two
keys with one handle would be the same key of the same session. `BarsOK` and `BarValues` state the refinement mapping cell by
cell: a handle is unused, open, closed or gone as its one cell is. Then each
action maps to one step: `CreateSession` to `Open`, a successful `GetSession` to
`Enter`, the key operations to `ChangeKeys`, `PutSession` to `Leave`,
`CloseSession` to `Close`, and a second half to `Destroy` if it frees and to
nothing if not; `NoUsersAtZero` supplies the guard of `Destroy` from the
reference count. `RegistryImplementsService` has the condition `NotWrapped` in
the step; `FewSessionsImplementService` has none, for a heap of no more
allocations than there are ids (2^32 in the program).

**DaemonCoreProofs**: `TypeCorrect`, `NoLostWakeup`, `ConnectionHasOneOwner`,
`PoolTakesNoMore`. `BaseInv` says who holds the queue
mutex, how many requests were handled and how far stopping has got. `SleepInv`
adds to `SleepersNotNeeded` that a worker about to wait found the queue empty
and still holds the mutex: a push must come before the test or after the wait.
`OwnInv` says that owners are pairwise distinct and that exactly the open
connections have one; the cardinality in `OneOwner` follows.

**DaemonServiceProofs**: `DaemonImplementsService`. `Accept` is `Arrive`, the
three ways to give up a connection are `TurnAway`, taking a task is `ServeNext`,
a request is `Answer`, the end of the handler is `Finish`, the end of
`thread_pool_destroy` is `End`; a push changes nothing of the line, only who
holds its end. `OwnInv` gives the guards: an accepted connection was nowhere
before, the one a worker closes is nobody else's. `PlaceFree` gets from an idle
worker that a place is free.

**KeyStoreProofs**: `TypeCorrect`, `MoveIsSafe`, `KeysAreNeverLost`,
`OneRecordPerKey`, `MarkersAreTrue`, `IndexesStayApart`,
`DisabledKeysAreRefused`. `IndInv` is the type
invariant, `JobOK` (reindex works on two different places of one family),
`MutexProtects` (the mutex is held between the halves of delete and reindex) and
`MoveKeepsBoth`. `FreshOK` (new keys get new numbers) and `PairsOK` (two records
of one key are the ends of a move in progress) give `OneRecordAtRest`. `SoloOK`
is about commands that do not overlap: marker and state of each place agree
unless the one command under way is about to make them agree, and what it tested
before the mutex still holds. `ReadOK` adds that a key barred for a reader is still off:
then a missing marker at a record that is still there can only be the one that
a reindex is about to write.

**KeyAccessProofs**: `TypeCorrect`, `RecordsAlwaysOpen`, `WrongKeyIsStale`,
`KeysAreEarned`. The invariant says of each record that it opens with the secret
its verifier and place ask for, of each permission, stored or still in a local
variable of `get_access`, that it opens the record it was verified against and
that its session has shown the password, and of each operation what it has read.

**MaintenanceProofs**: `TypeCorrect`, `ArchivesAreWhole`, `ErasedForGood`,
`ArchivesSurvive`, `RestoresAreFaithful`, `DeviceInfoNeverRestored`. The parts of `IndInv`: `CritOK` (who is inside an operation
holds `g_storage_mutex`), `MasterOK` (no archive and no staging directory holds a
device key, and new keys get new numbers), `TakenOK` (what tar has read so far is
what still stands on the device, except what a request wrote, and that is
accounts and device information) and `NameOK` (an archive under construction has
its name to itself). `RestoreInv` is about the one command inside a restore
(`OneRestore`): it is not past the device key, the fourth item, whose rename fails
because no archive and so no staging directory holds it; the items it is past are
on the device as they are in the archive, unless `crossed`, and the others in the
staging directory. The restriction to four items is what makes the rest
inductive: `EnsureDeviceKey` may write the fourth at any time, a request notes
what it writes in `crossed`, and nothing else changes an item while a restore is
in progress. `ArchivesSurvive` rests on `NameOK`, and so on the ids of backups
being drawn at random.

**WebManagerProofs**: `TypeCorrect`, `SuperAdminStays`, `LoginLimit`,
`ChallengeUsedOnce`, `WriteIsAtomic`, `NobodyLockedOut`, `NoUpdateLost`. `SuperInv`
says, as long as no two streams were open on the temporary file (`shared`), that
a file has at most one stream and, half written, holds the first piece of that
handler's own copy (`StreamsOK`), that every file that can be read has a super
administrator (`FilesOK`), and that every copy being written has one
(`CopiesOK`): a handler's copy had one when it was loaded and its own test keeps
one, so even a lost update leaves one. The limit on logins needs a count of the handlers that
have passed the test. `OnceInv` follows a challenge from its row to the one
handler that claimed it. `SerialInv` describes the single writer that there is
as long as nothing overlapped; `CopyInv` adds that the copy the writer is about
to publish is the file on disk except for the account of its request.

Only model-checked: liveness (`ClosedIsReclaimed`, `QueuedIsServed`,
`RequestIsHandled`) and with it the fairness of `SessionService`, which
`ImplementsService` includes, because the prover does not handle fairness.

## 5. Not modelled

Nearly all lines of the repository are the vendored openHiTLS library, with its
own TLS stack, certificate handling and arithmetic: none of it is the program's
own logic, and its arithmetic is out of a model checker's reach. So only a small
share of all lines is modelled: of the daemon the registry, the pool, the
asymmetric keys and maintenance, of the web backend accounts and logins.

Left out of the rest: the formats of messages, records and archives; logging and
the audit database; start-up and its error paths; the Windows and Unix variants
of the transport; the UKey agent and the client SDK, which run on other machines;
KEK records, which have one mutex around every operation and replace a record by
rename; records written before format 2 and their migration; key agreement; and
the hash and cipher streams, where any use from two connections is a data race
on the context, about which nothing weaker is promised. Of the web backend the
certificate checks and the pages for keys, logs and configuration are left out,
and three things that touch what is modelled:

* `upload_backup` (`main.py:2403-2428`) publishes an archive under an id and with
  a content that the caller chooses, and tests long before the rename that the id
  is free. `OnlyDeleteRemovesBackups` and the guard of `BackupBegin` are about
  archives that the daemon makes, under ids drawn at random. `ErasedStaysErased`
  and `DeviceInfoNeverRestored` do not depend on this: `validate_backup_archive`
  refuses an archive with a device key.
* A restore replaces `state.json` and `manager.db` under the web backend
  (`restore_backup`, `main.py:2464-2490`) and then makes missing tables. It is an
  action of `Maintenance`, where `web` is one item, and not of `WebManager`, whose
  properties are about accounts that only handlers and resets change.
* `load_state` converts files of earlier versions and writes them back
  (`main.py:461-483`), in whichever handler loads them first; such a write would
  count as a change in `UnreadableOnlyByOverlap` and `LostUpdateOnlyByOverlap`.
  Files of earlier versions do not occur in `WebManager`; neither does a file
  that is JSON but not an object, which `load_state` takes for no file at all.

## 6. What is left

1. The legacy records that `read_record_raw` rewrites without the mutex, and the
   temporary file of a record write that a killed process leaves behind.
2. Key agreement: the context read after `object_mutex` is released, and the two
   halves of the static key read one after the other.
3. `session_manager_cleanup` while workers still run, composing `DaemonCore` with
   `SessionManager`; sessions of clients that disconnect without closing them.
4. `validate_variable_request` as an operator with a reference definition.
5. Proofs: an abstract store of keys that `KeyStore` implements while commands do
   not overlap, with a move as one step.
