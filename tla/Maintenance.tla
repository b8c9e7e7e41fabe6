----------------------------- MODULE Maintenance -----------------------------
(***************************************************************************)
(* Backup, restore and factory reset of the device (backup_admin.inc), as  *)
(* the administrative commands run them next to the traffic of the daemon. *)
(*                                                                         *)
(* The device's state is five items below the storage root.  Four of them  *)
(* go into an archive; the fifth, "master", holds the device integrity key *)
(* under which every record in "keys" is sealed.  All three operations ask *)
(* once whether a session is open and then work item by item under         *)
(* g_storage_mutex.  The process may be killed anywhere in between.        *)
(* Requests of the web backend that were under way before a command came   *)
(* write accounts and device information without that mutex.               *)
(*                                                                         *)
(* The content of an item is a number: for "master" the device key, for    *)
(* the others the installation they belong to, which begins with the empty *)
(* directories a reset leaves behind.  What key management, sessions and   *)
(* account changes write into an item later does not change its number,    *)
(* and an item that was removed only in part keeps it.                     *)
(***************************************************************************)
EXTENDS Integers, Sequences

CONSTANTS
  Admin,        \* threads that run maintenance commands
  Archive,      \* backup ids
  NoOne,        \* the mutex is free
  MaxStamp,     \* bound: device keys and installations numbered
  MaxSessions,  \* bound: sessions open at once
  MaxRequests,  \* bound: requests of the web backend that write items
  MaxCrashes    \* bound: times the process is killed

ASSUME MaintenanceAssumption ==
  /\ NoOne \notin Admin
  /\ Archive # {}
  /\ MaxStamp \in Nat \ {0}
  /\ MaxSessions \in Nat
  /\ MaxRequests \in Nat
  /\ MaxCrashes \in Nat

\* The order in which restore and reset take the items.
items == <<"keys", "files", "web", "master", "device-info.bin">>
Item == {items[i] : i \in 1 .. Len(items)}

\* What run_archive_tool puts into an archive, in tar's order.
archived_WithMaster == items

archived == <<"keys", "files", "web", "device-info.bin">>

Absent == 0
Nothing == [i \in Item |-> Absent]

VARIABLES
  live,         \* the items below the storage root
  backups,      \* the archives under their final names; Nothing if missing
  staging,      \* the directories .restore-<id>
  staged,       \* which of them exist
  mutex,        \* who holds g_storage_mutex
  pc, op, id,   \* where each thread is, in which command, on which archive
  step,         \* the index of the item each thread is at
  taken,        \* what each thread has put into its archive
  sessions,     \* active_sessions_count
  request,      \* where a request of the web backend is that writes items
  chosen,       \* the installation it writes for
  stamp, requests, crashes,
  erased,       \* ghost: device keys that a reset removed
  crossed       \* ghost: items a request wrote since the mutex was taken

disk == <<live, backups, staging, staged>>
local == <<pc, op, id, step, taken>>
web == <<request, chosen, requests>>
vars == <<disk, mutex, local, sessions, web, stamp, crashes, erased, crossed>>

Content == 0 .. MaxStamp
Op == {"none", "backup", "restore", "reset"}
PC == {"idle", "wait", "item", "rename", "publish", "cleanup"}
Request == {"idle", "integrity", "device", "accounts"}

TypeOK ==
  /\ live \in [Item -> Content]
  /\ backups \in [Archive -> [Item -> Content]]
  /\ staging \in [Archive -> [Item -> Content]]
  /\ staged \in SUBSET Archive
  /\ mutex \in Admin \cup {NoOne}
  /\ pc \in [Admin -> PC]
  /\ op \in [Admin -> Op]
  /\ id \in [Admin -> Archive]
  /\ step \in [Admin -> 1 .. Len(items) + 1]
  /\ taken \in [Admin -> [Item -> Content]]
  /\ sessions \in 0 .. MaxSessions
  /\ request \in Request
  /\ chosen \in Content
  /\ stamp \in Content
  /\ requests \in 0 .. MaxRequests
  /\ crashes \in 0 .. MaxCrashes
  /\ erased \in SUBSET Content
  /\ crossed \in SUBSET Item

\* A device that was initialised and never maintained.
Init ==
  /\ live = [i \in Item |-> 1]
  /\ backups = [b \in Archive |-> Nothing]
  /\ staging = [b \in Archive |-> Nothing]
  /\ staged = {}
  /\ mutex = NoOne
  /\ pc = [a \in Admin |-> "idle"]
  /\ op = [a \in Admin |-> "none"]
  /\ id \in [Admin -> {CHOOSE b \in Archive : TRUE}]
  /\ step = [a \in Admin |-> 1]
  /\ taken = [a \in Admin |-> Nothing]
  /\ sessions = 0
  /\ request = "idle"
  /\ chosen = Absent
  /\ stamp = 1
  /\ requests = 0
  /\ crashes = 0
  /\ erased = {}
  /\ crossed = {}

-----------------------------------------------------------------------------
(* The rest of the device *)

\* The number of the next installation (the last one stands for all later).
NewStamp == IF stamp < MaxStamp THEN stamp + 1 ELSE stamp

OpenSession ==
  /\ sessions < MaxSessions
  /\ sessions' = sessions + 1
  /\ UNCHANGED <<disk, mutex, local, web, stamp, crashes, erased, crossed>>

CloseSession_Unguarded ==
  /\ sessions' = sessions - 1
  /\ UNCHANGED <<disk, mutex, local, web, stamp, crashes, erased, crossed>>

CloseSession ==
  /\ sessions > 0
  /\ sessions' = sessions - 1
  /\ UNCHANGED <<disk, mutex, local, web, stamp, crashes, erased, crossed>>

\* ensure_device_key, called by whatever protects or verifies a record: a
\* device without a key gets a new one.  It takes no mutex.
EnsureDeviceKey ==
  /\ live["master"] = Absent
  /\ stamp < MaxStamp
  /\ stamp' = stamp + 1
  /\ live' = [live EXCEPT !["master"] = stamp + 1]
  /\ UNCHANGED <<backups, staging, staged, mutex, local, sessions, web, crashes,
                 erased, crossed>>

-----------------------------------------------------------------------------
(* Requests of the web backend, one at a time *)

\* The middleware turns requests away while a maintenance command runs.  It
\* asks when the request arrives, and nobody asks again.
NotInMaintenance == \A a \in Admin : pc[a] = "idle"

\* A request arrives.
Arrive ==
  /\ request = "idle"
  /\ requests < MaxRequests
  /\ requests' = requests + 1
  /\ NotInMaintenance

\* initialize: there are no accounts yet.
InitialiseBegin ==
  /\ Arrive
  /\ live["web"] = Absent
  /\ request' = "integrity"
  /\ UNCHANGED <<disk, mutex, local, sessions, chosen, stamp, crashes, erased, crossed>>

\* CMD_ADMIN_INTEGRITY_INIT returns: there is a device key (EnsureDeviceKey).
IntegrityInit ==
  /\ request = "integrity"
  /\ live["master"] # Absent
  /\ stamp' = NewStamp
  /\ chosen' = NewStamp
  /\ request' = "device"
  /\ UNCHANGED <<disk, mutex, local, sessions, requests, crashes, erased, crossed>>

\* The handlers that change an initialised device: update_device writes device
\* information and accounts, the others accounts only.
ChangeBegin ==
  /\ Arrive
  /\ live["web"] # Absent
  /\ chosen' = live["web"]
  /\ request' \in {"device", "accounts"}
  /\ UNCHANGED <<disk, mutex, local, sessions, stamp, crashes, erased, crossed>>

\* A request writes an item, whoever has g_storage_mutex.
Writes(i) ==
  /\ live' = [live EXCEPT ![i] = chosen]
  /\ crossed' = IF mutex = NoOne THEN crossed ELSE crossed \cup {i}
  /\ UNCHANGED <<backups, staging, staged, mutex, local, sessions, stamp, crashes, erased>>

\* admin_device_info_update, under a mutex of its own.
ConfigureDevice ==
  /\ request = "device"
  /\ Writes("device-info.bin")
  /\ request' = "accounts"
  /\ UNCHANGED <<chosen, requests>>

\* atomic_json_write, which makes the directory if it has to.
WriteAccounts ==
  /\ request = "accounts"
  /\ Writes("web")
  /\ request' = "idle"
  /\ chosen' = Absent
  /\ UNCHANGED requests

\* The daemon or the disk reports an error, or the backend is killed.
RequestFails ==
  /\ request # "idle"
  /\ request' = "idle"
  /\ chosen' = Absent
  /\ UNCHANGED <<disk, mutex, local, sessions, requests, stamp, crashes, erased, crossed>>

-----------------------------------------------------------------------------
(* Helpers *)

Goto(a, l) == pc' = [pc EXCEPT ![a] = l]

\* maintenance_no_sessions
maintenance_no_sessions == sessions = 0

\* The command is accepted; g_storage_mutex is the next thing it needs.
Start(a, o, b) ==
  /\ pc[a] = "idle"
  /\ maintenance_no_sessions
  /\ Goto(a, "wait")
  /\ op' = [op EXCEPT ![a] = o]
  /\ id' = [id EXCEPT ![a] = b]
  /\ step' = [step EXCEPT ![a] = 1]
  /\ taken' = [taken EXCEPT ![a] = Nothing]

\* Leave the critical section and the command.
Leave(a) ==
  /\ Goto(a, "idle")
  /\ mutex' = NoOne
  /\ step' = [step EXCEPT ![a] = 1]
  /\ taken' = [taken EXCEPT ![a] = Nothing]
  /\ op' = [op EXCEPT ![a] = "none"]
  /\ crossed' = {}
  /\ UNCHANGED id

\* validate_backup_archive: accounts and device information must be in it.
validate_backup_archive(archive) ==
  /\ archive["web"] # Absent
  /\ archive["device-info.bin"] # Absent

-----------------------------------------------------------------------------
(* Creating a backup *)

\* backup_admin_create before the mutex: no archive has this id.  Ids are
\* drawn at random by the web backend, so two commands never carry the same.
BackupBegin(a, b) ==
  /\ backups[b] = Nothing
  /\ \A c \in Admin : op[c] = "backup" => id[c] # b
  /\ Start(a, "backup", b)
  /\ UNCHANGED <<disk, mutex, sessions, web, stamp, crashes, erased, crossed>>

Acquire_NoMutex(a) ==
  /\ pc[a] = "wait"
  /\ op[a] \in {"backup", "reset"}
  /\ mutex' = a
  /\ Goto(a, "item")
  /\ UNCHANGED <<disk, op, id, step, taken, sessions, web, stamp, crashes, erased, crossed>>

\* g_storage_mutex, for backup and reset.
Acquire(a) ==
  /\ pc[a] = "wait"
  /\ op[a] \in {"backup", "reset"}
  /\ mutex = NoOne
  /\ mutex' = a
  /\ Goto(a, "item")
  /\ UNCHANGED <<disk, op, id, step, taken, sessions, web, stamp, crashes, erased, crossed>>

\* tar reads the items one by one and fails if one is missing; what it wrote
\* is then thrown away.
BackupItem(a) ==
  /\ pc[a] = "item"
  /\ op[a] = "backup"
  /\ LET i == archived[step[a]] IN
       IF live[i] = Absent
       THEN Leave(a)
       ELSE /\ taken' = [taken EXCEPT ![a][i] = live[i]]
            /\ step' = [step EXCEPT ![a] = @ + 1]
            /\ Goto(a, IF step[a] = Len(archived) THEN "publish" ELSE "item")
            /\ UNCHANGED <<mutex, op, id, crossed>>
  /\ UNCHANGED <<disk, sessions, web, stamp, crashes, erased>>

\* The archive is validated and renamed to its final name, or unlinked.
BackupPublish(a) ==
  /\ pc[a] = "publish"
  /\ \/ /\ validate_backup_archive(taken[a])
        /\ backups' = [backups EXCEPT ![id[a]] = taken[a]]
     \/ UNCHANGED backups                             \* an I/O error
  /\ Leave(a)
  /\ UNCHANGED <<live, staging, staged, sessions, web, stamp, crashes, erased>>

\* backup_admin_delete asks for nothing and takes no mutex.
BackupDelete(a, b) ==
  /\ pc[a] = "idle"
  /\ backups[b] # Nothing
  /\ backups' = [backups EXCEPT ![b] = Nothing]
  /\ UNCHANGED <<live, staging, staged, mutex, local, sessions, web, stamp, crashes,
                 erased, crossed>>

-----------------------------------------------------------------------------
(* Restoring one *)

\* backup_admin_restore before the mutex: the archive is valid and mkdir of
\* its staging directory succeeds.
RestoreBegin(a, b) ==
  /\ validate_backup_archive(backups[b])
  /\ b \notin staged
  /\ Start(a, "restore", b)
  /\ staged' = staged \cup {b}
  /\ UNCHANGED <<live, backups, staging, mutex, sessions, web, stamp, crashes, erased,
                 crossed>>

\* tar unpacks into the staging directory; the archive may be gone by now.
RestoreExtract(a) ==
  /\ pc[a] = "wait"
  /\ op[a] = "restore"
  /\ mutex = NoOne
  /\ mutex' = a
  /\ staging' = [staging EXCEPT ![id[a]] = backups[id[a]]]
  /\ Goto(a, IF backups[id[a]] = Nothing THEN "cleanup" ELSE "item")
  /\ UNCHANGED <<live, backups, staged, op, id, step, taken, sessions, web, stamp,
                 crashes, erased, crossed>>

\* move_restored_item: remove_tree of the live item ...
RestoreRemove(a) ==
  /\ pc[a] = "item"
  /\ op[a] = "restore"
  /\ \/ /\ live' = [live EXCEPT ![items[step[a]]] = Absent]
        /\ Goto(a, "rename")
     \/ /\ Goto(a, "cleanup")                         \* it could not be removed
        /\ UNCHANGED live
  /\ UNCHANGED <<backups, staging, staged, mutex, op, id, step, taken,
                 sessions, web, stamp, crashes, erased, crossed>>

\* ... then rename of the staged one, which fails if there is none, or if a
\* request made the directory again meanwhile; a file is simply replaced.
RestoreRename(a) ==
  /\ pc[a] = "rename"
  /\ LET i == items[step[a]]
         b == id[a]
     IN  \/ /\ staging[b][i] # Absent
            /\ live[i] = Absent \/ i = "device-info.bin"
            /\ live' = [live EXCEPT ![i] = staging[b][i]]
            /\ staging' = [staging EXCEPT ![b][i] = Absent]
            /\ step' = [step EXCEPT ![a] = @ + 1]
            /\ Goto(a, IF step[a] = Len(items) THEN "cleanup" ELSE "item")
         \/ /\ Goto(a, "cleanup")
            /\ UNCHANGED <<live, staging, step>>
  /\ UNCHANGED <<backups, staged, mutex, op, id, taken, sessions, web, stamp,
                 crashes, erased, crossed>>

\* remove_tree of the staging directory, on success and on failure.  Nobody
\* asks whether it worked: what is left is never read again, but stays in the
\* way of the next mkdir.
RestoreCleanup(a) ==
  /\ pc[a] = "cleanup"
  /\ staging' = [staging EXCEPT ![id[a]] = Nothing]
  /\ staged' \in {staged, staged \ {id[a]}}
  /\ Leave(a)
  /\ UNCHANGED <<live, backups, sessions, web, stamp, crashes, erased>>

-----------------------------------------------------------------------------
(* Factory reset *)

\* backup_admin_reset before the mutex.
ResetBegin(a) ==
  /\ Start(a, "reset", id[a])
  /\ UNCHANGED <<disk, mutex, sessions, web, stamp, crashes, erased, crossed>>

\* ensure_storage_tree makes "keys", then "files", and may fail at either.
ensure_storage_tree ==
  {<<NewStamp, NewStamp>>, <<NewStamp, Absent>>, <<Absent, Absent>>}

ResetItem_WithBackups(a) ==
  /\ pc[a] = "item"
  /\ op[a] = "reset"
  /\ live' = [live EXCEPT ![items[step[a]]] = Absent]
  /\ backups' = [b \in Archive |-> Nothing]
  /\ Leave(a)
  /\ UNCHANGED <<staging, staged, sessions, web, stamp, crashes, erased>>

\* remove_tree of one item after the other; a failure ends the reset.  When
\* all are gone the empty directories are made again.
ResetItem(a) ==
  /\ pc[a] = "item"
  /\ op[a] = "reset"
  /\ \/ /\ erased' = IF items[step[a]] = "master" THEN erased \cup {live["master"]}
                                                  ELSE erased
        /\ IF step[a] < Len(items)
           THEN /\ live' = [live EXCEPT ![items[step[a]]] = Absent]
                /\ step' = [step EXCEPT ![a] = @ + 1]
                /\ UNCHANGED <<mutex, pc, op, id, taken, stamp, crossed>>
           ELSE /\ \E made \in ensure_storage_tree :
                     live' = [live EXCEPT ![items[step[a]]] = Absent,
                                          !["keys"] = made[1], !["files"] = made[2]]
                /\ stamp' = NewStamp
                /\ Leave(a)
     \/ /\ Leave(a)                                   \* it could not be removed
        /\ UNCHANGED <<live, stamp, erased>>
  /\ UNCHANGED <<backups, staging, staged, sessions, web, crashes>>

-----------------------------------------------------------------------------
\* The daemon is killed and started again: sessions are gone, files stay, and
\* a request of the web backend goes on.
Crash ==
  /\ crashes < MaxCrashes
  /\ crashes' = crashes + 1
  /\ mutex' = NoOne
  /\ pc' = [a \in Admin |-> "idle"]
  /\ op' = [a \in Admin |-> "none"]
  /\ step' = [a \in Admin |-> 1]
  /\ taken' = [a \in Admin |-> Nothing]
  /\ sessions' = 0
  /\ crossed' = {}
  /\ UNCHANGED <<disk, id, web, stamp, erased>>

AdminStep(a) ==
  \/ \E b \in Archive : BackupBegin(a, b) \/ RestoreBegin(a, b) \/ BackupDelete(a, b)
  \/ Acquire(a) \/ BackupItem(a) \/ BackupPublish(a)
  \/ RestoreExtract(a) \/ RestoreRemove(a) \/ RestoreRename(a) \/ RestoreCleanup(a)
  \/ ResetBegin(a) \/ ResetItem(a)

Next ==
  \/ OpenSession \/ CloseSession \/ EnsureDeviceKey
  \/ InitialiseBegin \/ IntegrityInit \/ ChangeBegin
  \/ ConfigureDevice \/ WriteAccounts \/ RequestFails
  \/ \E a \in Admin : AdminStep(a)
  \/ Crash

Spec == Init /\ [][Next]_vars

-----------------------------------------------------------------------------
(* Properties *)

\* An archive is a snapshot: what is about to be published is what stands on
\* the device at that moment, although tar read it item by item while other
\* commands were requested.  Only accounts and device information may differ,
\* when a request that arrived before the backup wrote them meanwhile.  The
\* snapshot need not be of one installation: a restore that failed after a
\* reset leaves a mixture on the device.
ArchiveIsSnapshot ==
  \A a \in Admin : pc[a] = "publish" =>
    /\ crossed \subseteq {"web", "device-info.bin"}
    /\ \A i \in Item \ crossed : taken[a][i] = IF i = "master" THEN Absent ELSE live[i]

\* Archives under their final names survive restore, reset and every crash:
\* they are as published until they are deleted.  It rests on ids being drawn
\* at random; archives uploaded under an id of the caller are not modelled.
OnlyDeleteRemovesBackups ==
  [][\A b \in Archive : backups[b] # Nothing =>
       \/ backups'[b] = backups[b]
       \/ backups'[b] = Nothing /\ UNCHANGED <<live, pc>>]_vars

\* A device key that a factory reset removed never comes back, whichever
\* archives made before the reset are restored after it.
ErasedStaysErased ==
  live["master"] # Absent => live["master"] \notin erased

\* A restore puts back what the archive holds: whatever else was asked for
\* meanwhile, the items it is past stand on the device as they are in the
\* archive, unless a request that arrived before wrote them again, and the
\* others are in the staging directory, until a delete of the archive leaves
\* nothing to compare with.
RestoreIsFaithful ==
  \A a \in Admin :
    /\ op[a] = "restore" /\ pc[a] \in {"item", "rename"}
    /\ backups[id[a]] # Nothing
    => \A k \in 1 .. Len(items) :
         IF k < step[a]
         THEN items[k] \in crossed \/ live[items[k]] = backups[id[a]][items[k]]
         ELSE staging[id[a]][items[k]] = backups[id[a]][items[k]]

\* The device key is removed by a factory reset only.
OnlyResetRemovesDeviceKey ==
  [][live["master"] # Absent =>
       \/ live'["master"] = live["master"]
       \/ \E a \in Admin : pc[a] = "item" /\ op[a] = "reset"]_vars
=============================================================================
