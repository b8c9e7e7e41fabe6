------------------------------ MODULE KeyStore ------------------------------
(***************************************************************************)
(* The persistent asymmetric keys of the daemon: the SM2 records of        *)
(* internal_key_manager.c / internal_key_admin.inc and the RSA records of  *)
(* rsa_key_manager.c.  A key is one record file; a ".disabled" file next   *)
(* to it says that it is switched off.  Records are replaced by rename, so *)
(* one record changes in one step, but an operation that touches a record  *)
(* and its marker takes several.                                           *)
(*                                                                         *)
(* Administrative commands run in worker threads.  Each family has a mutex *)
(* of its own; what a command tests before taking it may be stale when it  *)
(* acts.  The cryptographic operations read a record, then its marker,     *)
(* under no mutex at all.  The process may be killed at any point: the     *)
(* files stay.                                                             *)
(*                                                                         *)
(* A key is represented by the number it got when it was generated.  A     *)
(* change of password re-encrypts the record in place and keeps the key:   *)
(* it is not visible here.                                                 *)
(***************************************************************************)
EXTENDS Naturals, FiniteSets

CONSTANTS
  Slot,        \* the (type, index) pairs
  Admin,       \* threads that run administrative commands
  User,        \* threads that run cryptographic operations
  NoOne,       \* the mutex is free
  MaxKeys,     \* bound: keys generated
  MaxCrashes   \* bound: times the process is killed

ASSUME KeyStoreAssumption ==
  /\ NoOne \notin Admin
  /\ MaxKeys \in Nat
  /\ MaxCrashes \in Nat

Family == {"SM2", "RSA"}
Other(f) == IF f = "SM2" THEN "RSA" ELSE "SM2"

Place == Family \X Slot
Key == 1 .. MaxKeys
NoKey == 0

VARIABLES
  file,        \* the key in each record file, NoKey if there is no file
  marker,      \* the ".disabled" files
  mutex,       \* who holds g_internal_key_mutex and g_rsa_key_mutex
  apc, job,    \* where each administrative thread is, and its arguments
  upc, read,   \* where each user thread is, and what it read from where
  generated,   \* keys generated so far
  crashes,
  off,         \* ghost: keys whose last set_enabled switched them off
  barred,      \* ghost: the key read, if it was off from the start of the read until now
  overlap      \* ghost: two commands have overlapped, or one was killed

files == <<file, marker>>
admins == <<apc, job>>
users == <<upc, read, barred>>
vars == <<file, marker, mutex, apc, job, upc, read, generated, crashes, off, barred,
          overlap>>

(***************************************************************************)
(* "create", "move", "mark": the tests before the mutex are passed.        *)
(* "copied": reindex has written the record at its new index.  "moved":    *)
(* the marker is there too.  "undo": reindex gives up.  "unmark": a record *)
(* is removed, its marker is next.                                         *)
(***************************************************************************)
APC == {"idle", "create", "mark", "move", "copied", "moved", "undo", "unmark"}
InMutex == {"copied", "moved", "undo", "unmark"}

NoPlace == <<>>
SomePlace == Place \cup {NoPlace}

Job(at, to, enable) == [at |-> at, to |-> to, enable |-> enable]
NoJob == Job(NoPlace, NoPlace, FALSE)
NoRead == [at |-> NoPlace, key |-> NoKey]

StateOK ==
  /\ file \in [Place -> Key \cup {NoKey}]
  /\ marker \in SUBSET Place
  /\ mutex \in [Family -> Admin \cup {NoOne}]
  /\ apc \in [Admin -> APC]
  /\ job \in [Admin -> [at : SomePlace, to : SomePlace, enable : BOOLEAN]]
  /\ upc \in [User -> {"idle", "check", "loaded"}]
  /\ read \in [User -> [at : SomePlace, key : Key \cup {NoKey}]]
  /\ generated \in 0 .. MaxKeys
  /\ crashes \in 0 .. MaxCrashes
  /\ off \in SUBSET Key
  /\ barred \in [User -> SUBSET Key]

TypeOK == StateOK /\ overlap \in BOOLEAN

Init ==
  /\ file = [p \in Place |-> NoKey]
  /\ marker = {}
  /\ mutex = [f \in Family |-> NoOne]
  /\ apc = [a \in Admin |-> "idle"]
  /\ job = [a \in Admin |-> NoJob]
  /\ upc = [u \in User |-> "idle"]
  /\ read = [u \in User |-> NoRead]
  /\ generated = 0
  /\ crashes = 0
  /\ off = {}
  /\ barred = [u \in User |-> {}]
  /\ overlap = FALSE

-----------------------------------------------------------------------------
(* Helpers *)

Exists(f, s) == file[<<f, s>>] # NoKey

FamilyOf(a) == job[a].at[1]

\* Past the tests, on the way to the mutex.
Start(a, l, j) ==
  /\ apc[a] = "idle"
  /\ apc' = [apc EXCEPT ![a] = l]
  /\ job' = [job EXCEPT ![a] = j]

Return(a) ==
  /\ apc' = [apc EXCEPT ![a] = "idle"]
  /\ job' = [job EXCEPT ![a] = NoJob]

Lock(a, f) == mutex[f] = NoOne /\ mutex' = [mutex EXCEPT ![f] = a]
Unlock(f) == mutex' = [mutex EXCEPT ![f] = NoOne]

\* rsa_write_record, write_record_file: a temporary file is written, flushed
\* and renamed, so that the record appears in one step.
WriteRecord(p, k) == file' = [file EXCEPT ![p] = k]

\* The tests of create before the mutex: the index is not used by the other
\* family; SM2 looks for its own record as well.
MayCreate(f, s) ==
  /\ ~ Exists(Other(f), s)
  /\ f = "SM2" => ~ Exists(f, s)

-----------------------------------------------------------------------------
(* Creation *)

CreateBegin_NoCrossCheck(a) ==
  /\ \E f \in Family, s \in Slot :
       /\ ~ Exists(f, s)
       /\ Start(a, "create", Job(<<f, s>>, NoPlace, FALSE))
  /\ UNCHANGED <<files, mutex, users, generated, crashes, off>>

\* internal_key_admin_create, rsa_key_admin_create, up to the mutex.
CreateBegin(a) ==
  /\ \E f \in Family, s \in Slot :
       /\ MayCreate(f, s)
       /\ Start(a, "create", Job(<<f, s>>, NoPlace, FALSE))
  /\ UNCHANGED <<files, mutex, users, generated, crashes, off>>

CreateRecord_Overwrites(a) ==
  /\ apc[a] = "create"
  /\ mutex[FamilyOf(a)] = NoOne
  /\ generated < MaxKeys
  /\ generated' = generated + 1
  /\ file' = [file EXCEPT ![job[a].at] = generated + 1]
  /\ Return(a)
  /\ UNCHANGED <<marker, mutex, users, crashes, off>>

\* The critical section: only the own record is looked for again, a marker
\* left at this index is not.  Generating or writing the key may fail.
CreateRecord(a) ==
  /\ apc[a] = "create"
  /\ mutex[FamilyOf(a)] = NoOne
  /\ \/ /\ file[job[a].at] = NoKey
        /\ generated < MaxKeys
        /\ generated' = generated + 1
        /\ WriteRecord(job[a].at, generated + 1)
     \/ UNCHANGED <<file, generated>>
  /\ Return(a)
  /\ UNCHANGED <<marker, mutex, users, crashes, off>>

-----------------------------------------------------------------------------
(* Deletion; its second half also ends both outcomes of reindex *)

\* internal_key_admin_delete, rsa_key_admin_delete: unlink the record ...
DeleteRecord(a) ==
  /\ \E f \in Family, s \in Slot :
       /\ Exists(f, s)
       /\ Lock(a, f)
       /\ file' = [file EXCEPT ![<<f, s>>] = NoKey]
       /\ Start(a, "unmark", Job(<<f, s>>, NoPlace, FALSE))
  /\ UNCHANGED <<marker, users, generated, crashes, off>>

RemoveMarker_Forgotten(a) ==
  /\ apc[a] = "unmark"
  /\ Unlock(FamilyOf(a))
  /\ Return(a)
  /\ UNCHANGED <<files, users, generated, crashes, off>>

\* ... then its marker, if it has one.
RemoveMarker(a) ==
  /\ apc[a] = "unmark"
  /\ marker' = marker \ {job[a].at}
  /\ Unlock(FamilyOf(a))
  /\ Return(a)
  /\ UNCHANGED <<file, users, generated, crashes, off>>

-----------------------------------------------------------------------------
(* Switching on and off *)

\* internal_key_admin_set_enabled, rsa_key_admin_set_enabled: the record is
\* read before the mutex is taken.
SetEnabledBegin(a) ==
  /\ \E f \in Family, s \in Slot, b \in BOOLEAN :
       /\ Exists(f, s)
       /\ Start(a, "mark", Job(<<f, s>>, NoPlace, b))
  /\ UNCHANGED <<files, mutex, users, generated, crashes, off>>

\* The critical section: the record is not looked at again.  The ghosts take
\* the command as meant for the key that is there now.
SetEnabled(a) ==
  /\ apc[a] = "mark"
  /\ mutex[FamilyOf(a)] = NoOne
  /\ \/ LET at == job[a].at
            k  == {file[at]} \ {NoKey}
        IN  IF job[a].enable
            THEN /\ marker' = marker \ {at}
                 /\ off' = off \ k
                 /\ barred' = [u \in User |-> barred[u] \ k]
            ELSE /\ marker' = marker \cup {at}
                 /\ off' = off \cup k
                 /\ UNCHANGED barred
     \/ UNCHANGED <<marker, off, barred>>          \* the file system refused
  /\ Return(a)
  /\ UNCHANGED <<file, mutex, upc, read, generated, crashes>>

-----------------------------------------------------------------------------
(* Change of index *)

\* internal_key_admin_reindex, rsa_key_admin_reindex: only RSA asks whether
\* the other family has a key at the new index.
ReindexBegin(a) ==
  /\ \E f \in Family, s, n \in Slot :
       /\ s # n
       /\ f = "RSA" => ~ Exists("SM2", n)
       /\ Start(a, "move", Job(<<f, s>>, <<f, n>>, FALSE))
  /\ UNCHANGED <<files, mutex, users, generated, crashes, off>>

ReindexCopy_DropsOld(a) ==
  /\ apc[a] = "move"
  /\ file[job[a].to] = NoKey
  /\ file[job[a].at] # NoKey
  /\ Lock(a, FamilyOf(a))
  /\ file' = [file EXCEPT ![job[a].at] = NoKey]
  /\ apc' = [apc EXCEPT ![a] = "copied"]
  /\ UNCHANGED <<job, marker, users, generated, crashes, off>>

\* With the mutex: the record is re-encrypted for the new index if it has no
\* password, protected again and written there.
ReindexCopy(a) ==
  /\ apc[a] = "move"
  /\ mutex[FamilyOf(a)] = NoOne
  /\ \/ /\ file[job[a].to] = NoKey
        /\ file[job[a].at] # NoKey
        /\ WriteRecord(job[a].to, file[job[a].at])
        /\ Lock(a, FamilyOf(a))
        /\ apc' = [apc EXCEPT ![a] = "copied"]
        /\ UNCHANGED job
     \/ /\ Return(a)                        \* taken, missing, or a failure
        /\ UNCHANGED <<file, mutex>>
  /\ UNCHANGED <<marker, users, generated, crashes, off>>

ReindexMarker_Forgotten(a) ==
  /\ apc[a] = "copied"
  /\ apc' = [apc EXCEPT ![a] = "moved"]
  /\ UNCHANGED <<job, files, mutex, users, generated, crashes, off>>

\* A disabled key gets its marker at the new index, created with O_EXCL: a
\* marker left there, or a failing open, undoes the move.
ReindexMarker(a) ==
  /\ apc[a] = "copied"
  /\ \/ /\ job[a].at \notin marker
        /\ apc' = [apc EXCEPT ![a] = "moved"]
        /\ UNCHANGED marker
     \/ /\ job[a].at \in marker
        /\ job[a].to \notin marker
        /\ marker' = marker \cup {job[a].to}
        /\ apc' = [apc EXCEPT ![a] = "moved"]
     \/ /\ job[a].at \in marker
        /\ apc' = [apc EXCEPT ![a] = "undo"]
        /\ UNCHANGED marker
  /\ UNCHANGED <<job, file, mutex, users, generated, crashes, off>>

ReindexUnlink_Skipped(a) ==
  /\ apc[a] = "moved"
  /\ apc' = [apc EXCEPT ![a] = "unmark"]
  /\ UNCHANGED <<files, job, mutex, users, generated, crashes, off>>

\* unlink(old_path); the old marker is next.
ReindexUnlink(a) ==
  /\ apc[a] = "moved"
  /\ file' = [file EXCEPT ![job[a].at] = NoKey]
  /\ apc' = [apc EXCEPT ![a] = "unmark"]
  /\ UNCHANGED <<marker, job, mutex, users, generated, crashes, off>>

\* unlink(new_path); the marker at the new index is next.
ReindexUndo(a) ==
  /\ apc[a] = "undo"
  /\ file' = [file EXCEPT ![job[a].to] = NoKey]
  /\ apc' = [apc EXCEPT ![a] = "unmark"]
  /\ job' = [job EXCEPT ![a].at = job[a].to]
  /\ UNCHANGED <<marker, mutex, users, generated, crashes, off>>

-----------------------------------------------------------------------------
(* Cryptographic operations *)

\* read_record, rsa_read: the record first ...
ReadRecord(u) ==
  /\ upc[u] = "idle"
  /\ \E p \in Place :
       /\ file[p] # NoKey
       /\ read' = [read EXCEPT ![u] = [at |-> p, key |-> file[p]]]
       /\ barred' = [barred EXCEPT ![u] = off \cap {file[p]}]
  /\ upc' = [upc EXCEPT ![u] = "check"]
  /\ UNCHANGED <<files, mutex, admins, generated, crashes, off>>

\* ... then the marker: a disabled key is reported as not existing.
CheckDisabled(u) ==
  /\ upc[u] = "check"
  /\ IF read[u].at \in marker
     THEN /\ upc' = [upc EXCEPT ![u] = "idle"]
          /\ read' = [read EXCEPT ![u] = NoRead]
          /\ barred' = [barred EXCEPT ![u] = {}]
     ELSE /\ upc' = [upc EXCEPT ![u] = "loaded"]
          /\ UNCHANGED <<read, barred>>
  /\ UNCHANGED <<files, mutex, admins, generated, crashes, off>>

\* The operation is done with the key and wipes it.
Finish(u) ==
  /\ upc[u] = "loaded"
  /\ upc' = [upc EXCEPT ![u] = "idle"]
  /\ read' = [read EXCEPT ![u] = NoRead]
  /\ barred' = [barred EXCEPT ![u] = {}]
  /\ UNCHANGED <<files, mutex, admins, generated, crashes, off>>

-----------------------------------------------------------------------------
\* The process is killed and started again.
Crash ==
  /\ crashes < MaxCrashes
  /\ crashes' = crashes + 1
  /\ mutex' = [f \in Family |-> NoOne]
  /\ apc' = [a \in Admin |-> "idle"]
  /\ job' = [a \in Admin |-> NoJob]
  /\ upc' = [u \in User |-> "idle"]
  /\ read' = [u \in User |-> NoRead]
  /\ barred' = [u \in User |-> {}]
  /\ UNCHANGED <<files, generated, off>>

AdminStep(a) ==
  \/ CreateBegin(a) \/ CreateRecord(a)
  \/ DeleteRecord(a) \/ RemoveMarker(a)
  \/ SetEnabledBegin(a) \/ SetEnabled(a)
  \/ ReindexBegin(a) \/ ReindexCopy(a) \/ ReindexMarker(a)
  \/ ReindexUnlink(a) \/ ReindexUndo(a)

UserStep(u) == ReadRecord(u) \/ CheckDisabled(u) \/ Finish(u)

Step ==
  \/ \E a \in Admin : AdminStep(a)
  \/ \E u \in User : UserStep(u)
  \/ Crash

\* The history of the ghost overlap goes with every step.
NotesOverlap ==
  overlap' = \/ overlap
             \/ crashes' # crashes /\ \E a \in Admin : apc[a] # "idle"
             \/ \E a, b \in Admin : a # b /\ apc'[a] # "idle" /\ apc'[b] # "idle"

Next == Step /\ NotesOverlap

Spec == Init /\ [][Next]_vars

-----------------------------------------------------------------------------
(* Properties *)

Stored == {file[p] : p \in Place} \ {NoKey}

\* A key is never lost: whatever interleaves and wherever the process is
\* killed, the last record of a key disappears only when delete unlinks it.
\* Reindex, its rollback and create never remove or overwrite the only copy.
OnlyDeleteRemoves ==
  [][\A k \in Stored :
       \/ k \in Stored'
       \/ \E a \in Admin : /\ apc[a] = "idle" /\ apc'[a] = "unmark"
                           /\ file[job'[a].at] = k]_vars

\* While a family's mutex is free no key has two records, unless a reindex was
\* killed between writing the new record and unlinking the old one.
OneRecordAtRest ==
  crashes = 0 =>
    \A p, q \in Place :
      (file[p] # NoKey /\ file[p] = file[q] /\ p # q) =>
        \E a \in Admin : apc[a] \in InMutex /\ {p, q} = {job[a].at, job[a].to}

\* From the moment reindex has written the new record until it unlinks one of
\* the two, both hold the key: nobody deletes, moves or replaces either of
\* them, so whichever is unlinked, the other one remains.
MoveKeepsBoth ==
  \A a \in Admin : apc[a] \in {"copied", "moved", "undo"} =>
    /\ job[a].at # job[a].to
    /\ file[job[a].at] = file[job[a].to]
    /\ file[job[a].at] # NoKey

AtRest == \A a \in Admin : apc[a] = "idle"

\* As long as commands have not overlapped and none was killed, a key is off
\* exactly when it has a marker: moving a key keeps its state, a new key is
\* on, and deleting a key leaves no marker behind for the next one.
MarkerTellsState ==
  (AtRest /\ ~ overlap) => /\ \A p \in marker : file[p] # NoKey
            /\ \A p \in Place : file[p] # NoKey => (p \in marker <=> file[p] \in off)

\* SM2 and RSA keys share one index only because an SM2 key was moved there, or
\* because two commands overlapped.
SharedOnlyByMove ==
  [][overlap \/ \A s \in Slot :
       (Exists("SM2", s)' /\ Exists("RSA", s)') =>
         \/ Exists("SM2", s) /\ Exists("RSA", s)
         \/ \E a \in Admin : apc[a] = "move" /\ job[a].to = <<"SM2", s>>]_vars

\* A cryptographic operation is refused a key that has been off ever since the
\* operation began.
DisabledIsRefused ==
  \A u \in User : upc[u] = "loaded" => read[u].key \notin barred[u]

\* As long as commands have not overlapped, an operation gets a key that has
\* been off ever since it began in two cases only: the record it read is no
\* longer there when it looks for the marker, because the key was moved or
\* deleted meanwhile; or a reindex has just written it and not yet its marker.
DisabledOnlyIfMoved ==
  [][\A u \in User :
       (upc[u] = "check" /\ upc'[u] = "loaded" /\ read[u].key \in barred[u] /\ ~ overlap) =>
         \/ file[read[u].at] # read[u].key
         \/ \E a \in Admin : apc[a] \in {"copied", "undo"} /\ job[a].to = read[u].at]_vars

-----------------------------------------------------------------------------
(* The inductive invariant behind OnlyDeleteRemoves *)

\* A thread inside a command knows the place it works on; reindex knows two
\* places of one family.
JobOK ==
  \A a \in Admin :
    /\ apc[a] # "idle" => job[a].at \in Place
    /\ apc[a] \in {"move", "copied", "moved", "undo"} =>
         /\ job[a].to \in Place
         /\ job[a].to[1] = job[a].at[1]
         /\ job[a].to # job[a].at

\* Between the halves of delete and reindex the family's mutex is held.
MutexProtects ==
  \A a \in Admin : apc[a] \in InMutex => mutex[FamilyOf(a)] = a

IndInv ==
  /\ StateOK
  /\ JobOK
  /\ MutexProtects
  /\ MoveKeepsBoth
=============================================================================
