-------------------------- MODULE MaintenanceProofs --------------------------
(***************************************************************************)
(* Proofs about Maintenance, for any number of threads, archives, sessions *)
(* and crashes.                                                            *)
(***************************************************************************)
EXTENDS Maintenance, TLAPS

(***************************************************************************)
(* The invariant                                                           *)
(***************************************************************************)

\* Who works on items holds g_storage_mutex, and knows where it is.
CritOK ==
  \A a \in Admin :
    /\ op[a] = "none" <=> pc[a] = "idle"
    /\ pc[a] \in {"item", "rename", "publish", "cleanup"} => mutex = a
    /\ pc[a] = "wait" => step[a] = 1
    /\ pc[a] = "item" => step[a] <= IF op[a] = "backup" THEN 4 ELSE 5
    /\ pc[a] = "rename" => op[a] = "restore" /\ step[a] <= 5
    /\ pc[a] = "publish" => op[a] = "backup" /\ step[a] = 5
    /\ pc[a] = "cleanup" => op[a] = "restore"

\* No archive, and nothing made from one, holds a device key; keys are
\* numbered in the order in which they are made.
MasterOK ==
  /\ \A b \in Archive : backups[b]["master"] = Absent /\ staging[b]["master"] = Absent
  /\ \A a \in Admin : taken[a]["master"] = Absent
  /\ live["master"] <= stamp
  /\ \A k \in erased : k <= stamp
  /\ ErasedStaysErased

Copied(a, i) == \E j \in 1 .. step[a] - 1 : archived[j] = i

\* What tar has read so far is what stands on the device, except where a
\* request of the web backend wrote; that is accounts and device information.
TakenOK ==
  /\ crossed \subseteq {"web", "device-info.bin"}
  /\ mutex = NoOne => crossed = {}
  /\ \A a \in Admin : op[a] = "backup" =>
       \A i \in Item :
         /\ ~ Copied(a, i) => taken[a][i] = Absent
         /\ Copied(a, i) /\ i \notin crossed => taken[a][i] = live[i]

\* A backup in progress has an id of its own.
NameOK ==
  \A a \in Admin : op[a] = "backup" =>
    /\ backups[id[a]] = Nothing
    /\ \A c \in Admin : op[c] = "backup" /\ id[c] = id[a] => c = a

IndInv == TypeOK /\ CritOK /\ MasterOK /\ TakenOK /\ NameOK

(***************************************************************************)
(* The items, and steps that leave parts of the invariant alone            *)
(***************************************************************************)

\* The two lists of items.
LEMMA Items ==
  /\ Item = {"keys", "files", "web", "master", "device-info.bin"}
  /\ Len(items) = 5 /\ Len(archived) = 4
  /\ \A k \in 1 .. 5 : items[k] \in Item /\ (items[k] = "master" <=> k = 4)
  /\ \A k \in 1 .. 4 : archived[k] \in Item /\ archived[k] # "master"
  /\ \A i \in Item : i # "master" => \E j \in 1 .. 4 : archived[j] = i
  /\ \A j, k \in 1 .. 5 : items[j] = items[k] => j = k
<1>1. Len(items) = 5 /\ Len(archived) = 4
  BY DEF items, archived
<1>2. /\ items[1] = "keys" /\ items[2] = "files" /\ items[3] = "web"
      /\ items[4] = "master" /\ items[5] = "device-info.bin"
  BY DEF items
<1>3. /\ archived[1] = "keys" /\ archived[2] = "files" /\ archived[3] = "web"
      /\ archived[4] = "device-info.bin"
  BY DEF archived
<1>4. \A k : k \in 1 .. 5 <=> k \in {1, 2, 3, 4, 5}
  OBVIOUS
<1>5. \A k : k \in 1 .. 4 <=> k \in {1, 2, 3, 4}
  OBVIOUS
<1>6. Item = {"keys", "files", "web", "master", "device-info.bin"}
  BY <1>1, <1>2, <1>4 DEF Item
<1> QED
  BY <1>1, <1>2, <1>3, <1>4, <1>5, <1>6

\* Nothing archived changes on the device while somebody reads it, but what a
\* request writes.
LEMMA TakenFrame ==
  ASSUME TakenOK, CritOK, TypeOK,
         crossed' \subseteq {"web", "device-info.bin"}, mutex' = NoOne => crossed' = {},
         \A a \in Admin : op'[a] = "backup" =>
           op[a] = "backup" /\ step'[a] = step[a] /\ taken'[a] = taken[a],
         \A a \in Admin : op'[a] = "backup" =>
           \/ pc[a] = "wait"
           \/ /\ crossed \subseteq crossed'
              /\ \A i \in Item : i # "master" /\ i \notin crossed' => live'[i] = live[i]
  PROVE  TakenOK'
<1> SUFFICES ASSUME NEW a \in Admin, op'[a] = "backup", NEW i \in Item
             PROVE  /\ ~ Copied(a, i)' => taken'[a][i] = Absent
                    /\ Copied(a, i)' /\ i \notin crossed' => taken'[a][i] = live'[i]
  BY DEF TakenOK
<1>1. op[a] = "backup" /\ step'[a] = step[a] /\ taken'[a] = taken[a]
  OBVIOUS
<1>2. Copied(a, i)' <=> Copied(a, i)
  BY <1>1 DEF Copied
<1>3. /\ ~ Copied(a, i) => taken[a][i] = Absent
      /\ Copied(a, i) /\ i \notin crossed => taken[a][i] = live[i]
  BY <1>1 DEF TakenOK
<1>4. CASE pc[a] = "wait"
  <2>1. ~ Copied(a, i)
    BY <1>4 DEF CritOK, Copied
  <2> QED
    BY <1>1, <1>2, <1>3, <2>1
<1>5. CASE pc[a] # "wait"
  <2>1. step[a] \in 1 .. 5
    BY <1>1, <1>5, Items DEF CritOK, TypeOK, PC
  <2>2. Copied(a, i) => i # "master"
    BY <2>1, Items DEF Copied
  <2>3. crossed \subseteq crossed' /\ (i # "master" /\ i \notin crossed' => live'[i] = live[i])
    BY <1>5
  <2> QED
    BY <1>1, <1>2, <1>3, <2>2, <2>3
<1> QED
  BY <1>4, <1>5

\* No request writes, and the mutex does not change hands.
LEMMA SameCrossing ==
  ASSUME TakenOK, UNCHANGED <<crossed, mutex>>
  PROVE  crossed' \subseteq {"web", "device-info.bin"} /\ (mutex' = NoOne => crossed' = {})
BY DEF TakenOK

\* No archive appears and no backup begins.
LEMMA NameFrame ==
  ASSUME NameOK,
         \A a \in Admin : op'[a] = "backup" => op[a] = "backup" /\ id'[a] = id[a],
         \A a \in Admin : op'[a] = "backup" /\ backups[id[a]] = Nothing => backups'[id[a]] = Nothing
  PROVE  NameOK'
BY DEF NameOK, Nothing

\* The device key and its copies stay as they are.
LEMMA MasterFrame ==
  ASSUME MasterOK, live'["master"] = live["master"], stamp' = stamp, erased' = erased,
         \A b \in Archive : /\ backups'[b]["master"] = Absent
                            /\ staging'[b]["master"] = Absent,
         \A a \in Admin : taken'[a]["master"] = Absent
  PROVE  MasterOK'
BY DEF MasterOK, ErasedStaysErased, Absent

\* An empty archive.
LEMMA NothingType ==
  Nothing \in [Item -> Content] /\ \A i \in Item : Nothing[i] = Absent
BY MaintenanceAssumption DEF Nothing, Absent, Content

(***************************************************************************)
(* Beginning and leaving a command                                         *)
(***************************************************************************)

\* The types of the threads' own variables.
LocalType ==
  /\ pc \in [Admin -> PC] /\ op \in [Admin -> Op] /\ id \in [Admin -> Archive]
  /\ step \in [Admin -> 1 .. 6] /\ taken \in [Admin -> [Item -> Content]]

\* They are a part of the type invariant.
LEMMA Locals == TypeOK => LocalType
BY Items DEF TypeOK, LocalType

\* While one thread holds the mutex the backups of others wait for it.
LEMMA OthersWait ==
  ASSUME IndInv, NEW a \in Admin, mutex = a, NEW c \in Admin, c # a
  PROVE  pc[c] \in {"idle", "wait"} /\ (op[c] = "backup" => pc[c] = "wait")
BY DEF IndInv, TypeOK, CritOK, PC

\* A command begins.
LEMMA StartParts ==
  ASSUME IndInv, NEW a \in Admin, NEW o \in Op, o # "none", NEW b \in Archive,
         Start(a, o, b), mutex' = mutex
  PROVE  /\ LocalType' /\ CritOK'
         /\ \A c \in Admin : taken'[c]["master"] = Absent
         /\ op'[a] = o /\ id'[a] = b /\ step'[a] = 1 /\ taken'[a] = Nothing
         /\ \A c \in Admin : c # a => /\ op'[c] = op[c] /\ id'[c] = id[c]
                                      /\ step'[c] = step[c] /\ taken'[c] = taken[c]
<1> USE DEF IndInv
<1>1. LocalType
  BY Locals
<1>2. /\ pc' = [pc EXCEPT ![a] = "wait"] /\ op' = [op EXCEPT ![a] = o]
      /\ id' = [id EXCEPT ![a] = b] /\ step' = [step EXCEPT ![a] = 1]
      /\ taken' = [taken EXCEPT ![a] = Nothing]
  BY DEF Start, Goto
<1>3. LocalType'
  BY <1>1, <1>2, NothingType DEF LocalType, PC
<1>4. /\ pc'[a] = "wait" /\ op'[a] = o /\ id'[a] = b /\ step'[a] = 1 /\ taken'[a] = Nothing
      /\ \A c \in Admin : c # a => /\ pc'[c] = pc[c] /\ op'[c] = op[c] /\ id'[c] = id[c]
                                   /\ step'[c] = step[c] /\ taken'[c] = taken[c]
  BY <1>1, <1>2 DEF LocalType
<1>5. CritOK'
  BY <1>4 DEF CritOK
<1>6. \A c \in Admin : taken'[c]["master"] = Absent
  BY <1>4, NothingType, Items DEF MasterOK
<1> QED
  BY <1>3, <1>4, <1>5, <1>6

\* A command ends, in its critical section.
LEMMA LeaveParts ==
  ASSUME IndInv, NEW a \in Admin, mutex = a, Leave(a)
  PROVE  /\ LocalType' /\ CritOK' /\ mutex' = NoOne /\ crossed' = {}
         /\ \A c \in Admin : taken'[c]["master"] = Absent
         /\ \A c \in Admin : op'[c] = "backup" =>
              /\ c # a /\ op[c] = "backup" /\ pc[c] = "wait" /\ id'[c] = id[c]
              /\ step'[c] = step[c] /\ taken'[c] = taken[c]
<1> USE DEF IndInv
<1>1. LocalType
  BY Locals
<1>2. /\ pc' = [pc EXCEPT ![a] = "idle"] /\ op' = [op EXCEPT ![a] = "none"]
      /\ id' = id /\ step' = [step EXCEPT ![a] = 1] /\ mutex' = NoOne /\ crossed' = {}
      /\ taken' = [taken EXCEPT ![a] = Nothing]
  BY DEF Leave, Goto
<1>3. LocalType'
  BY <1>1, <1>2, NothingType DEF LocalType, PC, Op
<1>4. /\ pc'[a] = "idle" /\ op'[a] = "none" /\ taken'[a] = Nothing
      /\ \A c \in Admin : c # a => /\ pc'[c] = pc[c] /\ op'[c] = op[c] /\ id'[c] = id[c]
                                   /\ step'[c] = step[c] /\ taken'[c] = taken[c]
  BY <1>1, <1>2 DEF LocalType
<1>5. \A c \in Admin : c # a => pc[c] \in {"idle", "wait"} /\ (op[c] = "backup" => pc[c] = "wait")
  BY OthersWait
<1>6. CritOK'
  BY <1>4, <1>5 DEF CritOK
<1>7. \A c \in Admin : taken'[c]["master"] = Absent
  BY <1>4, NothingType, Items DEF MasterOK
<1> QED
  BY <1>2, <1>3, <1>4, <1>5, <1>6, <1>7

\* A thread goes on inside its critical section.
LEMMA GoParts ==
  ASSUME IndInv, NEW a \in Admin, mutex' = a, mutex \in {a, NoOne},
         NEW l \in {"item", "rename", "publish", "cleanup"}, Goto(a, l), UNCHANGED <<op, id>>,
         op[a] # "none", step' \in [Admin -> 1 .. 6], taken' \in [Admin -> [Item -> Content]],
         \A c \in Admin : c # a => step'[c] = step[c] /\ taken'[c] = taken[c],
         taken'[a]["master"] = Absent,
         l = "item" => step'[a] <= IF op[a] = "backup" THEN 4 ELSE 5,
         l = "rename" => op[a] = "restore" /\ step'[a] <= 5,
         l = "publish" => op[a] = "backup" /\ step'[a] = 5,
         l = "cleanup" => op[a] = "restore"
  PROVE  /\ LocalType' /\ CritOK'
         /\ \A c \in Admin : taken'[c]["master"] = Absent
         /\ \A c \in Admin : c # a /\ op[c] = "backup" => pc[c] = "wait"
<1> USE DEF IndInv
<1>1. LocalType
  BY Locals
<1>2. pc' = [pc EXCEPT ![a] = l]
  BY DEF Goto
<1>3. LocalType'
  BY <1>1, <1>2 DEF LocalType, PC
<1>4. pc'[a] = l /\ \A c \in Admin : c # a => pc'[c] = pc[c]
  BY <1>1, <1>2 DEF LocalType
<1>5. \A c \in Admin : c # a => pc[c] \in {"idle", "wait"} /\ (op[c] = "backup" => pc[c] = "wait")
  BY <1>1, MaintenanceAssumption DEF CritOK, LocalType, PC
<1>6. CritOK'
  BY <1>4, <1>5 DEF CritOK
<1>7. \A c \in Admin : taken'[c]["master"] = Absent
  BY DEF MasterOK
<1> QED
  BY <1>3, <1>5, <1>6, <1>7

(***************************************************************************)
(* One lemma per operation                                                 *)
(***************************************************************************)

\* A device that was never maintained.
LEMMA InitInv == Init => IndInv
<1> SUFFICES ASSUME Init PROVE IndInv
  OBVIOUS
<1>1. (CHOOSE b \in Archive : TRUE) \in Archive
  BY MaintenanceAssumption
<1>2. TypeOK
  <2>1. /\ 1 \in Content /\ Absent \in Content
        /\ 0 \in 0 .. MaxSessions /\ 0 \in 0 .. MaxCrashes /\ 0 \in 0 .. MaxRequests
    BY MaintenanceAssumption DEF Content, Absent
  <2>2. id \in [Admin -> Archive]
    BY <1>1 DEF Init
  <2>3. /\ step \in [Admin -> 1 .. Len(items) + 1]
    BY Items DEF Init
  <2> QED
    BY <2>1, <2>2, <2>3, NothingType DEF Init, TypeOK, PC, Op, Request
<1>3. CritOK
  BY DEF Init, CritOK
<1>4. MasterOK
  BY Items, NothingType DEF Init, MasterOK, ErasedStaysErased
<1>5. TakenOK /\ NameOK
  BY DEF Init, TakenOK, NameOK
<1> QED
  BY <1>2, <1>3, <1>4, <1>5 DEF IndInv

\* The device key goes away, or stays.
LEMMA MasterGone ==
  ASSUME IndInv, live'["master"] \in {live["master"], Absent},
         stamp' \in {stamp, NewStamp}, erased' = erased,
         \A b \in Archive : /\ backups'[b]["master"] = Absent
                            /\ staging'[b]["master"] = Absent,
         \A a \in Admin : taken'[a]["master"] = Absent
  PROVE  MasterOK'
<1>1. stamp \in Nat /\ stamp' \in Nat /\ stamp' >= stamp
  BY MaintenanceAssumption DEF IndInv, TypeOK, Content, NewStamp
<1>2. live["master"] \in Nat /\ \A k \in erased : k \in Nat
  BY MaintenanceAssumption, Items DEF IndInv, TypeOK, Content
<1> QED
  BY <1>1, <1>2 DEF IndInv, MasterOK, ErasedStaysErased, Absent

\* Sessions and device keys.
LEMMA DeviceStep ==
  ASSUME IndInv, OpenSession \/ CloseSession \/ EnsureDeviceKey
  PROVE  IndInv'
<1> USE DEF IndInv
<1>1. UNCHANGED <<backups, staging, staged, mutex, pc, op, id, step, taken, request, chosen,
                  requests, crashes, erased, crossed>>
  BY DEF OpenSession, CloseSession, EnsureDeviceKey, disk, local, web
<1>2. CASE OpenSession \/ CloseSession
  <2>1. UNCHANGED <<live, stamp>> /\ sessions' \in 0 .. MaxSessions
    BY <1>2, MaintenanceAssumption DEF OpenSession, CloseSession, disk, TypeOK
  <2>2. TypeOK'
    BY <1>1, <2>1 DEF TypeOK
  <2>3. CritOK' /\ NameOK'
    BY <1>1 DEF CritOK, NameOK
  <2>4. MasterOK'
    BY <1>1, <2>1 DEF MasterOK, ErasedStaysErased
  <2>5. TakenOK'
    BY <1>1, <2>1 DEF TakenOK, Copied
  <2> QED
    BY <2>2, <2>3, <2>4, <2>5
<1>3. CASE EnsureDeviceKey
  <2>1. /\ stamp' = stamp + 1 /\ stamp \in Nat /\ stamp + 1 \in Content
        /\ live' = [live EXCEPT !["master"] = stamp + 1] /\ sessions' = sessions
    BY <1>3, MaintenanceAssumption DEF EnsureDeviceKey, TypeOK, Content
  <2>2. TypeOK'
    BY <1>1, <2>1 DEF TypeOK
  <2>3. CritOK' /\ NameOK'
    BY <1>1 DEF CritOK, NameOK
  <2>4. live'["master"] = stamp + 1 /\ \A i \in Item : i # "master" => live'[i] = live[i]
    BY <2>1, Items DEF TypeOK
  <2>5. \A k \in erased : k \in Int /\ k <= stamp
    BY DEF MasterOK, TypeOK, Content
  <2>6. MasterOK'
    BY <1>1, <2>1, <2>4, <2>5 DEF MasterOK, ErasedStaysErased
  <2>7. TakenOK'
    BY <1>1, <2>4, SameCrossing, TakenFrame
  <2> QED
    BY <2>2, <2>3, <2>6, <2>7
<1> QED
  BY <1>2, <1>3

\* A request of the web backend arrives, goes on without writing, or fails.
LEMMA RequestStep ==
  ASSUME IndInv, InitialiseBegin \/ IntegrityInit \/ ChangeBegin \/ RequestFails
  PROVE  IndInv'
<1> USE DEF IndInv
<1>1. UNCHANGED <<live, backups, staging, staged, mutex, pc, op, id, step, taken, sessions,
                  crashes, erased, crossed>>
  BY DEF InitialiseBegin, IntegrityInit, ChangeBegin, RequestFails, disk, local
<1>2. stamp' \in {stamp, NewStamp} /\ chosen' \in {chosen, NewStamp, live["web"], Absent}
  BY DEF InitialiseBegin, IntegrityInit, ChangeBegin, RequestFails
<1>3. requests' \in 0 .. MaxRequests /\ request' \in Request
  BY MaintenanceAssumption DEF InitialiseBegin, IntegrityInit, ChangeBegin, RequestFails, Arrive,
     TypeOK, Request
<1>4. NewStamp \in Content /\ Absent \in Content /\ live["web"] \in Content
  BY MaintenanceAssumption, Items DEF TypeOK, NewStamp, Content, Absent
<1>5. TypeOK'
  BY <1>1, <1>2, <1>3, <1>4 DEF TypeOK
<1>6. CritOK' /\ NameOK'
  BY <1>1 DEF CritOK, NameOK
<1>7. MasterOK'
  BY <1>1, <1>2, MasterGone DEF MasterOK
<1>8. TakenOK'
  BY <1>1 DEF TakenOK, Copied
<1> QED
  BY <1>5, <1>6, <1>7, <1>8

\* A request writes device information or accounts, whoever has the mutex.
LEMMA WriteStep ==
  ASSUME IndInv, ConfigureDevice \/ WriteAccounts
  PROVE  IndInv'
<1> USE DEF IndInv
<1>1. PICK i \in {"web", "device-info.bin"} : Writes(i)
  BY DEF ConfigureDevice, WriteAccounts
<1>2. /\ live' = [live EXCEPT ![i] = chosen]
      /\ crossed' = IF mutex = NoOne THEN crossed ELSE crossed \cup {i}
      /\ UNCHANGED <<backups, staging, staged, mutex, pc, op, id, step, taken, sessions, stamp,
                     crashes, erased>>
  BY <1>1 DEF Writes, local
<1>3. /\ requests' = requests /\ chosen' \in {chosen, Absent} /\ request' \in Request
  BY DEF ConfigureDevice, WriteAccounts, Request
<1>4. i \in Item /\ i # "master" /\ Absent \in Content
  BY Items, MaintenanceAssumption DEF Absent, Content
<1>5. /\ crossed' \subseteq {"web", "device-info.bin"} /\ (mutex' = NoOne => crossed' = {})
      /\ crossed \subseteq crossed' /\ (mutex # NoOne => i \in crossed')
  BY <1>2 DEF TakenOK
<1>6. \A k \in Item : k # i => live'[k] = live[k]
  BY <1>2 DEF TypeOK
<1>7. TypeOK'
  <2>1. live' \in [Item -> Content] /\ crossed' \subseteq Item
    BY <1>2, <1>4, <1>5, Items DEF TypeOK
  <2>2. chosen' \in Content
    BY <1>3, <1>4 DEF TypeOK
  <2> QED
    BY <1>2, <1>3, <2>1, <2>2 DEF TypeOK
<1>8. CritOK' /\ NameOK'
  BY <1>2 DEF CritOK, NameOK
<1>9. live'["master"] = live["master"]
  BY <1>4, <1>6, Items
<1>10. MasterOK'
  BY <1>2, <1>9, MasterFrame DEF MasterOK
<1>11. \A a \in Admin : op'[a] = "backup" => pc[a] = "wait" \/ mutex # NoOne
  BY <1>2, MaintenanceAssumption DEF CritOK, TypeOK, PC
<1>12. TakenOK'
  BY <1>2, <1>5, <1>6, <1>11, TakenFrame
<1> QED
  BY <1>7, <1>8, <1>10, <1>12

\* The three commands begin, or an archive is deleted.
LEMMA BeginStep ==
  ASSUME IndInv, NEW a \in Admin, NEW b \in Archive,
         BackupBegin(a, b) \/ RestoreBegin(a, b) \/ ResetBegin(a) \/ BackupDelete(a, b)
  PROVE  IndInv'
<1> USE DEF IndInv
<1>0. UNCHANGED <<live, staging, mutex, sessions, request, chosen, requests, stamp, crashes,
                  erased, crossed>>
  BY DEF BackupBegin, RestoreBegin, ResetBegin, BackupDelete, disk, web
<1>1. CASE BackupBegin(a, b)
  <2>1. Start(a, "backup", b) /\ UNCHANGED <<backups, staged>> /\ backups[b] = Nothing
        /\ \A c \in Admin : op[c] = "backup" => id[c] # b
    BY <1>1 DEF BackupBegin, disk
  <2>2. "backup" \in Op /\ "backup" # "none"
    BY DEF Op
  <2>3. /\ LocalType' /\ CritOK'
        /\ \A c \in Admin : taken'[c]["master"] = Absent
        /\ op'[a] = "backup" /\ id'[a] = b /\ step'[a] = 1 /\ taken'[a] = Nothing
        /\ \A c \in Admin : c # a => /\ op'[c] = op[c] /\ id'[c] = id[c]
                                     /\ step'[c] = step[c] /\ taken'[c] = taken[c]
    BY <1>0, <2>1, <2>2, StartParts
  <2>4. TypeOK'
    BY <1>0, <2>1, <2>3, Items DEF TypeOK, LocalType
  <2>5. MasterOK'
    BY <1>0, <2>1, <2>3, MasterFrame DEF MasterOK
  <2>6. TakenOK'
    BY <1>0, <2>3, NothingType DEF TakenOK, Copied
  <2>7. NameOK'
    BY <2>1, <2>3 DEF NameOK
  <2> QED
    BY <2>3, <2>4, <2>5, <2>6, <2>7
<1>2. CASE RestoreBegin(a, b) \/ ResetBegin(a)
  <2>1. PICK o \in {"restore", "reset"}, e \in Archive : Start(a, o, e)
    BY <1>2 DEF RestoreBegin, ResetBegin, TypeOK
  <2>2. backups' = backups /\ staged' \in SUBSET Archive /\ o \in Op /\ o # "none"
    BY <1>2 DEF RestoreBegin, ResetBegin, disk, TypeOK, Op
  <2>3. /\ LocalType' /\ CritOK'
        /\ \A c \in Admin : taken'[c]["master"] = Absent
        /\ op'[a] = o
        /\ \A c \in Admin : c # a => /\ op'[c] = op[c] /\ id'[c] = id[c]
                                     /\ step'[c] = step[c] /\ taken'[c] = taken[c]
    BY <1>0, <2>1, <2>2, StartParts
  <2>4. TypeOK'
    BY <1>0, <2>2, <2>3, Items DEF TypeOK, LocalType
  <2>5. MasterOK'
    BY <1>0, <2>2, <2>3, MasterFrame DEF MasterOK
  <2>6. TakenOK'
    BY <1>0, <2>3, SameCrossing, TakenFrame
  <2>7. NameOK'
    BY <2>2, <2>3, NameFrame
  <2> QED
    BY <2>3, <2>4, <2>5, <2>6, <2>7
<1>3. CASE BackupDelete(a, b)
  <2>1. UNCHANGED <<staged, pc, op, id, step, taken>> /\ backups' = [backups EXCEPT ![b] = Nothing]
    BY <1>3 DEF BackupDelete, local
  <2>2. \A c \in Archive : backups'[c] = IF c = b THEN Nothing ELSE backups[c]
    BY <2>1 DEF TypeOK
  <2>3. TypeOK'
    BY <1>0, <2>1, NothingType DEF TypeOK
  <2>4. CritOK'
    BY <1>0, <2>1 DEF CritOK
  <2>5. MasterOK'
    BY <1>0, <2>1, <2>2, NothingType, Items, MasterFrame DEF MasterOK
  <2>6. TakenOK'
    BY <1>0, <2>1 DEF TakenOK, Copied
  <2>7. NameOK'
    BY <2>1, <2>2 DEF NameOK, TypeOK
  <2> QED
    BY <2>3, <2>4, <2>5, <2>6, <2>7
<1> QED
  BY <1>1, <1>2, <1>3

\* The mutex is taken, for a backup or a reset.
LEMMA AcquireStep ==
  ASSUME IndInv, NEW a \in Admin, Acquire(a)
  PROVE  IndInv'
<1> USE DEF IndInv
<1>1. /\ pc[a] = "wait" /\ op[a] \in {"backup", "reset"} /\ mutex = NoOne /\ mutex' = a
      /\ Goto(a, "item")
      /\ UNCHANGED <<live, backups, staging, staged, op, id, step, taken, sessions, request,
                     chosen, requests, stamp, crashes, erased, crossed>>
  BY DEF Acquire, disk, web
<1>2. LocalType /\ step[a] = 1 /\ taken[a]["master"] = Absent
  BY <1>1, Locals DEF CritOK, MasterOK
<1>3. /\ LocalType' /\ CritOK'
      /\ \A c \in Admin : taken'[c]["master"] = Absent
  BY <1>1, <1>2, GoParts DEF LocalType
<1>4. TypeOK'
  BY <1>1, <1>3, Items DEF TypeOK, LocalType
<1>5. MasterOK'
  BY <1>1 DEF MasterOK, ErasedStaysErased
<1>6. TakenOK' /\ NameOK'
  BY <1>1 DEF TakenOK, Copied, NameOK
<1> QED
  BY <1>3, <1>4, <1>5, <1>6

\* tar reads one more item.
LEMMA BackupItemStep ==
  ASSUME IndInv, NEW a \in Admin, BackupItem(a)
  PROVE  IndInv'
<1> USE DEF IndInv
<1>1. /\ pc[a] = "item" /\ op[a] = "backup" /\ mutex = a
      /\ UNCHANGED <<live, backups, staging, staged, sessions, request, chosen, requests, stamp,
                     crashes, erased>>
  BY DEF BackupItem, disk, web, CritOK
<1>2. LocalType /\ step[a] \in 1 .. 4 /\ archived[step[a]] \in Item /\ archived[step[a]] # "master"
  <2>1. LocalType /\ step[a] \in 1 .. 4
    BY <1>1, Locals DEF CritOK, LocalType
  <2> QED
    BY <2>1, Items
<1>3. CASE Leave(a)
  <2>1. /\ LocalType' /\ CritOK' /\ mutex' = NoOne /\ crossed' = {}
        /\ \A c \in Admin : taken'[c]["master"] = Absent
        /\ \A c \in Admin : op'[c] = "backup" =>
             /\ c # a /\ op[c] = "backup" /\ pc[c] = "wait" /\ id'[c] = id[c]
             /\ step'[c] = step[c] /\ taken'[c] = taken[c]
    BY <1>1, <1>3, LeaveParts
  <2>2. TypeOK'
    BY <1>1, <2>1, Items DEF TypeOK, LocalType
  <2>3. MasterOK'
    BY <1>1, <2>1, MasterFrame DEF MasterOK
  <2>4. TakenOK' /\ NameOK'
    BY <1>1, <2>1, TakenFrame, NameFrame
  <2> QED
    BY <2>1, <2>2, <2>3, <2>4
<1>4. CASE ~ Leave(a)
  <2> DEFINE i == archived[step[a]]
             l == IF step[a] = 4 THEN "publish" ELSE "item"
  <2>1. /\ taken' = [taken EXCEPT ![a][i] = live[i]]
        /\ step' = [step EXCEPT ![a] = @ + 1]
        /\ Goto(a, l) /\ UNCHANGED <<mutex, op, id, crossed>>
    BY <1>4, Items DEF BackupItem
  <2>2. live[i] \in Content
    BY <1>2 DEF TypeOK
  <2>3. /\ step' \in [Admin -> 1 .. 6] /\ step'[a] = step[a] + 1
        /\ \A c \in Admin : c # a => step'[c] = step[c]
    BY <1>2, <2>1 DEF LocalType
  <2>4. /\ taken' \in [Admin -> [Item -> Content]]
        /\ \A k \in Item : taken'[a][k] = IF k = i THEN live[i] ELSE taken[a][k]
        /\ \A c \in Admin : c # a => taken'[c] = taken[c]
    BY <1>2, <2>1, <2>2 DEF LocalType
  <2>5. taken'[a]["master"] = Absent
    BY <1>2, <2>4, Items DEF MasterOK
  <2>6. /\ LocalType' /\ CritOK'
        /\ \A c \in Admin : taken'[c]["master"] = Absent
    <3>1. /\ l \in {"item", "rename", "publish", "cleanup"}
          /\ l = "item" => step'[a] <= 4
          /\ l = "publish" => step'[a] = 5
          /\ l # "rename" /\ l # "cleanup"
      BY <1>2, <2>3
    <3> HIDE DEF l, i
    <3> QED
      BY <1>1, <2>1, <2>3, <2>4, <2>5, <3>1, GoParts
  <2>7. TypeOK'
    BY <1>1, <2>1, <2>6, Items DEF TypeOK, LocalType
  <2>8. MasterOK'
    BY <1>1, <2>6, MasterFrame DEF MasterOK
  <2>9. TakenOK'
    <3> SUFFICES ASSUME NEW c \in Admin, op[c] = "backup", NEW k \in Item
                 PROVE  /\ ~ Copied(c, k)' => taken'[c][k] = Absent
                        /\ Copied(c, k)' /\ k \notin crossed => taken'[c][k] = live[k]
      BY <1>1, <2>1 DEF TakenOK
    <3>1. /\ ~ Copied(c, k) => taken[c][k] = Absent
          /\ Copied(c, k) /\ k \notin crossed => taken[c][k] = live[k]
      BY DEF TakenOK
    <3>2. CASE c # a
      BY <2>3, <2>4, <3>1, <3>2 DEF Copied
    <3>3. CASE c = a
      <4>1. Copied(a, k)' <=> Copied(a, k) \/ k = i
        BY <1>2, <2>3 DEF Copied
      <4> QED
        BY <2>4, <3>1, <3>3, <4>1
    <3> QED
      BY <3>2, <3>3
  <2>10. NameOK'
    BY <1>1, <2>1 DEF NameOK
  <2> QED
    BY <2>6, <2>7, <2>8, <2>9, <2>10
<1> QED
  BY <1>3, <1>4

\* The archive gets its name.
LEMMA BackupPublishStep ==
  ASSUME IndInv, NEW a \in Admin, BackupPublish(a)
  PROVE  IndInv'
<1> USE DEF IndInv
<1>1. /\ pc[a] = "publish" /\ op[a] = "backup" /\ mutex = a /\ Leave(a)
      /\ UNCHANGED <<live, staging, staged, sessions, request, chosen, requests, stamp, crashes,
                     erased>>
  BY DEF BackupPublish, CritOK, web
<1>2. LocalType /\ id[a] \in Archive
  BY Locals DEF LocalType
<1>3. backups' = backups \/ backups' = [backups EXCEPT ![id[a]] = taken[a]]
  BY DEF BackupPublish
<1>4. /\ LocalType' /\ CritOK' /\ mutex' = NoOne /\ crossed' = {}
      /\ \A c \in Admin : taken'[c]["master"] = Absent
      /\ \A c \in Admin : op'[c] = "backup" =>
           /\ c # a /\ op[c] = "backup" /\ pc[c] = "wait" /\ id'[c] = id[c]
           /\ step'[c] = step[c] /\ taken'[c] = taken[c]
  BY <1>1, LeaveParts
<1>5. \A b \in Archive : backups'[b] = backups[b] \/ (b = id[a] /\ backups'[b] = taken[a])
  BY <1>3 DEF TypeOK
<1>6. TypeOK'
  <2>1. backups' \in [Archive -> [Item -> Content]]
    BY <1>2, <1>3 DEF TypeOK, LocalType
  <2> QED
    BY <1>1, <1>4, <2>1, Items DEF TypeOK, LocalType
<1>7. MasterOK'
  BY <1>1, <1>4, <1>5, MasterFrame DEF MasterOK
<1>8. TakenOK'
  BY <1>1, <1>4, TakenFrame
<1>9. NameOK'
  <2>1. \A c \in Admin : op'[c] = "backup" => id[c] # id[a] /\ id[c] \in Archive
    BY <1>1, <1>2, <1>4 DEF NameOK, LocalType
  <2> QED
    BY <1>4, <1>5, <2>1, NameFrame
<1> QED
  BY <1>4, <1>6, <1>7, <1>8, <1>9

\* The archive is unpacked, or is gone.
LEMMA RestoreExtractStep ==
  ASSUME IndInv, NEW a \in Admin, RestoreExtract(a)
  PROVE  IndInv'
<1> USE DEF IndInv
<1> DEFINE l == IF backups[id[a]] = Nothing THEN "cleanup" ELSE "item"
<1>1. /\ pc[a] = "wait" /\ op[a] = "restore" /\ mutex = NoOne /\ mutex' = a
      /\ staging' = [staging EXCEPT ![id[a]] = backups[id[a]]] /\ Goto(a, l)
      /\ UNCHANGED <<live, backups, staged, op, id, step, taken, sessions, request, chosen,
                     requests, stamp, crashes, erased, crossed>>
  BY DEF RestoreExtract, web
<1>2. LocalType /\ id[a] \in Archive /\ step[a] = 1 /\ taken[a]["master"] = Absent
  BY <1>1, Locals DEF CritOK, MasterOK, LocalType
<1>3. LocalType' /\ CritOK'
  <2>1. l \in {"item", "rename", "publish", "cleanup"} /\ l # "rename" /\ l # "publish"
    OBVIOUS
  <2> HIDE DEF l
  <2> QED
    BY <1>1, <1>2, <2>1, GoParts DEF LocalType
<1>4. TypeOK'
  BY <1>1, <1>2, <1>3, Items DEF TypeOK, LocalType
<1>5. \A b \in Archive : staging'[b]["master"] = Absent
  BY <1>1, <1>2 DEF TypeOK, MasterOK
<1>6. MasterOK'
  BY <1>1, <1>5, MasterFrame DEF MasterOK
<1>7. TakenOK' /\ NameOK'
  BY <1>1 DEF TakenOK, Copied, NameOK
<1> QED
  BY <1>3, <1>4, <1>6, <1>7

\* Restore removes a live item.
LEMMA RestoreRemoveStep ==
  ASSUME IndInv, NEW a \in Admin, RestoreRemove(a)
  PROVE  IndInv'
<1> USE DEF IndInv
<1>1. /\ pc[a] = "item" /\ op[a] = "restore" /\ mutex = a
      /\ UNCHANGED <<backups, staging, staged, mutex, op, id, step, taken, sessions, request,
                     chosen, requests, stamp, crashes, erased, crossed>>
  BY DEF RestoreRemove, CritOK, web
<1>2. LocalType /\ step[a] \in 1 .. 5 /\ items[step[a]] \in Item /\ taken[a]["master"] = Absent
  <2>1. LocalType /\ step[a] \in 1 .. 5 /\ taken[a]["master"] = Absent
    BY <1>1, Locals DEF CritOK, MasterOK, LocalType
  <2> QED
    BY <2>1, Items
<1>3. PICK l \in {"rename", "cleanup"} : Goto(a, l)
  BY DEF RestoreRemove
<1>4. live' = live \/ live' = [live EXCEPT ![items[step[a]]] = Absent]
  BY DEF RestoreRemove
<1>5. /\ LocalType' /\ CritOK'
      /\ \A c \in Admin : taken'[c]["master"] = Absent
      /\ \A c \in Admin : c # a /\ op[c] = "backup" => pc[c] = "wait"
  BY <1>1, <1>2, <1>3, GoParts DEF LocalType
<1>6. Absent \in Content
  BY MaintenanceAssumption DEF Absent, Content
<1>7. TypeOK'
  <2>1. live' \in [Item -> Content]
    BY <1>2, <1>4, <1>6 DEF TypeOK
  <2> QED
    BY <1>1, <1>5, <2>1, Items DEF TypeOK, LocalType
<1>8. live'["master"] \in {live["master"], Absent}
  BY <1>4, Items DEF TypeOK
<1>9. MasterOK'
  BY <1>1, <1>5, <1>8, MasterGone DEF MasterOK
<1>10. TakenOK' /\ NameOK'
  BY <1>1, <1>5, SameCrossing, TakenFrame, NameFrame
<1> QED
  BY <1>5, <1>7, <1>9, <1>10

\* Restore moves the staged item into place; there is never a staged device
\* key to move.
LEMMA RestoreRenameStep ==
  ASSUME IndInv, NEW a \in Admin, RestoreRename(a)
  PROVE  IndInv'
<1> USE DEF IndInv
<1>1. /\ pc[a] = "rename" /\ op[a] = "restore" /\ mutex = a
      /\ UNCHANGED <<backups, staged, mutex, op, id, taken, sessions, request, chosen, requests,
                     stamp, crashes, erased, crossed>>
  BY DEF RestoreRename, CritOK, web
<1>2. LocalType /\ step[a] \in 1 .. 5 /\ items[step[a]] \in Item /\ taken[a]["master"] = Absent
      /\ id[a] \in Archive
  <2>1. LocalType /\ step[a] \in 1 .. 5 /\ taken[a]["master"] = Absent /\ id[a] \in Archive
    BY <1>1, Locals DEF CritOK, MasterOK, LocalType
  <2> QED
    BY <2>1, Items
<1> DEFINE i == items[step[a]]
           b == id[a]
<1>3. \/ /\ staging[b][i] # Absent
         /\ live' = [live EXCEPT ![i] = staging[b][i]]
         /\ staging' = [staging EXCEPT ![b][i] = Absent]
         /\ step' = [step EXCEPT ![a] = @ + 1]
         /\ Goto(a, IF step[a] = 5 THEN "cleanup" ELSE "item")
      \/ Goto(a, "cleanup") /\ UNCHANGED <<live, staging, step>>
  BY Items DEF RestoreRename
<1>4. PICK l \in {"item", "cleanup"} : Goto(a, l) /\ (l = "item" => step'[a] <= 5)
  BY <1>2, <1>3 DEF LocalType
<1>5. /\ step' \in [Admin -> 1 .. 6]
      /\ \A c \in Admin : c # a => step'[c] = step[c]
  BY <1>2, <1>3 DEF LocalType
<1>6. /\ LocalType' /\ CritOK'
      /\ \A c \in Admin : taken'[c]["master"] = Absent
      /\ \A c \in Admin : c # a /\ op[c] = "backup" => pc[c] = "wait"
  BY <1>1, <1>2, <1>4, <1>5, GoParts DEF LocalType
<1>7. Absent \in Content
  BY MaintenanceAssumption DEF Absent, Content
<1>8. live' \in [Item -> Content] /\ staging' \in [Archive -> [Item -> Content]]
  <2>1. /\ live \in [Item -> Content] /\ staging \in [Archive -> [Item -> Content]]
        /\ i \in Item /\ b \in Archive
    BY <1>2 DEF TypeOK
  <2> HIDE DEF i, b
  <2>2. staging[b][i] \in Content
    BY <2>1
  <2>3. [staging EXCEPT ![b][i] = Absent] \in [Archive -> [Item -> Content]]
    BY <1>7, <2>1
  <2>4. [live EXCEPT ![i] = staging[b][i]] \in [Item -> Content]
    BY <2>1, <2>2
  <2> QED
    BY <1>3, <2>1, <2>3, <2>4
<1>9. TypeOK'
  BY <1>1, <1>6, <1>8, Items DEF TypeOK, LocalType
<1>10. \A c \in Archive : staging'[c]["master"] = Absent
  <2>1. "master" \in Item /\ i \in Item /\ b \in Archive
    BY <1>2, Items
  <2>2. staging' = staging \/ staging' = [staging EXCEPT ![b][i] = Absent]
    BY <1>3
  <2>3. staging \in [Archive -> [Item -> Content]] /\ \A c \in Archive : staging[c]["master"] = Absent
    BY DEF TypeOK, MasterOK
  <2> HIDE DEF i, b
  <2> QED
    BY <2>1, <2>2, <2>3
<1>11. live'["master"] = live["master"]
  <2>1. CASE i = "master"
    BY <1>2, <1>3, <2>1 DEF MasterOK
  <2>2. CASE i # "master"
    BY <1>2, <1>3, <2>2, Items DEF TypeOK
  <2> QED
    BY <2>1, <2>2
<1>12. MasterOK'
  BY <1>1, <1>6, <1>10, <1>11, MasterFrame DEF MasterOK
<1>13. \A c \in Admin : op'[c] = "backup" => c # a
  BY <1>1
<1>14. TakenOK' /\ NameOK'
  BY <1>1, <1>5, <1>6, <1>13, SameCrossing, TakenFrame, NameFrame
<1> QED
  BY <1>6, <1>9, <1>12, <1>14

\* The staging directory is removed.
LEMMA RestoreCleanupStep ==
  ASSUME IndInv, NEW a \in Admin, RestoreCleanup(a)
  PROVE  IndInv'
<1> USE DEF IndInv
<1>1. /\ pc[a] = "cleanup" /\ mutex = a /\ Leave(a)
      /\ staging' \in {staging, [staging EXCEPT ![id[a]] = Nothing]}
      /\ staged' \in {staged, staged \ {id[a]}}
      /\ UNCHANGED <<live, backups, sessions, request, chosen, requests, stamp, crashes, erased>>
  BY DEF RestoreCleanup, CritOK, web
<1>2. /\ LocalType' /\ CritOK' /\ mutex' = NoOne /\ crossed' = {}
      /\ \A c \in Admin : taken'[c]["master"] = Absent
      /\ \A c \in Admin : op'[c] = "backup" =>
           /\ c # a /\ op[c] = "backup" /\ pc[c] = "wait" /\ id'[c] = id[c]
           /\ step'[c] = step[c] /\ taken'[c] = taken[c]
  BY <1>1, LeaveParts
<1>3. TypeOK'
  <2>1. staging' \in [Archive -> [Item -> Content]]
    BY <1>1, NothingType DEF TypeOK
  <2>2. staged' \in SUBSET Archive
    BY <1>1 DEF TypeOK
  <2> QED
    BY <1>1, <1>2, <2>1, <2>2, Items DEF TypeOK, LocalType
<1>4. \A c \in Archive : staging'[c]["master"] = Absent
  <2>1. \A c \in Archive : staging'[c] \in {staging[c], Nothing}
    BY <1>1 DEF TypeOK
  <2> QED
    BY <2>1, NothingType, Items DEF MasterOK
<1>5. MasterOK'
  BY <1>1, <1>2, <1>4, MasterFrame DEF MasterOK
<1>6. TakenOK' /\ NameOK'
  BY <1>1, <1>2, TakenFrame, NameFrame
<1> QED
  BY <1>2, <1>3, <1>5, <1>6

\* Reset removes an item; the device key joins the erased ones.
LEMMA ResetItemStep ==
  ASSUME IndInv, NEW a \in Admin, ResetItem(a)
  PROVE  IndInv'
<1> USE DEF IndInv
<1>1. /\ pc[a] = "item" /\ op[a] = "reset" /\ mutex = a
      /\ UNCHANGED <<backups, staging, staged, sessions, request, chosen, requests, crashes>>
  BY DEF ResetItem, CritOK, web
<1>2. LocalType /\ step[a] \in 1 .. 5 /\ items[step[a]] \in Item /\ taken[a]["master"] = Absent
  <2>1. LocalType /\ step[a] \in 1 .. 5 /\ taken[a]["master"] = Absent
    BY <1>1, Locals DEF CritOK, MasterOK, LocalType
  <2> QED
    BY <2>1, Items
<1>3. Absent \in Content /\ NewStamp \in Content /\ stamp \in Nat
  BY MaintenanceAssumption DEF Absent, Content, NewStamp, TypeOK
<1>4. CASE step[a] < 5 /\ ~ Leave(a)
  <2>1. /\ erased' = IF items[step[a]] = "master" THEN erased \cup {live["master"]} ELSE erased
        /\ live' = [live EXCEPT ![items[step[a]]] = Absent]
        /\ step' = [step EXCEPT ![a] = @ + 1]
        /\ UNCHANGED <<mutex, pc, op, id, taken, stamp, crossed>>
    BY <1>4, Items DEF ResetItem
  <2>2. /\ step' \in [Admin -> 1 .. 6] /\ step'[a] = step[a] + 1
        /\ \A c \in Admin : c # a => step'[c] = step[c]
    BY <1>2, <2>1 DEF LocalType
  <2>3. CritOK'
    BY <1>1, <1>2, <1>4, <2>1, <2>2 DEF CritOK
  <2>4. TypeOK'
    <3>1. live' \in [Item -> Content]
      BY <1>2, <1>3, <2>1 DEF TypeOK
    <3>2. erased' \in SUBSET Content
      BY <2>1, Items DEF TypeOK
    <3> QED
      BY <1>1, <2>1, <2>2, <3>1, <3>2, Items DEF TypeOK
  <2>5. MasterOK'
    <3>1. CASE items[step[a]] = "master"
      <4>1. live'["master"] = Absent /\ erased' = erased \cup {live["master"]}
        BY <2>1, <3>1, Items DEF TypeOK
      <4> QED
        BY <1>1, <1>3, <2>1, <4>1 DEF MasterOK, ErasedStaysErased, Absent
    <3>2. CASE items[step[a]] # "master"
      <4>1. live'["master"] = live["master"] /\ erased' = erased
        BY <1>2, <2>1, <3>2, Items DEF TypeOK
      <4> QED
        BY <1>1, <2>1, <4>1, MasterFrame DEF MasterOK
    <3> QED
      BY <3>1, <3>2
  <2>6. \A c \in Admin : c # a /\ op[c] = "backup" => pc[c] = "wait"
    BY <1>1, OthersWait
  <2>7. TakenOK'
    BY <1>1, <2>1, <2>2, <2>6, SameCrossing, TakenFrame
  <2>8. NameOK'
    BY <1>1, <2>1 DEF NameOK
  <2> QED
    BY <2>3, <2>4, <2>5, <2>7, <2>8
<1>5. CASE Leave(a)
  <2>1. /\ LocalType' /\ CritOK' /\ mutex' = NoOne /\ crossed' = {}
        /\ \A c \in Admin : taken'[c]["master"] = Absent
        /\ \A c \in Admin : op'[c] = "backup" =>
             /\ c # a /\ op[c] = "backup" /\ pc[c] = "wait" /\ id'[c] = id[c]
             /\ step'[c] = step[c] /\ taken'[c] = taken[c]
    BY <1>1, <1>5, LeaveParts
  <2>2. op'[a] = "none"
    BY <1>2, <1>5 DEF Leave, LocalType
  <2>3. \/ UNCHANGED <<live, stamp, erased>>
        \/ /\ step[a] = 5 /\ stamp' = NewStamp
           /\ \E k, f \in {NewStamp, Absent} :
                live' = [live EXCEPT ![items[step[a]]] = Absent, !["keys"] = k, !["files"] = f]
           /\ erased' = IF items[step[a]] = "master" THEN erased \cup {live["master"]} ELSE erased
    BY <1>1, <1>2, <2>2, Items DEF ResetItem, ensure_storage_tree
  <2>4. /\ live' \in [Item -> Content] /\ stamp' \in {stamp, NewStamp} /\ erased' = erased
        /\ live'["master"] = live["master"]
    <3>1. step[a] = 5 => items[step[a]] # "master"
      BY Items
    <3> QED
      BY <1>2, <1>3, <2>3, <3>1, Items DEF TypeOK
  <2>5. TypeOK'
    BY <1>1, <1>3, <2>1, <2>4, Items DEF TypeOK, LocalType
  <2>6. MasterOK'
    BY <1>1, <2>1, <2>4, MasterGone DEF MasterOK
  <2>7. \A c \in Admin : op[c] = "backup" => pc[c] = "wait"
    BY <1>1, OthersWait
  <2>8. TakenOK' /\ NameOK'
    BY <1>1, <2>1, <2>7, TakenFrame, NameFrame
  <2> QED
    BY <2>1, <2>5, <2>6, <2>8
<1> QED
  <2>1. Leave(a) \/ step[a] < 5
    BY Items DEF ResetItem
  <2> QED
    BY <1>4, <1>5, <2>1

\* The process is killed.
LEMMA CrashStep ==
  ASSUME IndInv, Crash
  PROVE  IndInv'
<1> USE DEF IndInv
<1>1. /\ UNCHANGED <<live, backups, staging, staged, id, request, chosen, requests, stamp, erased>>
      /\ mutex' = NoOne /\ crossed' = {}
      /\ pc' = [a \in Admin |-> "idle"] /\ op' = [a \in Admin |-> "none"]
      /\ step' = [a \in Admin |-> 1] /\ taken' = [a \in Admin |-> Nothing]
      /\ sessions' = 0 /\ crashes' \in 0 .. MaxCrashes
  BY MaintenanceAssumption DEF Crash, disk, web, TypeOK
<1>2. TypeOK'
  <2>1. step' \in [Admin -> 1 .. Len(items) + 1] /\ sessions' \in 0 .. MaxSessions
    BY <1>1, Items, MaintenanceAssumption
  <2> QED
    BY <1>1, <2>1, NothingType DEF TypeOK, PC, Op
<1>3. CritOK' /\ TakenOK' /\ NameOK'
  BY <1>1 DEF CritOK, TakenOK, NameOK
<1>4. \A a \in Admin : taken'[a]["master"] = Absent
  BY <1>1, NothingType, Items
<1>5. MasterOK'
  BY <1>1, <1>4, MasterFrame DEF MasterOK
<1> QED
  BY <1>2, <1>3, <1>5

(***************************************************************************)
(* The theorems                                                            *)
(***************************************************************************)

\* Every step keeps the invariant.
LEMMA NextInv == IndInv /\ [Next]_vars => IndInv'
<1> SUFFICES ASSUME IndInv, [Next]_vars PROVE IndInv'
  OBVIOUS
<1>1. CASE UNCHANGED vars
  <2>1. UNCHANGED <<live, backups, staging, staged, mutex, pc, op, id, step, taken, sessions,
                    request, chosen, requests, stamp, crashes, erased, crossed>>
    BY <1>1 DEF vars, disk, local, web
  <2>2. TypeOK' /\ CritOK'
    BY <2>1 DEF IndInv, TypeOK, CritOK
  <2>3. MasterOK' /\ TakenOK' /\ NameOK'
    BY <2>1 DEF IndInv, MasterOK, ErasedStaysErased, TakenOK, Copied, NameOK
  <2> QED
    BY <2>2, <2>3 DEF IndInv
<1>2. ASSUME NEW a \in Admin, AdminStep(a) PROVE IndInv'
  <2>1. CASE ResetBegin(a)
    BY <2>1, BeginStep, MaintenanceAssumption
  <2> QED
    BY <1>2, <2>1, BeginStep, AcquireStep, BackupItemStep, BackupPublishStep, RestoreExtractStep,
       RestoreRemoveStep, RestoreRenameStep, RestoreCleanupStep, ResetItemStep DEF AdminStep
<1> QED
  BY <1>1, <1>2, DeviceStep, RequestStep, WriteStep, CrashStep DEF Next

\* The invariant holds in every reachable state.
LEMMA Always == Spec => []IndInv
  BY InitInv, NextInv, PTL DEF Spec

\* Type correctness, with the positions of all commands in their item lists.
THEOREM TypeCorrect == Spec => []TypeOK
<1>1. IndInv => TypeOK
  BY DEF IndInv
<1> QED
  BY <1>1, Always, PTL

\* What a backup publishes is what stands on the device at that moment, except
\* accounts and device information that a request wrote meanwhile.
THEOREM ArchivesAreWhole == Spec => []ArchiveIsSnapshot
<1>1. IndInv => ArchiveIsSnapshot
  <2> SUFFICES ASSUME IndInv, NEW a \in Admin, pc[a] = "publish"
               PROVE  /\ crossed \subseteq {"web", "device-info.bin"}
                      /\ \A i \in Item \ crossed :
                           taken[a][i] = IF i = "master" THEN Absent ELSE live[i]
    BY DEF ArchiveIsSnapshot
  <2>1. step[a] = 5 /\ op[a] = "backup" /\ taken[a]["master"] = Absent
    BY DEF IndInv, CritOK, MasterOK
  <2>2. /\ crossed \subseteq {"web", "device-info.bin"}
        /\ \A i \in Item : Copied(a, i) /\ i \notin crossed => taken[a][i] = live[i]
    BY <2>1 DEF IndInv, TakenOK
  <2>3. \A i \in Item : i # "master" => Copied(a, i)
    BY <2>1, Items DEF Copied
  <2> QED
    BY <2>1, <2>2, <2>3
<1> QED
  BY <1>1, Always, PTL

\* A device key that a reset removed is gone for good.
THEOREM ErasedForGood == Spec => []ErasedStaysErased
<1>1. IndInv => ErasedStaysErased
  BY DEF IndInv, MasterOK
<1> QED
  BY <1>1, Always, PTL

(***************************************************************************)
(* Restoring                                                               *)
(***************************************************************************)

Restoring(a) == op[a] = "restore" /\ pc[a] \in {"item", "rename"}

\* A restore never gets past the device key, which no archive holds; the items
\* before it are in place, unless a request wrote them since, or staged.
RestoreInv ==
  \A a \in Admin : Restoring(a) =>
    /\ step[a] <= 4
    /\ backups[id[a]] # Nothing =>
         \A k \in 1 .. 5 :
           /\ k < step[a] /\ items[k] \notin crossed => live[items[k]] = backups[id[a]][items[k]]
           /\ k >= step[a] => staging[id[a]][items[k]] = backups[id[a]][items[k]]

\* Steps that no restore in progress notices: they change the device key or
\* write an item for a request, or delete the archive.
LEMMA RestoreFrame ==
  ASSUME IndInv, RestoreInv,
         \A a \in Admin : Restoring(a)' =>
           /\ Restoring(a) /\ id'[a] = id[a] /\ step'[a] = step[a]
           /\ staging'[id[a]] = staging[id[a]]
           /\ backups'[id[a]] \in {backups[id[a]], Nothing}
           /\ crossed \subseteq crossed'
           /\ \A i \in Item : i # "master" /\ i \notin crossed' => live'[i] = live[i]
  PROVE  RestoreInv'
<1> SUFFICES ASSUME NEW a \in Admin, Restoring(a)'
             PROVE  /\ step'[a] <= 4
                    /\ backups'[id'[a]] # Nothing =>
                         \A k \in 1 .. 5 :
                           /\ k < step'[a] /\ items[k] \notin crossed' =>
                                live'[items[k]] = backups'[id'[a]][items[k]]
                           /\ k >= step'[a] => staging'[id'[a]][items[k]] = backups'[id'[a]][items[k]]
  BY DEF RestoreInv, Nothing
<1>1. /\ Restoring(a) /\ id'[a] = id[a] /\ step'[a] = step[a] /\ staging'[id[a]] = staging[id[a]]
      /\ backups'[id[a]] \in {backups[id[a]], Nothing}
      /\ crossed \subseteq crossed'
      /\ \A i \in Item : i # "master" /\ i \notin crossed' => live'[i] = live[i]
  OBVIOUS
<1>2. step[a] \in 1 .. 4
  BY <1>1, Locals DEF IndInv, RestoreInv, LocalType
<1>3. \A k \in 1 .. 5 : k < step[a] /\ items[k] \notin crossed' => live'[items[k]] = live[items[k]]
  BY <1>1, <1>2, Items
<1> QED
  BY <1>1, <1>2, <1>3 DEF RestoreInv

\* While one thread has the mutex nobody else is restoring.
LEMMA OneRestore ==
  ASSUME IndInv, NEW a \in Admin, mutex \in {a, NoOne}, NEW c \in Admin, c # a
  PROVE  ~ Restoring(c)
BY MaintenanceAssumption DEF IndInv, CritOK, Restoring

\* A thread that does not restore takes a step of its own.
LEMMA OtherThread ==
  ASSUME IndInv, RestoreInv, NEW a \in Admin, ~ Restoring(a)', mutex \in {a, NoOne},
         \A c \in Admin : c # a => pc'[c] = pc[c] /\ op'[c] = op[c]
  PROVE  RestoreInv'
<1>1. \A c \in Admin : ~ Restoring(c)'
  BY OneRestore DEF Restoring
<1> QED
  BY <1>1, RestoreFrame

\* tar has unpacked the archive: everything is staged.
LEMMA ExtractRestore ==
  ASSUME IndInv, RestoreInv, NEW a \in Admin, RestoreExtract(a)
  PROVE  RestoreInv'
<1>t. /\ pc \in [Admin -> PC] /\ staging \in [Archive -> [Item -> Content]]
      /\ id[a] \in Archive /\ step[a] = 1 /\ mutex = NoOne
  BY DEF IndInv, TypeOK, CritOK, RestoreExtract
<1>1. /\ staging' = [staging EXCEPT ![id[a]] = backups[id[a]]]
      /\ pc' = [pc EXCEPT ![a] = IF backups[id[a]] = Nothing THEN "cleanup" ELSE "item"]
      /\ UNCHANGED <<live, backups, op, id, step>>
  BY DEF RestoreExtract, Goto
<1>2. \A c \in Admin : c # a => ~ Restoring(c)'
  BY <1>t, <1>1, OneRestore DEF Restoring
<1>3. staging'[id[a]] = backups[id[a]]
  BY <1>t, <1>1
<1> QED
  BY <1>t, <1>1, <1>2, <1>3 DEF RestoreInv, Nothing

\* The live item is removed, its staged copy still there.
LEMMA RemoveRestore ==
  ASSUME IndInv, RestoreInv, NEW a \in Admin, RestoreRemove(a)
  PROVE  RestoreInv'
<1>t. /\ pc \in [Admin -> PC] /\ live \in [Item -> Content] /\ mutex = a /\ Restoring(a)
  BY DEF IndInv, TypeOK, CritOK, RestoreRemove, Restoring
<1>s. step[a] \in 1 .. 4
  BY <1>t, Locals DEF RestoreInv, IndInv, LocalType
<1>1. /\ live' \in {live, [live EXCEPT ![items[step[a]]] = Absent]}
      /\ UNCHANGED <<backups, staging, op, id, step, crossed>>
      /\ \E l \in {"rename", "cleanup"} : pc' = [pc EXCEPT ![a] = l]
  BY DEF RestoreRemove, Goto
<1>2. \A c \in Admin : c # a => ~ Restoring(c)'
  BY <1>t, <1>1, OneRestore DEF Restoring
<1>3. \A k \in 1 .. 5 : k < step[a] => live'[items[k]] = live[items[k]]
  BY <1>t, <1>s, <1>1, Items
<1> QED
  BY <1>t, <1>s, <1>1, <1>2, <1>3 DEF RestoreInv, Nothing

\* The staged item takes its place; for the device key there is none.
LEMMA RenameRestore ==
  ASSUME IndInv, RestoreInv, NEW a \in Admin, RestoreRename(a)
  PROVE  RestoreInv'
<1>t. /\ pc \in [Admin -> PC] /\ live \in [Item -> Content] /\ mutex = a /\ Restoring(a)
      /\ staging \in [Archive -> [Item -> Content]] /\ id[a] \in Archive
      /\ step \in [Admin -> 1 .. 6]
  BY Items DEF IndInv, TypeOK, CritOK, RestoreRename, Restoring
<1>s. step[a] \in 1 .. 4 /\ items[step[a]] \in Item
  BY <1>t, Items DEF RestoreInv
<1>1. UNCHANGED <<backups, op, id, crossed>>
  BY DEF RestoreRename
<1>2. CASE Goto(a, "cleanup") /\ UNCHANGED <<live, staging, step>>
  <2>1. ~ Restoring(a)' /\ \A c \in Admin : c # a => pc'[c] = pc[c] /\ op'[c] = op[c]
    BY <1>t, <1>1, <1>2 DEF Goto, Restoring
  <2> QED
    BY <1>t, <2>1, OtherThread
<1>3. CASE /\ staging[id[a]][items[step[a]]] # Absent
           /\ live' = [live EXCEPT ![items[step[a]]] = staging[id[a]][items[step[a]]]]
           /\ staging' = [staging EXCEPT ![id[a]][items[step[a]]] = Absent]
           /\ step' = [step EXCEPT ![a] = @ + 1]
           /\ Goto(a, IF step[a] = Len(items) THEN "cleanup" ELSE "item")
  <2>1. items[step[a]] # "master"
    BY <1>t, <1>3 DEF IndInv, MasterOK
  <2>2. step[a] \in 1 .. 3 /\ step'[a] = step[a] + 1
    BY <1>t, <1>s, <1>3, <2>1, Items
  <2>3. \A c \in Admin : c # a => ~ Restoring(c)'
    BY <1>t, <1>1, <1>3, OneRestore DEF Restoring, Goto
  <2>4. /\ live'[items[step[a]]] = staging[id[a]][items[step[a]]]
        /\ \A k \in 1 .. 5 : k < step[a] => live'[items[k]] = live[items[k]]
    BY <1>t, <1>s, <1>3, Items
  <2>5. \A k \in 1 .. 5 : k > step[a] => staging'[id[a]][items[k]] = staging[id[a]][items[k]]
    BY <1>t, <1>s, <1>3, Items
  <2> SUFFICES ASSUME backups[id[a]] # Nothing, NEW k \in 1 .. 5
               PROVE  /\ k < step'[a] /\ items[k] \notin crossed =>
                           live'[items[k]] = backups[id[a]][items[k]]
                      /\ k >= step'[a] => staging'[id[a]][items[k]] = backups[id[a]][items[k]]
    BY <1>1, <2>2, <2>3 DEF RestoreInv, Nothing
  <2>6. /\ k < step[a] /\ items[k] \notin crossed => live[items[k]] = backups[id[a]][items[k]]
        /\ k >= step[a] => staging[id[a]][items[k]] = backups[id[a]][items[k]]
    BY <1>t DEF RestoreInv
  <2>7. k < step[a] \/ k = step[a] \/ k > step[a]
    BY <2>2
  <2> QED
    BY <2>2, <2>4, <2>5, <2>6, <2>7
<1> QED
  BY <1>2, <1>3 DEF RestoreRename

\* Every step keeps the restores faithful.
LEMMA NextRestore == IndInv /\ IndInv' /\ RestoreInv /\ [Next]_vars => RestoreInv'
<1> SUFFICES ASSUME IndInv, IndInv', RestoreInv, [Next]_vars PROVE RestoreInv'
  OBVIOUS
<1>t. LocalType /\ CritOK /\ live \in [Item -> Content] /\ backups \in [Archive -> [Item -> Content]]
  BY Locals DEF IndInv, TypeOK
<1>1. ASSUME UNCHANGED <<staging, backups, pc, op, id, step>>,
             \A a \in Admin : Restoring(a) =>
               /\ crossed \subseteq crossed'
               /\ \A i \in Item : i # "master" /\ i \notin crossed' => live'[i] = live[i]
      PROVE  RestoreInv'
  BY <1>1, RestoreFrame DEF Restoring
<1>2. CASE \/ UNCHANGED vars \/ OpenSession \/ CloseSession \/ EnsureDeviceKey
           \/ InitialiseBegin \/ IntegrityInit \/ ChangeBegin \/ RequestFails
  <2>1. UNCHANGED <<staging, backups, pc, op, id, step, crossed>>
    BY <1>2 DEF vars, disk, local, OpenSession, CloseSession, EnsureDeviceKey, InitialiseBegin,
       IntegrityInit, ChangeBegin, RequestFails
  <2>2. live' = live \/ live' = [live EXCEPT !["master"] = stamp + 1]
    BY <1>2 DEF vars, disk, OpenSession, CloseSession, EnsureDeviceKey, InitialiseBegin,
       IntegrityInit, ChangeBegin, RequestFails
  <2> QED
    BY <1>t, <1>1, <2>1, <2>2
<1>w. CASE ConfigureDevice \/ WriteAccounts
  <2>1. PICK i \in {"web", "device-info.bin"} : Writes(i)
    BY <1>w DEF ConfigureDevice, WriteAccounts
  <2>2. /\ live' = [live EXCEPT ![i] = chosen]
        /\ crossed' = IF mutex = NoOne THEN crossed ELSE crossed \cup {i}
        /\ UNCHANGED <<staging, backups, pc, op, id, step>>
    BY <2>1 DEF Writes, local
  <2>3. \A a \in Admin : Restoring(a) => mutex # NoOne
    BY <1>t, MaintenanceAssumption DEF CritOK, Restoring
  <2>4. \A k \in Item : k # i => live'[k] = live[k]
    BY <1>t, <2>2
  <2> QED
    BY <1>1, <2>2, <2>3, <2>4
<1>3. CASE Crash
  <2>1. \A a \in Admin : pc'[a] = "idle"
    BY <1>3 DEF Crash
  <2> QED
    BY <2>1, RestoreFrame DEF Restoring
<1>4. ASSUME NEW a \in Admin, NEW b \in Archive,
             BackupBegin(a, b) \/ RestoreBegin(a, b) \/ ResetBegin(a)
      PROVE  RestoreInv'
  <2>1. /\ UNCHANGED <<live, staging, backups, crossed>>
        /\ \E o, e : /\ pc' = [pc EXCEPT ![a] = "wait"] /\ op' = [op EXCEPT ![a] = o]
                     /\ id' = [id EXCEPT ![a] = e] /\ step' = [step EXCEPT ![a] = 1]
    BY <1>4 DEF BackupBegin, RestoreBegin, ResetBegin, Start, Goto, disk
  <2>2. \A c \in Admin : Restoring(c)' => c # a
    BY <1>t, <2>1 DEF Restoring, LocalType
  <2>3. \A c \in Admin : c # a => /\ pc'[c] = pc[c] /\ op'[c] = op[c]
                                  /\ id'[c] = id[c] /\ step'[c] = step[c]
    BY <1>t, <2>1 DEF LocalType
  <2> QED
    BY <2>1, <2>2, <2>3, RestoreFrame DEF Restoring
<1>5. ASSUME NEW a \in Admin, NEW b \in Archive, BackupDelete(a, b) PROVE RestoreInv'
  <2>1. /\ UNCHANGED <<live, staging, pc, op, id, step, crossed>>
        /\ backups' = [backups EXCEPT ![b] = Nothing]
    BY <1>5 DEF BackupDelete, local
  <2>2. \A c \in Admin : id[c] \in Archive /\ backups'[id[c]] \in {backups[id[c]], Nothing}
    BY <1>t, <2>1 DEF LocalType
  <2> QED
    BY <2>1, <2>2, RestoreFrame DEF Restoring
<1>6. ASSUME NEW a \in Admin,
             \/ Acquire(a) \/ BackupItem(a) \/ BackupPublish(a) \/ RestoreCleanup(a)
             \/ ResetItem(a)
      PROVE  RestoreInv'
  <2>1. mutex \in {a, NoOne}
    BY <1>6, <1>t DEF Acquire, BackupItem, BackupPublish, RestoreCleanup, ResetItem, CritOK
  <2>2. /\ \/ UNCHANGED pc \/ \E l \in PC : pc' = [pc EXCEPT ![a] = l]
        /\ op' \in {op, [op EXCEPT ![a] = "none"]}
    BY <1>6 DEF Acquire, BackupItem, BackupPublish, RestoreCleanup, ResetItem, Leave, Goto, PC
  <2>3. \A c \in Admin : c # a => pc'[c] = pc[c] /\ op'[c] = op[c]
    BY <1>t, <2>2 DEF LocalType
  <2>4. ~ Restoring(a)'
    <3>1. CASE RestoreCleanup(a)
      BY <1>t, <3>1 DEF RestoreCleanup, Leave, Goto, Restoring, LocalType
    <3>2. CASE ~ RestoreCleanup(a)
      <4>1. op[a] # "restore"
        BY <1>6, <1>t, <3>2 DEF Acquire, BackupItem, BackupPublish, ResetItem, CritOK
      <4> QED
        BY <1>t, <2>2, <4>1 DEF Restoring, LocalType
    <3> QED
      BY <3>1, <3>2
  <2> QED
    BY <2>1, <2>3, <2>4, OtherThread
<1>7. ASSUME NEW a \in Admin, AdminStep(a) PROVE RestoreInv'
  <2>1. CASE ResetBegin(a)
    BY <1>4, <2>1, MaintenanceAssumption
  <2> QED
    BY <1>4, <1>5, <1>6, <1>7, <2>1, ExtractRestore, RemoveRestore, RenameRestore DEF AdminStep
<1> QED
  BY <1>2, <1>w, <1>3, <1>7 DEF Next

\* Restores are faithful in every reachable state.
LEMMA Restores == Spec => []RestoreInv
<1>1. Init => RestoreInv
  BY DEF Init, RestoreInv, Restoring
<1> QED
  BY <1>1, NextRestore, Always, PTL DEF Spec

\* A restore puts back what its archive holds, whatever runs beside it, except
\* what a request under way writes again.
THEOREM RestoresAreFaithful == Spec => []RestoreIsFaithful
<1>1. IndInv /\ RestoreInv => RestoreIsFaithful
  <2> SUFFICES ASSUME IndInv, RestoreInv, NEW a \in Admin, Restoring(a),
                      backups[id[a]] # Nothing, NEW k \in 1 .. 5
               PROVE  IF k < step[a]
                      THEN items[k] \in crossed \/ live[items[k]] = backups[id[a]][items[k]]
                      ELSE staging[id[a]][items[k]] = backups[id[a]][items[k]]
    BY Items DEF RestoreIsFaithful, Restoring
  <2>1. step[a] \in 1 .. 6
    BY Locals DEF IndInv, LocalType
  <2>2. k < step[a] \/ k >= step[a]
    BY <2>1
  <2> QED
    BY <2>1, <2>2 DEF RestoreInv
<1> QED
  BY <1>1, Restores, Always, PTL

\* No restore gets as far as the last item, device-info.bin: the device key is
\* in the way, which no archive holds, and its rename fails.  So no restore
\* ever succeeds.
THEOREM DeviceInfoNeverRestored ==
  Spec => [](\A a \in Admin : Restoring(a) => items[step[a]] # "device-info.bin")
<1>1. IndInv /\ RestoreInv => \A a \in Admin : Restoring(a) => items[step[a]] # "device-info.bin"
  <2> SUFFICES ASSUME IndInv, RestoreInv, NEW a \in Admin, Restoring(a)
               PROVE  items[step[a]] # "device-info.bin"
    OBVIOUS
  <2>1. step[a] \in 1 .. 4
    BY Locals DEF IndInv, LocalType, RestoreInv
  <2>2. items[5] = "device-info.bin" /\ 5 \in 1 .. 5
    BY DEF items
  <2> QED
    BY <2>1, <2>2, Items
<1> QED
  BY <1>1, Restores, Always, PTL

\* Archives stay as published until they are deleted.
THEOREM ArchivesSurvive == Spec => OnlyDeleteRemovesBackups
<1> DEFINE Kept == \A b \in Archive : backups[b] # Nothing =>
                     \/ backups'[b] = backups[b]
                     \/ backups'[b] = Nothing /\ UNCHANGED <<live, pc>>
<1>1. IndInv /\ [Next]_vars => [Kept]_vars
  <2> SUFFICES ASSUME IndInv, Next PROVE Kept
    OBVIOUS
  <2>1. ASSUME backups' = backups PROVE Kept
    BY <2>1
  <2>2. ASSUME NEW a \in Admin, BackupPublish(a) PROVE Kept
    <3>1. op[a] = "backup" /\ id[a] \in Archive /\ backups[id[a]] = Nothing
      BY <2>2 DEF BackupPublish, IndInv, CritOK, NameOK, TypeOK
    <3>2. backups' = backups \/ backups' = [backups EXCEPT ![id[a]] = taken[a]]
      BY <2>2 DEF BackupPublish
    <3> QED
      BY <3>1, <3>2 DEF IndInv, TypeOK
  <2>3. ASSUME NEW a \in Admin, NEW b \in Archive, BackupDelete(a, b) PROVE Kept
    <3>1. backups' = [backups EXCEPT ![b] = Nothing] /\ UNCHANGED <<live, pc>>
      BY <2>3 DEF BackupDelete, local
    <3> QED
      BY <3>1 DEF IndInv, TypeOK
  <2>4. ASSUME NEW a \in Admin,
               \/ \E b \in Archive : BackupBegin(a, b) \/ RestoreBegin(a, b)
               \/ Acquire(a) \/ BackupItem(a) \/ RestoreExtract(a) \/ RestoreRemove(a)
               \/ RestoreRename(a) \/ RestoreCleanup(a) \/ ResetBegin(a) \/ ResetItem(a)
        PROVE  backups' = backups
    BY <2>4 DEF BackupBegin, RestoreBegin, Acquire, BackupItem, RestoreExtract, RestoreRemove,
         RestoreRename, RestoreCleanup, ResetBegin, ResetItem, disk
  <2>5. ASSUME \/ OpenSession \/ CloseSession \/ EnsureDeviceKey \/ InitialiseBegin
               \/ IntegrityInit \/ ChangeBegin \/ ConfigureDevice \/ WriteAccounts
               \/ RequestFails \/ Crash
        PROVE  backups' = backups
    BY <2>5 DEF OpenSession, CloseSession, EnsureDeviceKey, InitialiseBegin, IntegrityInit,
       ChangeBegin, ConfigureDevice, WriteAccounts, Writes, RequestFails, Crash, disk
  <2> HIDE DEF Kept
  <2> QED
    BY <2>1, <2>2, <2>3, <2>4, <2>5 DEF Next, AdminStep
<1> QED
  BY <1>1, Always, PTL DEF Spec, OnlyDeleteRemovesBackups
=============================================================================
