--------------------------- MODULE KeyStoreProofs ---------------------------
(***************************************************************************)
(* Proofs about KeyStore, for any number of indexes, administrators, users,*)
(* keys and crashes.  The invariant is IndInv: the mutex of a family is    *)
(* held between the halves of a command, and while a key is being moved    *)
(* both of its records are in place.                                       *)
(***************************************************************************)
EXTENDS KeyStore, TLAPS

USE DEF WriteRecord

Jobs == [at : SomePlace, to : SomePlace, enable : BOOLEAN]

\* What the commands put into job is a job.
LEMMA JobType ==
  ASSUME NEW p \in SomePlace, NEW q \in SomePlace, NEW e \in BOOLEAN
  PROVE  /\ Job(p, q, e) \in Jobs
         /\ Job(p, q, e).at = p
         /\ Job(p, q, e).to = q
         /\ NoJob \in Jobs
BY DEF Job, Jobs, NoJob, SomePlace

\* The initial state, in which there is no key and no command.
LEMMA InitInv == Init => IndInv
<1> SUFFICES ASSUME Init PROVE IndInv
  OBVIOUS
<1>1. job \in [Admin -> Jobs] /\ read \in [User -> [at : SomePlace, key : Key \cup {NoKey}]]
  BY DEF Init, NoJob, Job, Jobs, NoRead, SomePlace
<1>2. StateOK
  BY <1>1, KeyStoreAssumption DEF Init, StateOK, APC, Jobs
<1>3. JobOK /\ MutexProtects /\ MoveKeepsBoth
  BY DEF Init, JobOK, MutexProtects, MoveKeepsBoth, InMutex
<1> QED
  BY <1>2, <1>3 DEF IndInv

(***************************************************************************)
(* Steps outside the mutex                                                 *)
(***************************************************************************)

\* A command that passed its tests touches no file and no mutex.
LEMMA StartInv ==
  ASSUME IndInv, NEW a \in Admin, NEW l \in {"create", "mark", "move"},
         NEW j \in Jobs, Start(a, l, j),
         j.at \in Place,
         l = "move" => j.to \in Place /\ j.to[1] = j.at[1] /\ j.to # j.at,
         UNCHANGED <<files, mutex, users, generated, crashes, off>>
  PROVE  IndInv'
<1> USE DEF IndInv
<1>1. StateOK'
  BY DEF StateOK, Start, APC, Jobs, files, users
<1>2. JobOK' /\ MutexProtects' /\ MoveKeepsBoth'
  BY DEF StateOK, JobOK, MutexProtects, MoveKeepsBoth, InMutex, FamilyOf,
         Start, files, users
<1> QED
  BY <1>1, <1>2

\* CreateBegin, SetEnabledBegin and ReindexBegin are such commands.
LEMMA BeginInv ==
  ASSUME IndInv, NEW a \in Admin,
         CreateBegin(a) \/ SetEnabledBegin(a) \/ ReindexBegin(a)
  PROVE  IndInv'
<1>1. CASE CreateBegin(a)
  <2>1. PICK f \in Family, s \in Slot : Start(a, "create", Job(<<f, s>>, NoPlace, FALSE))
    BY <1>1 DEF CreateBegin
  <2>2. <<f, s>> \in Place /\ <<f, s>> \in SomePlace /\ NoPlace \in SomePlace
    BY DEF Place, SomePlace
  <2> QED
    BY <1>1, <2>1, <2>2, StartInv, JobType DEF CreateBegin
<1>2. CASE SetEnabledBegin(a)
  <2>1. PICK f \in Family, s \in Slot, b \in BOOLEAN :
               Start(a, "mark", Job(<<f, s>>, NoPlace, b))
    BY <1>2 DEF SetEnabledBegin
  <2>2. <<f, s>> \in Place /\ <<f, s>> \in SomePlace /\ NoPlace \in SomePlace
    BY DEF Place, SomePlace
  <2> QED
    BY <1>2, <2>1, <2>2, StartInv, JobType DEF SetEnabledBegin
<1>3. CASE ReindexBegin(a)
  <2>1. PICK f \in Family, s \in Slot, n \in Slot :
               s # n /\ Start(a, "move", Job(<<f, s>>, <<f, n>>, FALSE))
    BY <1>3 DEF ReindexBegin
  <2>2. /\ <<f, s>> \in Place /\ <<f, s>> \in SomePlace
        /\ <<f, n>> \in Place /\ <<f, n>> \in SomePlace
        /\ <<f, n>> # <<f, s>> /\ <<f, n>>[1] = <<f, s>>[1]
    BY <2>1 DEF Place, SomePlace
  <2> DEFINE j == Job(<<f, s>>, <<f, n>>, FALSE)
  <2>3. j \in Jobs /\ j.at = <<f, s>> /\ j.to = <<f, n>>
    BY <2>2, JobType
  <2>4. j.at \in Place /\ j.to \in Place /\ j.to[1] = j.at[1] /\ j.to # j.at
    BY <2>2, <2>3
  <2>5. Start(a, "move", j)
    BY <2>1
  <2>6. UNCHANGED <<files, mutex, users, generated, crashes, off>>
    BY <1>3 DEF ReindexBegin
  <2> HIDE DEF j
  <2> QED
    BY <2>3, <2>4, <2>5, <2>6, StartInv
<1> QED
  BY <1>1, <1>2, <1>3

\* Users change nothing that administrators rely on.
LEMMA UserInv ==
  ASSUME IndInv, NEW u \in User, UserStep(u) PROVE IndInv'
<1> USE DEF IndInv
<1>1. StateOK'
  <2>1. CASE ReadRecord(u)
    <3>1. PICK p \in Place : read' = [read EXCEPT ![u] = [at |-> p, key |-> file[p]]]
      BY <2>1 DEF ReadRecord
    <3>2. [at |-> p, key |-> file[p]] \in [at : SomePlace, key : Key \cup {NoKey}]
      BY DEF StateOK, SomePlace
    <3> QED
      BY <2>1, <3>1, <3>2 DEF StateOK, ReadRecord, files, admins
  <2>2. NoRead \in [at : SomePlace, key : Key \cup {NoKey}]
    BY DEF NoRead, SomePlace
  <2>3. CASE CheckDisabled(u)
    BY <2>2, <2>3 DEF StateOK, CheckDisabled, files, admins
  <2>4. CASE Finish(u)
    BY <2>2, <2>4 DEF StateOK, Finish, files, admins
  <2> QED
    BY <2>1, <2>3, <2>4 DEF UserStep
<1>2. UNCHANGED <<file, mutex, apc, job>>
  BY DEF UserStep, ReadRecord, CheckDisabled, Finish, files, admins
<1>3. JobOK' /\ MutexProtects' /\ MoveKeepsBoth'
  BY <1>2 DEF JobOK, MutexProtects, MoveKeepsBoth, FamilyOf
<1> QED
  BY <1>1, <1>3

\* A crash ends every command; the files are as they were.
LEMMA CrashInv == IndInv /\ Crash => IndInv'
<1> SUFFICES ASSUME IndInv, Crash PROVE IndInv'
  OBVIOUS
<1>1. NoJob \in Jobs /\ NoRead \in [at : SomePlace, key : Key \cup {NoKey}]
  BY DEF NoJob, Job, Jobs, NoRead, SomePlace
<1>2. StateOK'
  BY <1>1, KeyStoreAssumption DEF IndInv, StateOK, Crash, files, APC, Jobs
<1>3. JobOK' /\ MutexProtects' /\ MoveKeepsBoth'
  BY DEF Crash, JobOK, MutexProtects, MoveKeepsBoth, InMutex
<1> QED
  BY <1>2, <1>3 DEF IndInv

(***************************************************************************)
(* Steps of one family leave the other family's moves alone                *)
(***************************************************************************)

\* b is in the middle of a move.
Moving(b) == apc[b] \in {"copied", "moved", "undo"}

\* What MoveKeepsBoth says of one administrator.
BothIn(b) ==
  /\ job[b].at # job[b].to
  /\ file[job[b].at] = file[job[b].to]
  /\ file[job[b].at] # NoKey

\* A step that holds or takes the mutex of p's family and writes the file at p
\* only does not disturb a move of somebody else.
LEMMA OthersKeepBoth ==
  ASSUME IndInv, NEW a \in Admin, NEW b \in Admin, b # a, Moving(b),
         NEW p \in Place, mutex[p[1]] \in {NoOne, a},
         NEW v, file' = [file EXCEPT ![p] = v],
         job'[b] = job[b]
  PROVE  BothIn(b)'
<1>1. job[b].at \in Place /\ job[b].to \in Place /\ job[b].to[1] = job[b].at[1]
  BY DEF IndInv, JobOK, Moving
<1>2. mutex[job[b].at[1]] = b
  BY DEF IndInv, MutexProtects, InMutex, FamilyOf, Moving
<1>3. job[b].at # p /\ job[b].to # p
  BY <1>1, <1>2, KeyStoreAssumption
<1>4. file'[job[b].at] = file[job[b].at] /\ file'[job[b].to] = file[job[b].to]
  BY <1>1, <1>3 DEF IndInv, StateOK
<1>5. BothIn(b)
  BY DEF IndInv, MoveKeepsBoth, Moving, BothIn
<1> QED
  BY <1>4, <1>5 DEF BothIn

\* MoveKeepsBoth, taken apart.
LEMMA KeepBothSplit ==
  /\ MoveKeepsBoth <=> \A b \in Admin : Moving(b) => BothIn(b)
  /\ MoveKeepsBoth' <=> \A b \in Admin : Moving(b)' => BothIn(b)'
BY DEF MoveKeepsBoth, Moving, BothIn

(***************************************************************************)
(* Steps inside the mutex                                                  *)
(***************************************************************************)

\* CreateRecord writes a new key where there was none, or does nothing.
LEMMA CreateRecordInv ==
  ASSUME IndInv, NEW a \in Admin, CreateRecord(a) PROVE IndInv'
<1> USE DEF IndInv
<1>0. job[a].at \in Place /\ NoJob \in Jobs
  BY DEF CreateRecord, JobOK, NoJob, Job, Jobs, SomePlace
<1>1. StateOK'
  BY <1>0, KeyStoreAssumption
     DEF StateOK, CreateRecord, Return, Jobs, APC, users, Key, NoKey
<1>2. JobOK' /\ MutexProtects'
  BY DEF StateOK, JobOK, MutexProtects, InMutex, FamilyOf, CreateRecord, Return
<1>3. MoveKeepsBoth'
  <2> SUFFICES ASSUME NEW b \in Admin, Moving(b)' PROVE BothIn(b)'
    BY KeepBothSplit
  <2>1. b # a /\ Moving(b) /\ job'[b] = job[b]
    BY DEF StateOK, CreateRecord, Return, Moving
  <2>2. CASE file' = [file EXCEPT ![job[a].at] = generated + 1]
    <3>1. mutex[job[a].at[1]] \in {NoOne, a}
      BY DEF CreateRecord, FamilyOf
    <3> QED
      BY <1>0, <2>1, <2>2, <3>1, OthersKeepBoth
  <2>3. CASE UNCHANGED file
    BY <2>1, <2>3, KeepBothSplit DEF BothIn
  <2> QED
    BY <2>2, <2>3 DEF CreateRecord
<1> QED
  BY <1>1, <1>2, <1>3

\* DeleteRecord takes the mutex and unlinks a record.
LEMMA DeleteRecordInv ==
  ASSUME IndInv, NEW a \in Admin, DeleteRecord(a) PROVE IndInv'
<1> USE DEF IndInv
<1>1. PICK f \in Family, s \in Slot :
        /\ Lock(a, f)
        /\ file' = [file EXCEPT ![<<f, s>>] = NoKey]
        /\ Start(a, "unmark", Job(<<f, s>>, NoPlace, FALSE))
  BY DEF DeleteRecord
<1> DEFINE p == <<f, s>>
           j == Job(p, NoPlace, FALSE)
<1>2. p \in Place /\ p \in SomePlace /\ NoPlace \in SomePlace /\ p[1] = f
  BY DEF Place, SomePlace
<1>3. j \in Jobs /\ j.at = p
  BY <1>2, JobType
<1>4. /\ mutex[f] = NoOne /\ mutex' = [mutex EXCEPT ![f] = a]
      /\ file' = [file EXCEPT ![p] = NoKey]
      /\ apc[a] = "idle" /\ apc' = [apc EXCEPT ![a] = "unmark"]
      /\ job' = [job EXCEPT ![a] = j]
  BY <1>1 DEF Lock, Start
<1> HIDE DEF p, j
<1>5. StateOK'
  BY <1>2, <1>3, <1>4 DEF StateOK, DeleteRecord, Jobs, APC, users, Key, NoKey
<1>6. JobOK'
  BY <1>2, <1>3, <1>4 DEF StateOK, JobOK
<1>7. MutexProtects'
  <2> SUFFICES ASSUME NEW b \in Admin, apc'[b] \in InMutex
               PROVE  mutex'[job'[b].at[1]] = b
    BY DEF MutexProtects, FamilyOf
  <2>1. CASE b = a
    BY <1>2, <1>3, <1>4, <2>1 DEF StateOK
  <2>2. CASE b # a
    <3>1. apc[b] \in InMutex /\ job'[b] = job[b] /\ mutex[job[b].at[1]] = b
      BY <1>4, <2>2 DEF StateOK, MutexProtects, FamilyOf
    <3> QED
      BY <1>4, <3>1, KeyStoreAssumption DEF StateOK
  <2> QED
    BY <2>1, <2>2
<1>8. MoveKeepsBoth'
  <2> SUFFICES ASSUME NEW b \in Admin, Moving(b)' PROVE BothIn(b)'
    BY KeepBothSplit
  <2>1. b # a /\ Moving(b) /\ job'[b] = job[b]
    BY <1>4 DEF StateOK, Moving
  <2> QED
    BY <1>2, <1>4, <2>1, OthersKeepBoth
<1> QED
  BY <1>5, <1>6, <1>7, <1>8

\* RemoveMarker ends a delete or a reindex and releases the mutex.
LEMMA RemoveMarkerInv ==
  ASSUME IndInv, NEW a \in Admin, RemoveMarker(a) PROVE IndInv'
<1> USE DEF IndInv
<1>1. NoJob \in Jobs
  BY DEF NoJob, Job, Jobs, SomePlace
<1>2. job[a].at \in Place /\ mutex[FamilyOf(a)] = a
  BY DEF RemoveMarker, JobOK, MutexProtects, InMutex
<1>3. StateOK'
  BY <1>1 DEF StateOK, RemoveMarker, Return, Unlock, Jobs, APC, users
<1>4. JobOK'
  BY DEF StateOK, JobOK, RemoveMarker, Return
<1>5. MutexProtects'
  BY <1>2, KeyStoreAssumption
     DEF StateOK, MutexProtects, InMutex, FamilyOf, RemoveMarker, Return, Unlock
<1>6. MoveKeepsBoth'
  BY DEF StateOK, MoveKeepsBoth, RemoveMarker, Return
<1> QED
  BY <1>3, <1>4, <1>5, <1>6

\* SetEnabled changes a marker, never a record.
LEMMA SetEnabledInv ==
  ASSUME IndInv, NEW a \in Admin, SetEnabled(a) PROVE IndInv'
<1> USE DEF IndInv
<1>1. NoJob \in Jobs /\ job[a].at \in Place
  BY DEF SetEnabled, JobOK, NoJob, Job, Jobs, SomePlace
<1>2. {file[job[a].at]} \ {NoKey} \subseteq Key
  BY <1>1 DEF StateOK
<1>3. StateOK'
  BY <1>1, <1>2 DEF StateOK, SetEnabled, Return, Jobs, APC
<1>4. JobOK' /\ MutexProtects' /\ MoveKeepsBoth'
  BY DEF StateOK, JobOK, MutexProtects, MoveKeepsBoth, InMutex, FamilyOf,
         SetEnabled, Return
<1> QED
  BY <1>3, <1>4

\* ReindexCopy takes the mutex and writes the second record, or gives up.
LEMMA ReindexCopyInv ==
  ASSUME IndInv, NEW a \in Admin, ReindexCopy(a) PROVE IndInv'
<1> USE DEF IndInv
<1> DEFINE at == job[a].at
           to == job[a].to
<1>1. NoJob \in Jobs /\ at \in Place /\ to \in Place /\ to[1] = at[1] /\ to # at
  BY DEF ReindexCopy, JobOK, NoJob, Job, Jobs, SomePlace
<1>2. at[1] \in Family
  BY <1>1 DEF Place
<1>3. CASE Return(a) /\ UNCHANGED <<file, mutex>>
  <2>1. StateOK'
    BY <1>1, <1>3 DEF StateOK, ReindexCopy, Return, Jobs, APC, users
  <2>2. JobOK' /\ MutexProtects' /\ MoveKeepsBoth'
    BY <1>3 DEF StateOK, JobOK, MutexProtects, MoveKeepsBoth, InMutex, FamilyOf,
                Return
  <2> QED
    BY <2>1, <2>2
<1>4. CASE /\ file[at] # NoKey
           /\ file' = [file EXCEPT ![to] = file[at]]
           /\ Lock(a, at[1])
           /\ apc' = [apc EXCEPT ![a] = "copied"]
           /\ UNCHANGED job
  <2>1. StateOK'
    BY <1>1, <1>2, <1>4 DEF StateOK, ReindexCopy, Lock, APC, users
  <2>2. JobOK'
    BY <1>1, <1>4 DEF StateOK, JobOK
  <2>3. MutexProtects'
    <3> SUFFICES ASSUME NEW b \in Admin, apc'[b] \in InMutex
                 PROVE  mutex'[job[b].at[1]] = b
      BY <1>4 DEF MutexProtects, FamilyOf
    <3>1. CASE b = a
      BY <1>2, <1>4, <3>1 DEF StateOK, Lock
    <3>2. CASE b # a
      <4>1. mutex[job[b].at[1]] = b
        BY <1>4, <3>2 DEF StateOK, MutexProtects, FamilyOf
      <4> QED
        BY <1>4, <4>1, KeyStoreAssumption DEF StateOK, Lock
    <3> QED
      BY <3>1, <3>2
  <2>4. MoveKeepsBoth'
    <3> SUFFICES ASSUME NEW b \in Admin, Moving(b)' PROVE BothIn(b)'
      BY KeepBothSplit
    <3>1. CASE b = a
      BY <1>1, <1>4, <3>1 DEF StateOK, BothIn
    <3>2. CASE b # a
      <4>1. Moving(b) /\ job'[b] = job[b]
        BY <1>4, <3>2 DEF StateOK, Moving
      <4>2. mutex[to[1]] \in {NoOne, a}
        BY <1>1, <1>4 DEF Lock
      <4> QED
        BY <1>1, <1>4, <3>2, <4>1, <4>2, OthersKeepBoth
    <3> QED
      BY <3>1, <3>2
  <2> QED
    BY <2>1, <2>2, <2>3, <2>4
<1> QED
  BY <1>3, <1>4 DEF ReindexCopy, FamilyOf

\* ReindexMarker changes a marker, never a record.
LEMMA ReindexMarkerInv ==
  ASSUME IndInv, NEW a \in Admin, ReindexMarker(a) PROVE IndInv'
<1> USE DEF IndInv
<1>1. job[a].to \in Place
  BY DEF ReindexMarker, JobOK
<1>2. StateOK'
  BY <1>1 DEF StateOK, ReindexMarker, APC, users
<1>3. JobOK' /\ MutexProtects' /\ MoveKeepsBoth'
  BY DEF StateOK, JobOK, MutexProtects, MoveKeepsBoth, InMutex, FamilyOf,
         ReindexMarker
<1> QED
  BY <1>2, <1>3

\* ReindexUnlink and ReindexUndo unlink one of the two records.
LEMMA ReindexEndInv ==
  ASSUME IndInv, NEW a \in Admin, ReindexUnlink(a) \/ ReindexUndo(a) PROVE IndInv'
<1> USE DEF IndInv
<1>1. PICK p \in {job[a].at, job[a].to} : file' = [file EXCEPT ![p] = NoKey]
  BY DEF ReindexUnlink, ReindexUndo
<1>2. /\ job[a].at \in Place /\ job[a].to \in Place
      /\ job[a].to[1] = job[a].at[1] /\ mutex[job[a].at[1]] = a
  BY DEF ReindexUnlink, ReindexUndo, JobOK, MutexProtects, InMutex, FamilyOf
<1>3. p \in Place /\ mutex[p[1]] \in {NoOne, a}
  BY <1>1, <1>2
<1>4. /\ apc' = [apc EXCEPT ![a] = "unmark"]
      /\ job' \in {job, [job EXCEPT ![a].at = job[a].to]}
      /\ UNCHANGED <<marker, mutex, upc, read, barred, generated, crashes, off>>
      /\ apc[a] \in {"moved", "undo"}
  BY DEF ReindexUnlink, ReindexUndo, users
<1>5. StateOK'
  <2>1. job' \in [Admin -> Jobs]
    BY <1>2, <1>4 DEF StateOK, Jobs, SomePlace
  <2>2. file' \in [Place -> Key \cup {NoKey}]
    BY <1>1, <1>3 DEF StateOK
  <2> QED
    BY <1>4, <2>1, <2>2 DEF StateOK, Jobs, APC
<1>6. JobOK' /\ MutexProtects'
  BY <1>2, <1>4 DEF StateOK, JobOK, MutexProtects, InMutex, FamilyOf
<1>7. MoveKeepsBoth'
  <2> SUFFICES ASSUME NEW b \in Admin, Moving(b)' PROVE BothIn(b)'
    BY KeepBothSplit
  <2>1. b # a /\ Moving(b) /\ job'[b] = job[b]
    BY <1>4 DEF StateOK, Moving
  <2> QED
    BY <1>1, <1>3, <2>1, OthersKeepBoth
<1> QED
  BY <1>5, <1>6, <1>7

(***************************************************************************)
(* The theorems                                                            *)
(***************************************************************************)

\* Every step, and stuttering, preserves the invariant.
LEMMA NextInv == IndInv /\ [Next]_vars => IndInv'
<1> SUFFICES ASSUME IndInv, [Next]_vars PROVE IndInv'
  OBVIOUS
<1>1. ASSUME NEW a \in Admin, AdminStep(a) PROVE IndInv'
  BY <1>1, BeginInv, CreateRecordInv, DeleteRecordInv, RemoveMarkerInv,
     SetEnabledInv, ReindexCopyInv, ReindexMarkerInv, ReindexEndInv DEF AdminStep
<1>2. CASE UNCHANGED vars
  BY <1>2 DEF vars, IndInv, StateOK, JobOK, MutexProtects, MoveKeepsBoth, FamilyOf
<1> QED
  BY <1>1, <1>2, UserInv, CrashInv DEF Next, Step

\* The invariant holds in every state of every behaviour.
LEMMA Invariant == Spec => []IndInv
BY InitInv, NextInv, PTL DEF Spec

\* Type correctness, for any number of indexes, threads, keys and crashes.
THEOREM TypeCorrect == Spec => []TypeOK
<1>1. Init => TypeOK
  BY InitInv DEF Init, IndInv, TypeOK
<1>2. IndInv /\ IndInv' /\ TypeOK /\ [Next]_vars => TypeOK'
  BY DEF IndInv, TypeOK, Next, NotesOverlap, vars
<1> QED
  BY <1>1, <1>2, Invariant, PTL DEF Spec

\* While reindex is between writing the new record and unlinking one of the
\* two, both records hold the key, whatever the other administrators do.
THEOREM MoveIsSafe == Spec => []MoveKeepsBoth
<1>1. IndInv => MoveKeepsBoth
  BY DEF IndInv
<1> QED
  BY <1>1, Invariant, PTL

\* A step keeps every key in some record, unless it is the delete of that key.
LEMMA StepKeepsKeys ==
  ASSUME IndInv, Next, NEW k \in Stored, k \notin Stored'
  PROVE  \E a \in Admin : /\ apc[a] = "idle" /\ apc'[a] = "unmark"
                          /\ file[job'[a].at] = k
<1>1. PICK p \in Place : file[p] = k /\ k # NoKey
  BY DEF Stored
<1>2. \A q \in Place : file'[q] # k
  BY <1>1 DEF Stored
<1>3. file' # file
  BY <1>1, <1>2
<1>4. PICK a \in Admin : \/ CreateRecord(a) \/ DeleteRecord(a) \/ ReindexCopy(a)
                         \/ ReindexUnlink(a) \/ ReindexUndo(a)
  BY <1>3 DEF Next, Step, AdminStep, UserStep, CreateBegin, RemoveMarker,
     SetEnabledBegin, SetEnabled, ReindexBegin, ReindexMarker, ReadRecord,
     CheckDisabled, Finish, Crash, files
<1>5. CASE CreateRecord(a)
  BY <1>1, <1>2, <1>3, <1>5 DEF IndInv, StateOK, JobOK, CreateRecord
<1>6. CASE DeleteRecord(a)
  <2>1. PICK f \in Family, s \in Slot :
          /\ file' = [file EXCEPT ![<<f, s>>] = NoKey]
          /\ Start(a, "unmark", Job(<<f, s>>, NoPlace, FALSE))
    BY <1>6 DEF DeleteRecord
  <2>2. p = <<f, s>>
    BY <1>1, <1>2, <2>1 DEF IndInv, StateOK
  <2>3. Job(<<f, s>>, NoPlace, FALSE).at = <<f, s>>
    BY DEF Job
  <2> QED
    BY <1>1, <2>1, <2>2, <2>3 DEF IndInv, StateOK, Start
<1>7. CASE ReindexCopy(a)
  BY <1>1, <1>2, <1>3, <1>7 DEF IndInv, StateOK, JobOK, ReindexCopy
<1>8. CASE ReindexUnlink(a) \/ ReindexUndo(a)
  <2>1. /\ job[a].at \in Place /\ job[a].to \in Place /\ job[a].at # job[a].to
        /\ file[job[a].at] = file[job[a].to]
    BY <1>8 DEF IndInv, JobOK, MoveKeepsBoth, ReindexUnlink, ReindexUndo
  <2> QED
    BY <1>1, <1>2, <1>8, <2>1 DEF IndInv, StateOK, ReindexUnlink, ReindexUndo
<1> QED
  BY <1>4, <1>5, <1>6, <1>7, <1>8

\* No key is ever lost: the last record of a key goes away only in the step of
\* delete that unlinks it, for any interleaving and any number of crashes.
THEOREM KeysAreNeverLost == Spec => OnlyDeleteRemoves
<1>1. IndInv /\ [Next]_vars =>
        [\A k \in Stored :
           \/ k \in Stored'
           \/ \E a \in Admin : /\ apc[a] = "idle" /\ apc'[a] = "unmark"
                               /\ file[job'[a].at] = k]_vars
  BY StepKeepsKeys
<1> QED
  BY <1>1, Invariant, PTL DEF Spec, OnlyDeleteRemoves

(***************************************************************************)
(* Two records of one key                                                  *)
(***************************************************************************)

\* Keys are numbered in the order in which they are generated.
FreshOK ==
  /\ \A p \in Place : file[p] <= generated
  /\ \A k \in off : k <= generated

\* Two records of one key are the two ends of a move in progress, unless a
\* command was killed.
PairsOK ==
  (crashes = 0 \/ ~ overlap) =>
    \A p, q \in Place :
      (file[p] # NoKey /\ file[p] = file[q] /\ p # q) =>
        \E a \in Admin : Moving(a) /\ {p, q} = {job[a].at, job[a].to}

\* A command changes its own position and arguments only, and is under way
\* before or after each of its steps.
LEMMA OnlyMine ==
  ASSUME IndInv, NEW a \in Admin, AdminStep(a)
  PROVE  /\ \A b \in Admin : b # a => apc'[b] = apc[b] /\ job'[b] = job[b]
         /\ apc[a] # "idle" \/ apc'[a] # "idle"
         /\ crashes' = crashes
<1>1. apc \in [Admin -> APC] /\ job \in [Admin -> Jobs]
  BY DEF IndInv, StateOK, Jobs
<1>2. \/ \E l \in {"create", "mark", "move", "unmark"} : \E j : Start(a, l, j)
      \/ apc[a] # "idle" /\ Return(a)
      \/ /\ apc[a] # "idle" /\ \E l \in APC : apc' = [apc EXCEPT ![a] = l]
         /\ job' \in {job, [job EXCEPT ![a].at = job[a].to]}
  BY DEF AdminStep, CreateBegin, CreateRecord, DeleteRecord, RemoveMarker, SetEnabledBegin,
     SetEnabled, ReindexBegin, ReindexCopy, ReindexMarker, ReindexUnlink, ReindexUndo, APC
<1>3. crashes' = crashes
  BY DEF AdminStep, CreateBegin, CreateRecord, DeleteRecord, RemoveMarker, SetEnabledBegin,
     SetEnabled, ReindexBegin, ReindexCopy, ReindexMarker, ReindexUnlink, ReindexUndo
<1> QED
  BY <1>1, <1>2, <1>3 DEF Start, Return

\* What a command does to the records.
LEMMA FileSteps ==
  ASSUME IndInv, NEW a \in Admin, AdminStep(a)
  PROVE  \/ UNCHANGED <<file, generated>> /\ (Moving(a) => Moving(a)' /\ job'[a] = job[a])
         \/ \E p \in Place : /\ file[p] = NoKey /\ file' = [file EXCEPT ![p] = generated + 1]
                             /\ generated' = generated + 1 /\ ~ Moving(a)
         \/ \E p \in Place : /\ file' = [file EXCEPT ![p] = NoKey] /\ UNCHANGED generated
                             /\ Moving(a) => p \in {job[a].at, job[a].to}
         \/ /\ apc[a] = "move" /\ mutex[FamilyOf(a)] = NoOne /\ file[job[a].to] = NoKey
            /\ file' = [file EXCEPT ![job[a].to] = file[job[a].at]]
            /\ Moving(a)' /\ job' = job /\ UNCHANGED generated
<1>0. apc \in [Admin -> APC] /\ (apc[a] # "idle" => job[a].at \in Place)
      /\ (Moving(a) => job[a].to \in Place)
  BY DEF IndInv, StateOK, JobOK, Moving
<1>1. CASE CreateRecord(a)
  BY <1>0, <1>1 DEF CreateRecord, Moving
<1>2. CASE DeleteRecord(a)
  <2>1. apc[a] = "idle" /\ UNCHANGED generated
    BY <1>2 DEF DeleteRecord, Start
  <2>2. \E p \in Place : file' = [file EXCEPT ![p] = NoKey]
    BY <1>2 DEF DeleteRecord, Place
  <2> QED
    BY <2>1, <2>2 DEF Moving
<1>3. CASE ReindexUnlink(a) \/ ReindexUndo(a)
  BY <1>0, <1>3 DEF ReindexUnlink, ReindexUndo, Moving
<1>4. CASE ReindexCopy(a)
  BY <1>0, <1>4 DEF ReindexCopy, Moving, Return
<1>5. CASE ReindexMarker(a)
  BY <1>0, <1>5 DEF ReindexMarker, Moving
<1>6. CASE \/ CreateBegin(a) \/ SetEnabledBegin(a) \/ ReindexBegin(a) \/ RemoveMarker(a) \/ SetEnabled(a)
  BY <1>6 DEF CreateBegin, SetEnabledBegin, ReindexBegin, RemoveMarker, SetEnabled, Start, Moving,
     files
<1> QED
  BY <1>1, <1>2, <1>3, <1>4, <1>5, <1>6 DEF AdminStep

\* Users and crashes leave records and numbers alone.
LEMMA OtherSteps ==
  ASSUME (\E u \in User : UserStep(u)) \/ Crash \/ UNCHANGED vars
  PROVE  UNCHANGED <<file, marker, generated, off>> /\ (Crash \/ UNCHANGED <<apc, job, crashes>>)
BY DEF UserStep, ReadRecord, CheckDisabled, Finish, Crash, vars, files, admins

\* New keys get new numbers.
LEMMA NextFresh == IndInv /\ FreshOK /\ [Next]_vars => FreshOK'
<1> SUFFICES ASSUME IndInv, FreshOK, [Next]_vars PROVE FreshOK'
  OBVIOUS
<1>1. /\ file \in [Place -> Key \cup {NoKey}] /\ generated \in Nat /\ off \subseteq Key
      /\ Key \subseteq Nat /\ NoKey \in Nat
  BY KeyStoreAssumption DEF IndInv, StateOK, Key, NoKey
<1>2. ASSUME NEW a \in Admin, AdminStep(a) PROVE FreshOK'
  <2>1. \A p \in Place : file'[p] <= generated' /\ generated' \in Nat /\ generated' >= generated
    <3>1. CASE UNCHANGED <<file, generated>>
      BY <1>1, <3>1 DEF FreshOK
    <3>2. CASE \E p \in Place : /\ file' = [file EXCEPT ![p] = generated + 1]
                                /\ generated' = generated + 1
      <4>1. \A p \in Place : file[p] \in Nat
        BY <1>1
      <4> QED
        BY <1>1, <3>2, <4>1 DEF FreshOK
    <3>3. CASE \E p \in Place : file' = [file EXCEPT ![p] = NoKey] /\ UNCHANGED generated
      BY <1>1, <3>3 DEF FreshOK, NoKey
    <3>4. CASE /\ apc[a] = "move" /\ file' = [file EXCEPT ![job[a].to] = file[job[a].at]]
               /\ UNCHANGED generated
      <4>1. job[a].at \in Place /\ job[a].to \in Place
        BY <3>4 DEF IndInv, JobOK
      <4> QED
        BY <1>1, <3>4, <4>1 DEF FreshOK
    <3> QED
      BY <1>2, <3>1, <3>2, <3>3, <3>4, FileSteps
  <2>2. off' \subseteq off \cup {file[p] : p \in Place} \/ off' \subseteq off
    BY <1>2 DEF AdminStep, CreateBegin, CreateRecord, DeleteRecord, RemoveMarker, SetEnabledBegin,
       SetEnabled, ReindexBegin, ReindexCopy, ReindexMarker, ReindexUnlink, ReindexUndo,
       IndInv, JobOK
  <2>3. \A k \in off' : k \in Nat /\ k <= generated
    BY <1>1, <2>2 DEF FreshOK
  <2>4. generated' \in Nat /\ generated' >= generated
    <3>1. generated' \in {generated, generated + 1}
      BY <1>2, FileSteps
    <3> QED
      BY <1>1, <3>1
  <2>5. \A k \in off' : k <= generated'
    BY <1>1, <2>3, <2>4
  <2> QED
    BY <2>1, <2>5 DEF FreshOK
<1>3. CASE (\E u \in User : UserStep(u)) \/ Crash \/ UNCHANGED vars
  BY <1>3, OtherSteps DEF FreshOK
<1> QED
  BY <1>2, <1>3 DEF Next, Step

\* Every step keeps pairs what they are.
LEMMA NextPairs == IndInv /\ FreshOK /\ PairsOK /\ [Next]_vars => PairsOK'
<1> SUFFICES ASSUME IndInv, FreshOK, PairsOK, [Next]_vars, crashes' = 0 \/ ~ overlap',
                    NEW p \in Place, NEW q \in Place,
                    file'[p] # NoKey, file'[p] = file'[q], p # q
             PROVE  \E a \in Admin : Moving(a)' /\ {p, q} = {job'[a].at, job'[a].to}
  BY DEF PairsOK
<1>1. /\ file \in [Place -> Key \cup {NoKey}] /\ generated \in Nat /\ crashes \in Nat
      /\ Key \subseteq Nat /\ NoKey = 0 /\ NoKey \in Nat
  BY KeyStoreAssumption DEF IndInv, StateOK, Key, NoKey
<1>2. ASSUME NEW a \in Admin, AdminStep(a), NotesOverlap
      PROVE  \E b \in Admin : Moving(b)' /\ {p, q} = {job'[b].at, job'[b].to}
  <2>1. crashes = 0 \/ ~ overlap
    BY <1>2, OnlyMine DEF NotesOverlap
  <2>2. ASSUME NEW x \in Place, NEW y \in Place, file[x] # NoKey, file[x] = file[y], x # y
        PROVE  \E b \in Admin : Moving(b) /\ {x, y} = {job[b].at, job[b].to}
    BY <2>1, <2>2 DEF PairsOK
  <2>3. \A b \in Admin : b # a /\ Moving(b) => Moving(b)' /\ job'[b] = job[b]
    BY <1>2, OnlyMine DEF Moving
  <2>4. CASE UNCHANGED file /\ (Moving(a) => Moving(a)' /\ job'[a] = job[a])
    BY <2>2, <2>3, <2>4
  <2>5. CASE \E r \in Place : /\ file[r] = NoKey /\ file' = [file EXCEPT ![r] = generated + 1]
                              /\ ~ Moving(a)
    <3>1. PICK r \in Place : /\ file[r] = NoKey /\ file' = [file EXCEPT ![r] = generated + 1]
                             /\ ~ Moving(a)
      BY <2>5
    <3>n. \A s \in Place : file[s] \in Nat
      BY <1>1
    <3>2. \A s \in Place : file[s] \in Nat /\ file[s] <= generated
      BY <3>n DEF FreshOK
    <3>3. p # r /\ q # r
      BY <1>1, <3>1, <3>2
    <3>4. file[p] # NoKey /\ file[p] = file[q]
      BY <1>1, <3>1, <3>3
    <3> QED
      BY <2>2, <2>3, <3>1, <3>4
  <2>6. CASE \E r \in Place : /\ file' = [file EXCEPT ![r] = NoKey]
                              /\ Moving(a) => r \in {job[a].at, job[a].to}
    <3>1. PICK r \in Place : /\ file' = [file EXCEPT ![r] = NoKey]
                             /\ Moving(a) => r \in {job[a].at, job[a].to}
      BY <2>6
    <3>2. p # r /\ q # r /\ file[p] # NoKey /\ file[p] = file[q]
      BY <1>1, <3>1
    <3>3. PICK b \in Admin : Moving(b) /\ {p, q} = {job[b].at, job[b].to}
      BY <2>2, <3>2
    <3>4. b # a
      BY <3>1, <3>2, <3>3
    <3> QED
      BY <2>3, <3>3, <3>4
  <2>7. CASE /\ apc[a] = "move" /\ mutex[FamilyOf(a)] = NoOne /\ file[job[a].to] = NoKey
             /\ file' = [file EXCEPT ![job[a].to] = file[job[a].at]]
             /\ Moving(a)' /\ job' = job
    <3>1. job[a].at \in Place /\ job[a].to \in Place /\ job[a].to # job[a].at /\ ~ Moving(a)
      BY <2>7 DEF IndInv, JobOK, Moving
    <3> DEFINE at == job[a].at
               to == job[a].to
    <3>2. \A s \in Place : file'[s] = IF s = to THEN file[at] ELSE file[s]
      BY <1>1, <2>7, <3>1
    <3>3. ASSUME NEW x \in Place, x # at, x # to, file[x] = file[at], file[x] # NoKey PROVE FALSE
      <4>1. PICK b \in Admin : Moving(b) /\ {x, at} = {job[b].at, job[b].to}
        BY <2>2, <3>1, <3>3
      <4>2. mutex[job[b].at[1]] = b /\ job[b].to[1] = job[b].at[1]
        BY <4>1 DEF IndInv, MutexProtects, JobOK, Moving, InMutex, FamilyOf
      <4>3. at[1] = job[b].at[1]
        BY <4>1, <4>2
      <4> QED
        BY <2>7, <4>2, <4>3, KeyStoreAssumption DEF FamilyOf
    <3>4. CASE p = to \/ q = to
      <4>1. {p, q} = {at, to}
        BY <3>1, <3>2, <3>3, <3>4
      <4> QED
        BY <2>7, <4>1
    <3>5. CASE p # to /\ q # to
      <4>1. file[p] # NoKey /\ file[p] = file[q]
        BY <3>2, <3>5
      <4>2. PICK b \in Admin : Moving(b) /\ {p, q} = {job[b].at, job[b].to}
        BY <2>2, <4>1
      <4> QED
        BY <2>3, <3>1, <4>2
    <3> QED
      BY <3>4, <3>5
  <2> QED
    BY <1>2, <2>4, <2>5, <2>6, <2>7, FileSteps
<1>3. CASE ((\E u \in User : UserStep(u)) /\ NotesOverlap) \/ UNCHANGED vars
  <2>1. UNCHANGED <<file, apc, job, crashes>>
    BY <1>3 DEF vars, UserStep, ReadRecord, CheckDisabled, Finish, files, admins
  <2>2. overlap => overlap'
    BY <1>3 DEF NotesOverlap, vars
  <2> QED
    BY <2>1, <2>2 DEF PairsOK, Moving
<1>4. CASE Crash /\ NotesOverlap
  <2>1. crashes' = crashes + 1 /\ file' = file
    BY <1>4 DEF Crash, files
  <2>2. ~ overlap' /\ crashes' # crashes
    BY <1>1, <2>1
  <2>3. ~ overlap /\ \A a \in Admin : apc[a] = "idle"
    BY <1>4, <2>2 DEF NotesOverlap
  <2> QED
    BY <2>1, <2>3 DEF PairsOK, Moving
<1> QED
  BY <1>2, <1>3, <1>4 DEF Next, Step

\* The two invariants hold in every reachable state.
LEMMA Pairs == Spec => [](FreshOK /\ PairsOK)
<1>1. Init => FreshOK /\ PairsOK
  BY DEF Init, FreshOK, PairsOK, NoKey
<1> QED
  BY <1>1, NextFresh, NextPairs, Invariant, PTL DEF Spec

\* Without a kill a key has one record, except between the halves of its move.
THEOREM OneRecordPerKey == Spec => []OneRecordAtRest
<1>1. IndInv /\ PairsOK => OneRecordAtRest
  BY DEF PairsOK, OneRecordAtRest, Moving, InMutex
<1> QED
  BY <1>1, Pairs, Invariant, PTL

(***************************************************************************)
(* Commands one after the other                                            *)
(***************************************************************************)

\* The marker at p and the state of the key there agree.
Sound(p) ==
  /\ p \in marker => file[p] # NoKey
  /\ file[p] # NoKey => (p \in marker <=> file[p] \in off)

\* ... or a is about to make them agree.
Excused(a, p) ==
  \/ apc[a] \in {"copied", "undo"} /\ p = job[a].to /\ p \notin marker
  \/ apc[a] = "unmark" /\ p = job[a].at

\* What a found before it took the mutex still holds.
TestsHold(a) ==
  /\ apc[a] = "create" => file[<<Other(job[a].at[1]), job[a].at[2]>>] = NoKey
  /\ apc[a] = "mark" => file[job[a].at] # NoKey
  /\ apc[a] = "move" /\ job[a].at[1] = "RSA" => file[<<"SM2", job[a].to[2]>>] = NoKey
  /\ apc[a] = "unmark" => file[job[a].at] = NoKey

\* As long as commands did not overlap and none was killed.
SoloOK ==
  ~ overlap =>
    /\ \A a, b \in Admin : a # b => apc[a] = "idle" \/ apc[b] = "idle"
    /\ \A p \in Place : Sound(p) \/ \E a \in Admin : Excused(a, p)
    /\ \A a \in Admin : TestsHold(a)

\* Everything that is known when a command takes a step alone.
LEMMA Alone ==
  ASSUME IndInv, SoloOK, PairsOK, NEW a \in Admin, AdminStep(a), NotesOverlap, ~ overlap'
  PROVE  /\ \A b \in Admin : b # a => apc[b] = "idle" /\ apc'[b] = "idle"
         /\ \A p \in Place : Sound(p) \/ Excused(a, p)
         /\ TestsHold(a)
         /\ ~ Moving(a) =>
              \A p, q \in Place : file[p] # NoKey /\ file[p] = file[q] => p = q
<1>1. ~ overlap /\ \A b \in Admin : b # a => apc'[a] = "idle" \/ apc'[b] = "idle"
  BY DEF NotesOverlap
<1>2. \A b \in Admin : b # a => apc[b] = "idle" /\ apc'[b] = "idle"
  BY <1>1, OnlyMine DEF SoloOK
<1>3. \A b \in Admin : b # a => ~ Moving(b) /\ \A p \in Place : ~ Excused(b, p)
  BY <1>2 DEF Moving, Excused
<1>4. (\A p \in Place : Sound(p) \/ Excused(a, p)) /\ TestsHold(a)
  BY <1>1, <1>3 DEF SoloOK
<1>5. ~ Moving(a) => \A p, q \in Place : file[p] # NoKey /\ file[p] = file[q] => p = q
  BY <1>1, <1>3 DEF PairsOK
<1> QED
  BY <1>2, <1>4, <1>5

\* It is enough to look at the command that takes the step.
LEMMA SoloGoal ==
  ASSUME NEW a \in Admin, \A b \in Admin : b # a => apc'[b] = "idle",
         \A p \in Place : Sound(p)' \/ Excused(a, p)', TestsHold(a)'
  PROVE  SoloOK'
<1>1. \A b \in Admin : b # a => TestsHold(b)'
  BY DEF TestsHold
<1> QED
  BY <1>1 DEF SoloOK

\* The tests before the mutex.
LEMMA BeginSolo ==
  ASSUME IndInv, \A p \in Place : Sound(p), NEW a \in Admin,
         CreateBegin(a) \/ SetEnabledBegin(a) \/ ReindexBegin(a)
  PROVE  (\A p \in Place : Sound(p)') /\ TestsHold(a)'
<1>1. UNCHANGED <<file, marker, off>>
  BY DEF CreateBegin, SetEnabledBegin, ReindexBegin, files
<1>2. \A p \in Place : Sound(p)'
  BY <1>1 DEF Sound
<1>3. apc \in [Admin -> APC] /\ job \in [Admin -> Jobs]
  BY DEF IndInv, StateOK, Jobs
<1>4. CASE CreateBegin(a)
  <2>1. PICK f \in Family, s \in Slot :
          MayCreate(f, s) /\ Start(a, "create", Job(<<f, s>>, NoPlace, FALSE))
    BY <1>4 DEF CreateBegin
  <2>2. apc'[a] = "create" /\ job'[a].at = <<f, s>>
    BY <1>3, <2>1 DEF Start, Job
  <2>3. file[<<Other(f), s>>] = NoKey
    BY <2>1 DEF MayCreate, Exists
  <2> QED
    BY <1>1, <1>2, <2>2, <2>3 DEF TestsHold
<1>5. CASE SetEnabledBegin(a)
  <2>1. PICK f \in Family, s \in Slot, b \in BOOLEAN :
          Exists(f, s) /\ Start(a, "mark", Job(<<f, s>>, NoPlace, b))
    BY <1>5 DEF SetEnabledBegin
  <2>2. apc'[a] = "mark" /\ job'[a].at = <<f, s>>
    BY <1>3, <2>1 DEF Start, Job
  <2> QED
    BY <1>1, <1>2, <2>1, <2>2 DEF TestsHold, Exists
<1>6. CASE ReindexBegin(a)
  <2>1. PICK f \in Family, s \in Slot, n \in Slot :
          /\ f = "RSA" => ~ Exists("SM2", n)
          /\ Start(a, "move", Job(<<f, s>>, <<f, n>>, FALSE))
    BY <1>6 DEF ReindexBegin
  <2>2. apc'[a] = "move" /\ job'[a].at = <<f, s>> /\ job'[a].to = <<f, n>>
    BY <1>3, <2>1 DEF Start, Job
  <2> QED
    BY <1>1, <1>2, <2>1, <2>2 DEF TestsHold, Exists
<1> QED
  BY <1>4, <1>5, <1>6

\* A step of a command that is alone.
LEMMA AdminSolo ==
  ASSUME IndInv, FreshOK, SoloOK, PairsOK, NEW a \in Admin, AdminStep(a), NotesOverlap, ~ overlap'
  PROVE  SoloOK'
<1>0. /\ \A b \in Admin : b # a => apc'[b] = "idle"
      /\ \A p \in Place : Sound(p) \/ Excused(a, p)
      /\ TestsHold(a)
      /\ ~ Moving(a) =>
           \A p, q \in Place : file[p] # NoKey /\ file[p] = file[q] => p = q
  BY Alone
<1>1. apc[a] \in {"idle", "create", "mark", "move", "moved"} => \A p \in Place : Sound(p)
  BY <1>0 DEF Excused
<1>2. /\ apc \in [Admin -> APC] /\ job \in [Admin -> Jobs] /\ file \in [Place -> Key \cup {NoKey}]
      /\ apc[a] # "idle" => job[a].at \in Place
  BY DEF IndInv, StateOK, Jobs, JobOK
<1>i. apc'[a] = "idle" => TestsHold(a)'
  BY DEF TestsHold
<1>3. CASE CreateBegin(a) \/ SetEnabledBegin(a) \/ ReindexBegin(a)
  <2>1. apc[a] = "idle"
    BY <1>3 DEF CreateBegin, SetEnabledBegin, ReindexBegin, Start
  <2> QED
    BY <1>0, <1>1, <1>3, <2>1, BeginSolo, SoloGoal
<1>4. CASE CreateRecord(a)
  <2>1. apc[a] = "create" /\ apc'[a] = "idle" /\ UNCHANGED <<marker, off>>
    BY <1>2, <1>4 DEF CreateRecord, Return
  <2>2. \/ file' = file
        \/ file[job[a].at] = NoKey /\ file' = [file EXCEPT ![job[a].at] = generated + 1]
    BY <1>4 DEF CreateRecord
  <2>3. generated \in Nat /\ generated + 1 \notin off
    BY KeyStoreAssumption DEF IndInv, StateOK, FreshOK, Key
  <2>4. \A p \in Place : Sound(p)'
    BY <1>1, <1>2, <2>1, <2>2, <2>3 DEF Sound, NoKey
  <2> QED
    BY <1>0, <1>i, <2>1, <2>4, SoloGoal
<1>5. CASE DeleteRecord(a)
  <2>1. PICK f \in Family, s \in Slot :
          /\ file' = [file EXCEPT ![<<f, s>>] = NoKey]
          /\ Start(a, "unmark", Job(<<f, s>>, NoPlace, FALSE))
    BY <1>5 DEF DeleteRecord
  <2>2. /\ apc[a] = "idle" /\ apc'[a] = "unmark" /\ job'[a].at = <<f, s>> /\ <<f, s>> \in Place
        /\ UNCHANGED <<marker, off>>
    BY <1>2, <1>5, <2>1 DEF DeleteRecord, Start, Job, Place
  <2>3. \A p \in Place : Sound(p)' \/ p = <<f, s>>
    BY <1>1, <1>2, <2>1, <2>2 DEF Sound
  <2>4. TestsHold(a)'
    BY <1>2, <2>1, <2>2 DEF TestsHold
  <2> QED
    BY <1>0, <2>2, <2>3, <2>4, SoloGoal DEF Excused
<1>6. CASE RemoveMarker(a)
  <2>1. /\ apc[a] = "unmark" /\ apc'[a] = "idle" /\ UNCHANGED <<file, off>>
        /\ marker' = marker \ {job[a].at} /\ file[job[a].at] = NoKey
    BY <1>0, <1>2, <1>6 DEF RemoveMarker, Return, TestsHold
  <2>2. \A p \in Place : p # job[a].at => Sound(p)
    BY <1>0, <2>1 DEF Excused
  <2>3. \A p \in Place : Sound(p)'
    BY <2>1, <2>2 DEF Sound
  <2> QED
    BY <1>0, <1>i, <2>1, <2>3, SoloGoal
<1>7. CASE SetEnabled(a)
  <2> DEFINE at == job[a].at
  <2>1. /\ apc[a] = "mark" /\ apc'[a] = "idle" /\ UNCHANGED file /\ file[at] # NoKey /\ at \in Place
        /\ ~ Moving(a)
    BY <1>0, <1>2, <1>7 DEF SetEnabled, Return, TestsHold, Moving
  <2>2. {file[at]} \ {NoKey} = {file[at]}
    BY <2>1
  <2>3. \/ marker' = marker \ {at} /\ off' = off \ {file[at]}
        \/ marker' = marker \cup {at} /\ off' = off \cup {file[at]}
        \/ UNCHANGED <<marker, off>>
    BY <1>7, <2>2 DEF SetEnabled
  <2>4. \A p \in Place : p # at /\ file[p] # NoKey => file[p] # file[at]
    BY <1>0, <2>1
  <2>5. \A p \in Place : Sound(p)
    BY <1>1, <2>1
  <2>6. \A p \in Place : Sound(p)'
    <3> HIDE DEF at
    <3> QED
      BY <2>1, <2>3, <2>4, <2>5 DEF Sound
  <2> QED
    BY <1>0, <1>i, <2>1, <2>6, SoloGoal
<1>8. CASE ReindexCopy(a)
  <2>1. apc[a] = "move" /\ UNCHANGED <<marker, off>> /\ job[a].to \in Place
    BY <1>8 DEF ReindexCopy, IndInv, JobOK
  <2>2. \A p \in Place : Sound(p)
    BY <1>1, <2>1
  <2>3. CASE Return(a) /\ UNCHANGED file
    <3>1. apc'[a] = "idle" /\ \A p \in Place : Sound(p)'
      BY <1>2, <2>1, <2>2, <2>3 DEF Return, Sound
    <3> QED
      BY <1>0, <1>i, <3>1, SoloGoal
  <2>4. CASE /\ file[job[a].to] = NoKey /\ file' = [file EXCEPT ![job[a].to] = file[job[a].at]]
             /\ apc' = [apc EXCEPT ![a] = "copied"] /\ job' = job
    <3>1. apc'[a] = "copied" /\ job[a].to \notin marker
      BY <1>2, <2>1, <2>2, <2>4 DEF Sound
    <3>2. \A p \in Place : Sound(p)' \/ p = job[a].to
      BY <1>2, <2>1, <2>2, <2>4 DEF Sound
    <3>3. TestsHold(a)'
      BY <3>1 DEF TestsHold
    <3> QED
      BY <1>0, <2>1, <2>4, <3>1, <3>2, <3>3, SoloGoal DEF Excused
  <2> QED
    BY <1>8, <2>3, <2>4 DEF ReindexCopy
<1>9. CASE ReindexMarker(a)
  <2> DEFINE at == job[a].at
             to == job[a].to
  <2>1. /\ apc[a] = "copied" /\ UNCHANGED <<job, file, off>> /\ at \in Place /\ to \in Place
        /\ at # to /\ file[at] = file[to] /\ file[at] # NoKey
    BY <1>9 DEF ReindexMarker, IndInv, JobOK, MoveKeepsBoth
  <2>2. /\ \A p \in Place : p # to => Sound(p)
        /\ Sound(to) \/ to \notin marker
    BY <1>0, <2>1 DEF Excused
  <2>3. apc'[a] \in {"moved", "undo"}
    BY <1>2, <1>9 DEF ReindexMarker
  <2>4. TestsHold(a)'
    BY <2>3 DEF TestsHold
  <2>5. CASE apc'[a] = "moved"
    <3>1. \/ at \notin marker /\ marker' = marker
          \/ at \in marker /\ to \notin marker /\ marker' = marker \cup {to}
      BY <1>2, <1>9, <2>5 DEF ReindexMarker
    <3>2. \A p \in Place : Sound(p)'
      <4> HIDE DEF at, to
      <4> QED
        BY <2>1, <2>2, <3>1 DEF Sound
    <3> QED
      BY <1>0, <2>4, <3>2, SoloGoal
  <2>6. CASE apc'[a] = "undo"
    <3>1. marker' = marker
      BY <1>2, <1>9, <2>6 DEF ReindexMarker
    <3>2. \A p \in Place : Sound(p)' <=> Sound(p)
      BY <2>1, <3>1 DEF Sound
    <3>3. \A p \in Place : Sound(p)' \/ Excused(a, p)'
      BY <2>1, <2>2, <2>6, <3>1, <3>2 DEF Excused
    <3> QED
      BY <1>0, <2>4, <3>3, SoloGoal
  <2> QED
    BY <2>3, <2>5, <2>6
<1>10. CASE ReindexUnlink(a) \/ ReindexUndo(a)
  <2>1. /\ apc[a] \in {"moved", "undo"} /\ apc'[a] = "unmark" /\ UNCHANGED <<marker, off>>
        /\ job[a].at \in Place /\ job[a].to \in Place
    BY <1>2, <1>10 DEF ReindexUnlink, ReindexUndo, IndInv, JobOK
  <2>2. PICK p \in Place : /\ file' = [file EXCEPT ![p] = NoKey] /\ job'[a].at = p
                           /\ apc[a] = "undo" => p = job[a].to
    BY <1>2, <1>10, <2>1 DEF ReindexUnlink, ReindexUndo, Jobs
  <2>3. \A q \in Place : q # p => Sound(q)
    BY <1>0, <2>1, <2>2 DEF Excused
  <2>4. \A q \in Place : q # p => Sound(q)'
    BY <1>2, <2>1, <2>2, <2>3 DEF Sound
  <2>5. TestsHold(a)'
    BY <1>2, <2>1, <2>2 DEF TestsHold
  <2> QED
    BY <1>0, <2>1, <2>2, <2>4, <2>5, SoloGoal DEF Excused
<1> QED
  BY <1>3, <1>4, <1>5, <1>6, <1>7, <1>8, <1>9, <1>10 DEF AdminStep

\* A cryptographic operation changes nothing SoloOK speaks of.
LEMMA QuietSolo ==
  ASSUME SoloOK, UNCHANGED <<file, marker, apc, job, off>>, overlap => overlap'
  PROVE  SoloOK'
<1>1. \A p \in Place : /\ Sound(p)' <=> Sound(p)
                       /\ \A a \in Admin : Excused(a, p)' <=> Excused(a, p)
  BY DEF Sound, Excused
<1>2. \A a \in Admin : TestsHold(a)' <=> TestsHold(a)
  BY DEF TestsHold
<1> QED
  BY <1>1, <1>2 DEF SoloOK

\* A kill that hits no command leaves the files as they were.
LEMMA CrashSolo ==
  ASSUME IndInv, SoloOK, Crash, NotesOverlap
  PROVE  SoloOK'
<1> SUFFICES ASSUME ~ overlap'
             PROVE  SoloOK'
  BY DEF SoloOK
<1>1. crashes' # crashes
  BY DEF Crash, IndInv, StateOK
<1>2. ~ overlap /\ \A a \in Admin : apc[a] = "idle"
  BY <1>1 DEF NotesOverlap
<1>3. \A a \in Admin : apc'[a] = "idle"
  BY DEF Crash
<1>4. UNCHANGED <<file, marker, off>>
  BY DEF Crash, files
<1>5. \A p \in Place : Sound(p)
  BY <1>2 DEF SoloOK, Excused
<1>6. \A p \in Place : Sound(p)'
  BY <1>4, <1>5 DEF Sound
<1>7. \A a \in Admin : TestsHold(a)'
  BY <1>3 DEF TestsHold
<1> QED
  BY <1>3, <1>6, <1>7 DEF SoloOK

\* Every step keeps SoloOK.
LEMMA NextSolo == IndInv /\ FreshOK /\ PairsOK /\ SoloOK /\ [Next]_vars => SoloOK'
<1> SUFFICES ASSUME IndInv, FreshOK, PairsOK, SoloOK, [Next]_vars
             PROVE  SoloOK'
  OBVIOUS
<1>1. CASE UNCHANGED vars
  BY <1>1, QuietSolo DEF vars
<1>2. ASSUME NEW a \in Admin, AdminStep(a), NotesOverlap
      PROVE  SoloOK'
  <2>1. CASE ~ overlap'
    BY <1>2, <2>1, AdminSolo
  <2>2. CASE overlap'
    BY <2>2 DEF SoloOK
  <2> QED
    BY <2>1, <2>2
<1>3. ASSUME NEW u \in User, UserStep(u), NotesOverlap
      PROVE  SoloOK'
  <2>1. UNCHANGED <<file, marker, apc, job, off>>
    BY <1>3 DEF UserStep, ReadRecord, CheckDisabled, Finish, files, admins
  <2>2. overlap => overlap'
    BY <1>3 DEF NotesOverlap
  <2> QED
    BY <2>1, <2>2, QuietSolo
<1>4. CASE Crash /\ NotesOverlap
  BY <1>4, CrashSolo
<1> QED
  BY <1>1, <1>2, <1>3, <1>4 DEF Next, Step

\* Commands that run one after the other find what they tested.
LEMMA Solo == Spec => []SoloOK
<1>1. Init => SoloOK
  BY DEF Init, SoloOK, Sound, TestsHold
<1>2. IndInv /\ FreshOK /\ PairsOK /\ SoloOK /\ [Next]_vars => SoloOK'
  BY NextSolo
<1> QED
  BY <1>1, <1>2, Invariant, Pairs, PTL DEF Spec

\* MarkerTellsState for every number of indexes, keys and commands: as long as
\* commands run one after the other, the ".disabled" files of delete,
\* set_enabled and reindex say exactly which keys are off.
THEOREM MarkersAreTrue == Spec => []MarkerTellsState
<1>1. IndInv /\ SoloOK => MarkerTellsState
  <2> SUFFICES ASSUME IndInv, SoloOK, AtRest, ~ overlap
               PROVE  /\ \A p \in marker : file[p] # NoKey
                      /\ \A p \in Place : file[p] # NoKey => (p \in marker <=> file[p] \in off)
    BY DEF MarkerTellsState
  <2>1. \A p \in Place : Sound(p)
    BY DEF SoloOK, Excused, AtRest
  <2>2. marker \subseteq Place
    BY DEF IndInv, StateOK
  <2> QED
    BY <2>1, <2>2 DEF Sound
<1> QED
  BY <1>1, Invariant, Solo, PTL

\* A record appears where a create or the copy of a reindex writes it.
LEMMA NewRecord ==
  ASSUME IndInv, NEW a \in Admin, AdminStep(a), NEW p \in Place,
         file[p] = NoKey, file'[p] # NoKey
  PROVE  /\ \/ apc[a] = "create" /\ job[a].at = p
            \/ apc[a] = "move" /\ job[a].to = p /\ job[a].at[1] = p[1]
         /\ \A q \in Place : q # p => file'[q] = file[q]
<1>1. file \in [Place -> Key \cup {NoKey}]
  BY DEF IndInv, StateOK
<1>2. CASE CreateRecord(a)
  <2>1. apc[a] = "create" /\ job[a].at \in Place /\ file' = [file EXCEPT ![job[a].at] = generated + 1]
    BY <1>2 DEF CreateRecord, WriteRecord, IndInv, JobOK
  <2> QED
    BY <1>1, <2>1
<1>3. CASE ReindexCopy(a)
  <2>1. /\ apc[a] = "move" /\ job[a].to \in Place /\ job[a].to[1] = job[a].at[1]
        /\ file' = [file EXCEPT ![job[a].to] = file[job[a].at]]
    BY <1>3 DEF ReindexCopy, WriteRecord, IndInv, JobOK
  <2> QED
    BY <1>1, <2>1
<1>4. CASE ~ CreateRecord(a) /\ ~ ReindexCopy(a)
  <2>1. file' = file \/ \E q : file' = [file EXCEPT ![q] = NoKey]
    BY <1>4 DEF AdminStep, CreateBegin, DeleteRecord, RemoveMarker, SetEnabledBegin, SetEnabled,
       ReindexBegin, ReindexMarker, ReindexUnlink, ReindexUndo, files
  <2> QED
    BY <1>1, <2>1
<1> QED
  BY <1>2, <1>3, <1>4

\* SharedOnlyByMove for every number of indexes, keys and commands: of the
\* steps that write a record only the copy of internal_key_admin_reindex can
\* put a key where the other family has one, when nothing overlaps.
THEOREM IndexesStayApart == Spec => SharedOnlyByMove
<1> DEFINE Apart ==
      \A s \in Slot :
        (Exists("SM2", s)' /\ Exists("RSA", s)') =>
          \/ Exists("SM2", s) /\ Exists("RSA", s)
          \/ \E a \in Admin : apc[a] = "move" /\ job[a].to = <<"SM2", s>>
<1>1. ASSUME IndInv, SoloOK, [Next]_vars, ~ overlap
      PROVE  Apart
  <2> SUFFICES ASSUME NEW s \in Slot, Exists("SM2", s)', Exists("RSA", s)',
                      ~ (Exists("SM2", s) /\ Exists("RSA", s))
               PROVE  \E a \in Admin : apc[a] = "move" /\ job[a].to = <<"SM2", s>>
    OBVIOUS
  <2>1. PICK f \in Family : ~ Exists(f, s) /\ Exists(f, s)' /\ Exists(Other(f), s)'
    BY DEF Family, Other
  <2>2. <<f, s>> \in Place /\ file[<<f, s>>] = NoKey /\ file'[<<f, s>>] # NoKey
    BY <2>1 DEF Place, Exists
  <2>3. PICK a \in Admin : AdminStep(a)
    BY <1>1, <2>2, OtherSteps DEF Next, Step
  <2>4. TestsHold(a) /\ file \in [Place -> Key \cup {NoKey}]
    BY <1>1 DEF SoloOK, IndInv, StateOK
  <2>5. /\ \/ apc[a] = "create" /\ job[a].at = <<f, s>>
           \/ apc[a] = "move" /\ job[a].to = <<f, s>> /\ job[a].at[1] = f
        /\ \A p \in Place : p # <<f, s>> => file'[p] = file[p]
    BY <1>1, <2>2, <2>3, NewRecord
  <2>6. <<Other(f), s>> \in Place /\ <<Other(f), s>> # <<f, s>>
    BY DEF Place, Other, Family
  <2>7. file[<<Other(f), s>>] # NoKey
    BY <2>1, <2>5, <2>6 DEF Exists
  <2>8. apc[a] # "create"
    BY <2>4, <2>5, <2>7 DEF TestsHold
  <2>9. f # "RSA"
    BY <2>4, <2>5, <2>7, <2>8 DEF TestsHold, Other
  <2> QED
    BY <2>5, <2>8, <2>9 DEF Family
<1>2. IndInv /\ SoloOK /\ [Next]_vars => [overlap \/ Apart]_vars
  BY <1>1
<1> QED
  BY <1>2, Invariant, Solo, PTL DEF Spec, SharedOnlyByMove

(***************************************************************************)
(* Reads of disabled keys                                                  *)
(***************************************************************************)

\* What an operation has read is a key from some place; keys it may not have
\* are still off.
ReadOK ==
  \A u \in User :
    /\ barred[u] \subseteq off
    /\ upc[u] = "check" => read[u].at \in Place /\ read[u].key \in Key

\* A key that is switched on is taken from both sets at once.
LEMMA NextRead == IndInv /\ ReadOK /\ [Next]_vars => ReadOK'
<1> SUFFICES ASSUME IndInv, ReadOK, [Next]_vars PROVE ReadOK'
  OBVIOUS
<1>t. /\ barred \in [User -> SUBSET Key] /\ off \in SUBSET Key /\ file \in [Place -> Key \cup {NoKey}]
      /\ upc \in [User -> {"idle", "check", "loaded"}]
      /\ read \in [User -> [at : SomePlace, key : Key \cup {NoKey}]]
  BY DEF IndInv, StateOK
<1>1. ASSUME UNCHANGED <<upc, read, barred, off>> PROVE ReadOK'
  BY <1>1 DEF ReadOK
<1>2. ASSUME NEW a \in Admin, SetEnabled(a) PROVE ReadOK'
  <2>1. UNCHANGED <<upc, read>>
    BY <1>2 DEF SetEnabled
  <2>2. \A u \in User : barred'[u] \subseteq off'
    <3>1. PICK k : \/ off' = off \ k /\ barred' = [u \in User |-> barred[u] \ k]
                   \/ off' = off \cup k /\ barred' = barred
                   \/ off' = off /\ barred' = barred
      BY <1>2 DEF SetEnabled
    <3> QED
      BY <3>1 DEF ReadOK
  <2> QED
    BY <2>1, <2>2 DEF ReadOK
<1>3. ASSUME NEW a \in Admin, AdminStep(a), ~ SetEnabled(a) PROVE ReadOK'
  BY <1>1, <1>3 DEF AdminStep, CreateBegin, CreateRecord, DeleteRecord, RemoveMarker, SetEnabledBegin,
     ReindexBegin, ReindexCopy, ReindexMarker, ReindexUnlink, ReindexUndo, users
<1>4. ASSUME NEW u \in User, UserStep(u) PROVE ReadOK'
  <2>1. off' = off /\ \A v \in User : v # u => barred'[v] = barred[v] /\ upc'[v] = upc[v] /\ read'[v] = read[v]
    BY <1>t, <1>4 DEF UserStep, ReadRecord, CheckDisabled, Finish
  <2>2. barred'[u] \subseteq off
    BY <1>t, <1>4 DEF UserStep, ReadRecord, CheckDisabled, Finish, ReadOK
  <2>3. upc'[u] = "check" => read'[u].at \in Place /\ read'[u].key \in Key
    <3>1. CASE ReadRecord(u)
      <4>1. PICK p \in Place : file[p] # NoKey /\ read' = [read EXCEPT ![u] = [at |-> p, key |-> file[p]]]
        BY <3>1 DEF ReadRecord
      <4>2. read'[u] = [at |-> p, key |-> file[p]] /\ file[p] \in Key
        BY <1>t, <4>1
      <4> QED
        BY <4>2
    <3>2. CASE CheckDisabled(u) \/ Finish(u)
      BY <1>t, <3>2 DEF CheckDisabled, Finish
    <3> QED
      BY <1>4, <3>1, <3>2 DEF UserStep
  <2> QED
    BY <2>1, <2>2, <2>3 DEF ReadOK
<1>5. CASE Crash
  BY <1>5 DEF Crash, ReadOK
<1>6. CASE UNCHANGED vars
  BY <1>1, <1>6 DEF vars
<1> QED
  BY <1>2, <1>3, <1>4, <1>5, <1>6 DEF Next, Step

\* DisabledOnlyIfMoved for every number of commands, operations and keys: with
\* SoloOK the marker is missing at a disabled key's record only where reindex
\* is between writing the record and writing the marker.
THEOREM DisabledKeysAreRefused == Spec => DisabledOnlyIfMoved
<1> DEFINE Refused ==
      \A u \in User :
        (upc[u] = "check" /\ upc'[u] = "loaded" /\ read[u].key \in barred[u] /\ ~ overlap) =>
          \/ file[read[u].at] # read[u].key
          \/ \E a \in Admin : apc[a] \in {"copied", "undo"} /\ job[a].to = read[u].at
<1>1. ASSUME IndInv, SoloOK, ReadOK, [Next]_vars PROVE Refused
  <2> SUFFICES ASSUME NEW u \in User, upc[u] = "check", upc'[u] = "loaded",
                      read[u].key \in barred[u], ~ overlap, file[read[u].at] = read[u].key
               PROVE  \E a \in Admin : apc[a] \in {"copied", "undo"} /\ job[a].to = read[u].at
    OBVIOUS
  <2>0. upc \in [User -> {"idle", "check", "loaded"}]
    BY <1>1 DEF IndInv, StateOK
  <2>1. CheckDisabled(u)
    <3>1. ASSUME NEW a \in Admin, AdminStep(a) PROVE upc' = upc
      BY <3>1 DEF AdminStep, CreateBegin, CreateRecord, DeleteRecord, RemoveMarker, SetEnabledBegin,
         SetEnabled, ReindexBegin, ReindexCopy, ReindexMarker, ReindexUnlink, ReindexUndo, users
    <3>2. ASSUME NEW v \in User, UserStep(v), ~ (v = u /\ CheckDisabled(v)) PROVE FALSE
      BY <2>0, <3>2 DEF UserStep, ReadRecord, CheckDisabled, Finish
    <3>3. ~ Crash /\ ~ UNCHANGED vars
      BY DEF Crash, vars
    <3> QED
      BY <1>1, <3>1, <3>2, <3>3 DEF Next, Step
  <2>2. read[u].at \notin marker
    BY <2>0, <2>1 DEF CheckDisabled
  <2>3. read[u].at \in Place /\ file[read[u].at] # NoKey /\ file[read[u].at] \in off
    <3>1. read[u].at \in Place /\ read[u].key \in Key /\ read[u].key \in off
      BY <1>1 DEF ReadOK
    <3>2. NoKey \notin Key
      BY KeyStoreAssumption DEF Key, NoKey
    <3> QED
      BY <3>1, <3>2
  <2>4. ~ Sound(read[u].at)
    BY <2>2, <2>3 DEF Sound
  <2>5. PICK a \in Admin : Excused(a, read[u].at)
    BY <1>1, <2>3, <2>4 DEF SoloOK
  <2>6. ~ (apc[a] = "unmark" /\ read[u].at = job[a].at)
    BY <1>1, <2>3 DEF SoloOK, TestsHold
  <2> QED
    BY <2>5, <2>6 DEF Excused
<1>2. Init => ReadOK
  BY DEF Init, ReadOK
<1>3. IndInv /\ SoloOK /\ ReadOK /\ [Next]_vars => [Refused]_vars
  BY <1>1
<1>4. Spec => []ReadOK
  BY <1>2, NextRead, Invariant, PTL DEF Spec
<1> HIDE DEF Refused
<1>5. Spec => [][Refused]_vars
  BY <1>3, <1>4, Invariant, Solo, PTL DEF Spec
<1> QED
  BY <1>5 DEF DisabledOnlyIfMoved, Refused
=============================================================================
