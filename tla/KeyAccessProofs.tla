--------------------------- MODULE KeyAccessProofs --------------------------
(***************************************************************************)
(* Proofs about KeyAccess, for any number of indexes, passwords, sessions, *)
(* threads and keys.  The invariant is IndInv: every record opens, every   *)
(* permission is the secret of the record it was given for and was earned  *)
(* with its password, and so is every permission that a request is about   *)
(* to store.                                                               *)
(***************************************************************************)
EXTENDS KeyAccess, TLAPS

Typed == Password \cup {NoPassword}

\* A record of place p that its own secret opens.
Opens(p, r) ==
  /\ r.cipher = Encrypt(r.public, Opener(p, r))
  /\ ~ Passwordless(r) => r.verifier.by \in Password

RecordsOK == \A p \in Place : record[p] # NoOne => Opens(p, record[p])

\* A permission for place p, given for the record it has seen.
GrantOK(p, g) ==
  g = NoPermission \/ (g.seen \in Record /\ g.secret = Opener(p, g.seen))

PermissionsOK ==
  \A s \in Session, p \in Place :
    LET g == permission[s][p]
    IN  GrantOK(p, g) /\ (g.secret.by \in Password => <<s, p, g.secret.by>> \in proved)

\* A permission for place p that was earned with w.
ShownOK(p, g, w) == GrantOK(p, g) /\ (g.secret.by \in Password => g.secret.by = w)

\* get_access between its reads: the job is about an encryption key.
AccessOK(t) ==
  pc[t] \in {"enc", "store"} =>
    /\ job[t].session \in Session /\ job[t].password \in Typed
    /\ job[t].at \in {"enc"} \X Index
    /\ ShownOK(<<"sign", job[t].at[2]>>, job[t].sign, job[t].password)
    /\ pc[t] = "store" => ShownOK(job[t].at, job[t].enc, job[t].password)

LoadOK(t) ==
  /\ pc[t] = "read" =>
       /\ job[t].session \in Session /\ job[t].at \in Place
       /\ job[t].record \in Record /\ Opens(job[t].at, job[t].record)
  /\ pc[t] = "loaded" =>
       \/ job[t].key = job[t].record.public
       \/ job[t].seen \notin {NoOne, job[t].record}

IndInv ==
  /\ TypeOK /\ RecordsOK /\ PermissionsOK
  /\ \A t \in Thread : AccessOK(t) /\ LoadOK(t)

(***************************************************************************)
(* Records and secrets                                                     *)
(***************************************************************************)

\* Secrets are distinguishable from the absence of one.
LEMMA NoSecretFact ==
  /\ NoSecret \notin Secret
  /\ NoSecret.by \notin Password
  /\ NoPermission \in Permission
  /\ NoJob \in Job
BY AccessAssumption DEF NoSecret, Secret, Salt, NoPermission, Permission, NoJob, Job,
     Garbage, Key

\* Sealing: the record has its type, and opens if the two halves match.
LEMMA SealedOK ==
  ASSUME NEW p \in Place, NEW k \in Key, NEW x \in Key \cup {Garbage}, NEW w \in Typed,
         NEW salt \in Salt
  PROVE  /\ Sealed(p, k, x, w, salt) \in Record
         /\ Sealed(p, k, x, w, salt).salt = salt
         /\ x = k => Opens(p, Sealed(p, k, x, w, salt))
<1>1. Derived(p, salt) \in Secret /\ (w \in Password => Derived(w, salt) \in Secret)
  BY DEF Derived, Secret
<1>2. Sealed(p, k, x, w, salt) \in Record
  BY <1>1, AccessAssumption DEF Sealed, Record, Verifier, SecretFor, Encrypt, Typed
<1>3. ASSUME x = k PROVE Opens(p, Sealed(p, k, x, w, salt))
  <2>1. CASE w = NoPassword
    BY <1>3, <2>1 DEF Opens, Sealed, Passwordless, Opener, Verifier, SecretFor, Encrypt
  <2>2. CASE w \in Password
    <3>1. w # NoPassword /\ Derived(w, salt) # NoSecret
      BY <1>1, <2>2, NoSecretFact, AccessAssumption
    <3> QED
      BY <1>3, <2>2, <3>1 DEF Opens, Sealed, Passwordless, Opener, Verifier, SecretFor,
           Encrypt, Derived
  <2> QED
    BY <2>1, <2>2 DEF Typed
<1> QED
  BY <1>2, <1>3 DEF Sealed

\* What derive_and_verify returns for a record is the secret that opens it.
LEMMA VerifiedOpens ==
  ASSUME NEW p \in Place, NEW r \in Record, NEW w \in Typed, Verified(p, r, w) # NoSecret
  PROVE  /\ Verified(p, r, w) = Opener(p, r)
         /\ Verified(p, r, w) \in Secret
         /\ Verified(p, r, w).by \in Password => Verified(p, r, w).by = w
         /\ Opens(p, r) => Decrypt(r.cipher, Verified(p, r, w)) = r.public
<1>1. r # NoOne /\ p \notin Password
  BY AccessAssumption
<1>2. Derived(p, r.salt) \in Secret /\ (w \in Password => Derived(w, r.salt) \in Secret)
  BY DEF Derived, Secret, Record
<1>3. CASE Passwordless(r)
  BY <1>1, <1>2, <1>3 DEF Verified, Opener, Derived, Opens, Decrypt, Encrypt
<1>4. CASE ~ Passwordless(r)
  BY <1>1, <1>2, <1>4 DEF Verified, Opener, Derived, Opens, Decrypt, Encrypt, Typed
<1> QED
  BY <1>3, <1>4

\* What get_access finds at one place is a permission earned with its password.
LEMMA GrantedOK ==
  ASSUME TypeOK, NEW p \in Place, NEW w \in Typed
  PROVE  /\ Granted(p, w) \in Permission
         /\ ShownOK(p, Granted(p, w), w)
<1>1. CASE Verified(p, record[p], w) = NoSecret
  BY <1>1, NoSecretFact DEF Granted, NoPermission, Permission, ShownOK, GrantOK
<1>2. CASE Verified(p, record[p], w) # NoSecret
  <2>1. record[p] \in Record
    BY <1>2 DEF TypeOK, Verified
  <2> QED
    BY <1>2, <2>1, VerifiedOpens DEF Granted, Permission, ShownOK, GrantOK
<1> QED
  BY <1>1, <1>2

(***************************************************************************)
(* Steps                                                                   *)
(***************************************************************************)

\* Nothing is stored, held or under way.
LEMMA InitInv == Init => IndInv
<1> SUFFICES ASSUME Init PROVE IndInv
  OBVIOUS
<1>1. TypeOK
  BY AccessAssumption, NoSecretFact DEF Init, TypeOK, NoRights, PC
<1>2. RecordsOK /\ PermissionsOK
  BY NoSecretFact DEF Init, RecordsOK, PermissionsOK, NoRights, GrantOK, NoPermission
<1>3. \A t \in Thread : AccessOK(t) /\ LoadOK(t)
  BY DEF Init, AccessOK, LoadOK
<1> QED
  BY <1>1, <1>2, <1>3 DEF IndInv

\* A step of an administrative command changes files only: what requests and
\* sessions hold does not depend on them.
LEMMA StoreStep ==
  ASSUME IndInv, UNCHANGED <<rights, pc, job>>,
         record' \in [Place -> Record \cup {NoOne}],
         moving' \in (Place \X Place) \cup {NoOne}, fresh' \in 0 .. MaxFresh,
         RecordsOK'
  PROVE  IndInv'
<1>1. TypeOK'
  BY DEF IndInv, TypeOK, rights
<1>2. PermissionsOK'
  BY DEF IndInv, PermissionsOK, rights
<1>3. \A t \in Thread : (AccessOK(t) /\ LoadOK(t))'
  BY DEF IndInv, AccessOK, LoadOK, rights
<1> QED
  BY <1>1, <1>2, <1>3 DEF IndInv

\* Writing one record that opens, or removing one, keeps all records open.
LEMMA PutRecord ==
  ASSUME IndInv, NEW p \in Place, NEW r \in Record \cup {NoOne},
         record' = [record EXCEPT ![p] = r], r # NoOne => Opens(p, r)
  PROVE  RecordsOK' /\ record' \in [Place -> Record \cup {NoOne}]
BY DEF IndInv, TypeOK, RecordsOK

\* Every administrative command leaves records that open.
LEMMA AdminInv == IndInv /\ AdminStep => IndInv'
<1> SUFFICES ASSUME IndInv, AdminStep PROVE IndInv'
  OBVIOUS
<1>t. TypeOK /\ RecordsOK
  BY DEF IndInv
<1>n. fresh < MaxFresh => fresh + 1 \in Key /\ fresh + 1 \in Salt /\ fresh + 1 \in 0 .. MaxFresh
  BY <1>t, AccessAssumption DEF TypeOK, Key, Salt
<1>r. \A p \in Place : record[p] # NoOne =>
         /\ record[p] \in Record /\ Opens(p, record[p])
         /\ record[p].public \in Key /\ record[p].salt \in Salt
  BY <1>t DEF TypeOK, RecordsOK, Record
<1>1. ASSUME NEW p \in Place, NEW w \in Typed, CreateRecord(p, w) PROVE IndInv'
  <2>1. fresh + 1 \in Key /\ fresh + 1 \in Salt /\ fresh' \in 0 .. MaxFresh
    BY <1>1, <1>n DEF CreateRecord
  <2>2. /\ Sealed(p, fresh + 1, fresh + 1, w, fresh + 1) \in Record
        /\ Opens(p, Sealed(p, fresh + 1, fresh + 1, w, fresh + 1))
    BY <2>1, SealedOK
  <2>3. RecordsOK' /\ record' \in [Place -> Record \cup {NoOne}]
    BY <1>1, <2>2, PutRecord DEF CreateRecord
  <2> QED
    BY <1>1, <1>t, <2>1, <2>3, StoreStep DEF CreateRecord, TypeOK
<1>2. ASSUME NEW p \in Place, DeleteRecord(p) PROVE IndInv'
  <2>1. RecordsOK' /\ record' \in [Place -> Record \cup {NoOne}]
    BY <1>2, PutRecord DEF DeleteRecord
  <2> QED
    BY <1>2, <1>t, <2>1, StoreStep DEF DeleteRecord, TypeOK
<1>3. ASSUME NEW p \in Place, NEW old \in Typed, NEW new \in Typed, ChangePassword(p, old, new)
      PROVE  IndInv'
  <2> DEFINE r == record[p]
             k == Decrypt(r.cipher, Verified(p, r, old))
             s == Sealed(p, r.public, k, new, fresh + 1)
  <2>1. fresh + 1 \in Salt /\ fresh' \in 0 .. MaxFresh
    BY <1>3, <1>n DEF ChangePassword
  <2>2. r \in Record /\ Opens(p, r) /\ r.public \in Key /\ Verified(p, r, old) # NoSecret
    BY <1>3, <1>r DEF ChangePassword
  <2>3. k = r.public
    BY <2>2, VerifiedOpens
  <2>4. s \in Record /\ Opens(p, s)
    BY <2>1, <2>2, <2>3, SealedOK
  <2>5. record' = [record EXCEPT ![p] = s]
    BY <1>3 DEF ChangePassword
  <2>6. RecordsOK' /\ record' \in [Place -> Record \cup {NoOne}]
    BY <2>4, <2>5, PutRecord
  <2> QED
    BY <1>3, <1>t, <2>1, <2>6, StoreStep DEF ChangePassword, TypeOK
<1>4. ASSUME NEW p \in Place, NEW q \in Place, ReindexCopy(p, q) PROVE IndInv'
  <2> DEFINE r == record[p]
  <2>1. /\ r \in Record /\ Opens(p, r) /\ r.public \in Key /\ r.salt \in Salt
        /\ Decrypt(r.cipher, Derived(p, r.salt)) \in Key \cup {Garbage}
    BY <1>4, <1>r DEF ReindexCopy, Decrypt, Record, Opens, Encrypt
  <2>2. Resealed(p, q, r) \in Record /\ Opens(q, Resealed(p, q, r))
    <3>1. CASE Passwordless(r)
      <4>1. Decrypt(r.cipher, Derived(p, r.salt)) = r.public
        BY <2>1, <3>1 DEF Opens, Opener, Decrypt, Encrypt
      <4> QED
        BY <2>1, <3>1, <4>1, SealedOK DEF Resealed, Typed
    <3>2. CASE ~ Passwordless(r)
      BY <2>1, <3>2 DEF Resealed, Opens, Opener
    <3> QED
      BY <3>1, <3>2
  <2>3. RecordsOK' /\ record' \in [Place -> Record \cup {NoOne}]
    BY <1>4, <2>2, PutRecord DEF ReindexCopy
  <2> QED
    BY <1>4, <1>t, <2>3, StoreStep DEF ReindexCopy, TypeOK
<1>5. ASSUME ReindexUnlink PROVE IndInv'
  <2>1. PICK i \in {1, 2} : record' = [record EXCEPT ![moving[i]] = NoOne]
    BY <1>5 DEF ReindexUnlink
  <2>2. moving[i] \in Place
    BY <1>5, <1>t DEF ReindexUnlink, MutexFree, TypeOK
  <2>3. RecordsOK' /\ record' \in [Place -> Record \cup {NoOne}]
    BY <2>1, <2>2, PutRecord
  <2> QED
    BY <1>5, <1>t, <2>3, StoreStep DEF ReindexUnlink, TypeOK
<1> QED
  BY <1>1, <1>2, <1>3, <1>4, <1>5 DEF AdminStep, Typed

\* A step of one request that changes nothing but its own variables.
LEMMA JobStep ==
  ASSUME IndInv, NEW t \in Thread, NEW l \in PC, NEW j \in Job,
         Goto(t, l), Set(t, j), UNCHANGED <<store, rights>>,
         (AccessOK(t) /\ LoadOK(t))'
  PROVE  IndInv'
<1>1. TypeOK'
  BY DEF IndInv, TypeOK, Goto, Set, store, rights
<1>2. RecordsOK' /\ PermissionsOK'
  BY DEF IndInv, RecordsOK, PermissionsOK, store, rights
<1>3. ASSUME NEW u \in Thread PROVE (AccessOK(u) /\ LoadOK(u))'
  <2>1. CASE u = t
    BY <2>1
  <2>2. CASE u # t
    <3>1. pc'[u] = pc[u] /\ job'[u] = job[u]
      BY <2>2 DEF IndInv, TypeOK, Goto, Set
    <3> QED
      BY <3>1 DEF IndInv, AccessOK, LoadOK
  <2> QED
    BY <2>1, <2>2
<1> QED
  BY <1>1, <1>2, <1>3 DEF IndInv

\* A request that ends.
LEMMA ReturnStep ==
  ASSUME IndInv, NEW t \in Thread, Return(t), UNCHANGED <<store, rights>>
  PROVE  IndInv'
<1>1. (AccessOK(t) /\ LoadOK(t))'
  BY DEF IndInv, TypeOK, Return, Goto, AccessOK, LoadOK
<1> QED
  BY <1>1, JobStep, NoSecretFact DEF Return, PC

\* get_access reads and verifies, one key at a time.
LEMMA AccessInv ==
  ASSUME IndInv, NEW t \in Thread, AccessSign(t) \/ AccessEnc(t)
  PROVE  IndInv'
<1>t. TypeOK /\ AccessOK(t) /\ job[t] \in Job
  BY DEF IndInv, TypeOK
<1>1. ASSUME AccessSign(t) PROVE IndInv'
  <2>1. PICK s \in Session, i \in Index, w \in Typed :
          Set(t, [NoJob EXCEPT !.session = s, !.at = <<"enc", i>>, !.password = w,
                               !.sign = Granted(<<"sign", i>>, w)])
    BY <1>1 DEF AccessSign, Typed
  <2> DEFINE g == Granted(<<"sign", i>>, w)
             j == [NoJob EXCEPT !.session = s, !.at = <<"enc", i>>, !.password = w, !.sign = g]
  <2>2. <<"sign", i>> \in Place /\ <<"enc", i>> \in Place
    BY DEF Place
  <2>3. g \in Permission /\ ShownOK(<<"sign", i>>, g, w)
    BY <1>t, <2>2, GrantedOK
  <2>4. /\ j \in Job /\ j.session = s /\ j.at = <<"enc", i>> /\ j.password = w /\ j.sign = g
    <3> HIDE DEF g
    <3> QED
      BY <2>2, <2>3, NoSecretFact DEF Job, NoJob, Typed
  <2>5. job'[t] = j /\ pc'[t] = "enc"
    BY <1>1, <1>t, <2>1 DEF AccessSign, Set, Goto, TypeOK
  <2>6. (AccessOK(t) /\ LoadOK(t))'
    <3> HIDE DEF g, j
    <3> QED
      BY <2>3, <2>4, <2>5 DEF AccessOK, LoadOK
  <2> QED
    BY <1>1, <2>1, <2>4, <2>6, JobStep DEF AccessSign, PC
<1>2. ASSUME AccessEnc(t) PROVE IndInv'
  <2> DEFINE g == Granted(job[t].at, job[t].password)
             j == [job[t] EXCEPT !.enc = g]
  <2>1. job[t].at \in Place /\ job[t].password \in Typed
    BY <1>2, <1>t DEF AccessEnc, AccessOK, Place
  <2>2. g \in Permission /\ ShownOK(job[t].at, g, job[t].password)
    BY <1>t, <2>1, GrantedOK
  <2>3. CASE Return(t)
    BY <1>2, <2>3, ReturnStep DEF AccessEnc
  <2>4. CASE Goto(t, "store") /\ Set(t, j)
    <3> HIDE DEF g
    <3>1. /\ j \in Job /\ j.enc = g /\ j.session = job[t].session /\ j.at = job[t].at
          /\ j.password = job[t].password /\ j.sign = job[t].sign
      BY <1>t, <2>2 DEF Job
    <3>2. job'[t] = j /\ pc'[t] = "store"
      BY <1>t, <2>4 DEF Set, Goto, TypeOK
    <3>3. (AccessOK(t) /\ LoadOK(t))'
      <4> HIDE DEF j
      <4> QED
        BY <1>2, <1>t, <2>2, <3>1, <3>2 DEF AccessEnc, AccessOK, LoadOK
    <3> QED
      BY <1>2, <2>4, <3>1, <3>3, JobStep DEF AccessEnc, PC
  <2> QED
    BY <1>2, <2>3, <2>4 DEF AccessEnc
<1> QED
  BY <1>1, <1>2

\* An operation reads the record and takes a secret.
LEMMA LoadInv ==
  ASSUME IndInv, NEW t \in Thread, LoadRead(t) \/ LoadSecret(t)
  PROVE  IndInv'
<1>t. TypeOK /\ LoadOK(t) /\ job[t] \in Job /\ RecordsOK
  BY DEF IndInv, TypeOK
<1>1. ASSUME LoadRead(t) PROVE IndInv'
  <2>1. PICK s \in Session, p \in Place :
          /\ record[p] # NoOne
          /\ Set(t, [NoJob EXCEPT !.session = s, !.at = p, !.record = record[p]])
    BY <1>1 DEF LoadRead
  <2> DEFINE j == [NoJob EXCEPT !.session = s, !.at = p, !.record = record[p]]
  <2>2. record[p] \in Record /\ Opens(p, record[p])
    BY <1>t, <2>1 DEF TypeOK, RecordsOK
  <2>3. j \in Job /\ j.session = s /\ j.at = p /\ j.record = record[p]
    BY <2>2, NoSecretFact DEF Job, NoJob
  <2>4. job'[t] = j /\ pc'[t] = "read"
    BY <1>1, <1>t, <2>1 DEF LoadRead, Set, Goto, TypeOK
  <2>5. (AccessOK(t) /\ LoadOK(t))'
    <3> HIDE DEF j
    <3> QED
      BY <2>2, <2>3, <2>4 DEF AccessOK, LoadOK
  <2> QED
    BY <1>1, <2>1, <2>3, <2>5, JobStep DEF LoadRead, PC
<1>2. ASSUME LoadSecret(t) PROVE IndInv'
  <2> DEFINE p == job[t].at
             r == job[t].record
             held == permission[job[t].session][p]
             secret == IF held.secret # NoSecret THEN held.secret
                       ELSE IF Passwordless(r) THEN Derived(p, r.salt) ELSE NoSecret
             j == [job[t] EXCEPT !.key = Decrypt(r.cipher, secret), !.seen = held.seen]
  <2>1. job[t].session \in Session /\ p \in Place /\ r \in Record /\ Opens(p, r)
    BY <1>2, <1>t DEF LoadSecret, LoadOK
  <2>2. held \in Permission /\ GrantOK(p, held)
    BY <1>t, <2>1 DEF IndInv, TypeOK, PermissionsOK
  <2>3. CASE secret = NoSecret
    BY <1>2, <2>3, ReturnStep DEF LoadSecret
  <2>4. CASE secret # NoSecret
    <3>1. secret = Opener(p, r) \/ held.seen \notin {NoOne, r}
      <4>1. CASE held.secret # NoSecret
        <5>1. held.seen \in Record /\ held.secret = Opener(p, held.seen)
          BY <2>2, <4>1 DEF GrantOK, NoPermission
        <5> QED
          BY <4>1, <5>1, AccessAssumption
      <4>2. CASE held.secret = NoSecret
        BY <2>4, <4>2 DEF Opener
      <4> QED
        BY <4>1, <4>2
    <3>2. Goto(t, "loaded") /\ Set(t, j)
      BY <1>2, <2>4 DEF LoadSecret
    <3> HIDE DEF secret, held
    <3>3. Decrypt(r.cipher, secret) \in Key \cup {Garbage}
      BY <2>1 DEF Decrypt, Record, Opens, Encrypt
    <3>4. /\ j \in Job /\ j.key = Decrypt(r.cipher, secret) /\ j.seen = held.seen
          /\ j.record = r
      BY <1>t, <2>2, <3>3 DEF Job, Permission
    <3>5. job'[t] = j /\ pc'[t] = "loaded"
      BY <1>t, <3>2 DEF Set, Goto, TypeOK
    <3>6. Decrypt(r.cipher, secret) = r.public \/ held.seen \notin {NoOne, r}
      BY <2>1, <3>1 DEF Decrypt, Opens, Encrypt
    <3>7. (AccessOK(t) /\ LoadOK(t))'
      <4> HIDE DEF j
      <4> QED
        BY <3>4, <3>5, <3>6 DEF AccessOK, LoadOK
    <3> QED
      BY <1>2, <3>2, <3>4, <3>7, JobStep DEF LoadSecret, PC
  <2> QED
    BY <2>3, <2>4
<1> QED
  BY <1>1, <1>2

\* get_access replaces what the session holds, and says what was shown for it.
LEMMA StoreInv ==
  ASSUME IndInv, NEW t \in Thread, AccessStore(t)
  PROVE  IndInv'
<1> DEFINE s == job[t].session
           w == job[t].password
           i == job[t].at[2]
           granted == [p \in Both(t) |-> IF p[1] = "sign" THEN job[t].sign ELSE job[t].enc]
           had == permission[s]
           has == [p \in Place |-> IF p \in Both(t) THEN granted[p] ELSE had[p]]
<1>t. TypeOK /\ AccessOK(t) /\ PermissionsOK /\ job[t] \in Job
  BY DEF IndInv, TypeOK
<1>1. /\ s \in Session /\ w \in Typed /\ i \in Index
      /\ job[t].at = <<"enc", i>>
      /\ ShownOK(<<"sign", i>>, job[t].sign, w) /\ ShownOK(<<"enc", i>>, job[t].enc, w)
      /\ job[t].sign \in Permission /\ job[t].enc \in Permission
  <2>1. pc[t] = "store"
    BY DEF AccessStore
  <2>2. /\ s \in Session /\ w \in Typed /\ job[t].at \in {"enc"} \X Index
        /\ ShownOK(<<"sign", i>>, job[t].sign, w) /\ ShownOK(job[t].at, job[t].enc, w)
    BY <1>t, <2>1 DEF AccessOK
  <2>3. i \in Index /\ job[t].at = <<"enc", i>>
    BY <2>2
  <2>4. job[t].sign \in Permission /\ job[t].enc \in Permission
    BY <1>t DEF Job
  <2> QED
    BY <2>2, <2>3, <2>4
<1>2. Both(t) = {<<"sign", i>>, <<"enc", i>>} /\ Both(t) \subseteq Place
  BY <1>1 DEF Both, Place
<1>3. \A p \in Both(t) : granted[p] \in Permission /\ ShownOK(p, granted[p], w)
  BY <1>1, <1>2
<1>4. /\ permission' = [permission EXCEPT ![s] = has]
      /\ proved' = {x \in proved : ~ (x[1] = s /\ x[2] \in Both(t))}
                   \cup {<<s, p, w>> : p \in {q \in Both(t) : /\ granted[q].secret # NoSecret
                                                              /\ w # NoPassword}}
  BY DEF AccessStore
<1> HIDE DEF granted
<1>5. has \in [Place -> Permission]
  BY <1>1, <1>3, <1>t DEF TypeOK
<1>6. permission' \in [Session -> [Place -> Permission]]
  BY <1>4, <1>5, <1>t DEF TypeOK
<1>7. proved' \in SUBSET (Session \X Place \X Password)
  <2>1. ASSUME NEW p \in Both(t), w # NoPassword
        PROVE  <<s, p, w>> \in Session \X Place \X Password
    BY <1>1, <1>2, <2>1 DEF Typed
  <2>2. ASSUME NEW x \in proved' PROVE x \in Session \X Place \X Password
    <3>1. x \in proved \/ \E p \in Both(t) : w # NoPassword /\ x = <<s, p, w>>
      BY <1>4
    <3> QED
      BY <1>t, <2>1, <3>1 DEF TypeOK
  <2> QED
    BY <2>2
<1>8. /\ record' = record /\ moving' = moving /\ fresh' = fresh
      /\ pc' = [pc EXCEPT ![t] = "idle"] /\ job' = [job EXCEPT ![t] = NoJob]
  BY DEF AccessStore, Return, Goto, Set, store
<1>9. TypeOK'
  BY <1>t, <1>6, <1>7, <1>8, NoSecretFact DEF TypeOK, PC
<1>10. RecordsOK'
  BY <1>8 DEF IndInv, RecordsOK
<1>11. PermissionsOK'
  <2> SUFFICES ASSUME NEW s2 \in Session, NEW p \in Place
               PROVE  /\ GrantOK(p, permission'[s2][p])
                      /\ permission'[s2][p].secret.by \in Password =>
                           <<s2, p, permission'[s2][p].secret.by>> \in proved'
    BY DEF PermissionsOK, GrantOK
  <2>1. CASE s2 = s /\ p \in Both(t)
    <3>1. permission'[s2][p] = granted[p]
      BY <1>4, <1>t, <2>1 DEF TypeOK
    <3>2. GrantOK(p, granted[p]) /\ (granted[p].secret.by \in Password => granted[p].secret.by = w)
      BY <1>3, <2>1 DEF ShownOK
    <3>3. ASSUME granted[p].secret.by \in Password
          PROVE  <<s2, p, granted[p].secret.by>> \in proved'
      <4>1. granted[p].secret # NoSecret /\ w # NoPassword
        BY <3>2, <3>3, NoSecretFact, AccessAssumption
      <4> QED
        BY <1>4, <2>1, <3>2, <3>3, <4>1
    <3> QED
      BY <3>1, <3>2, <3>3
  <2>2. CASE ~ (s2 = s /\ p \in Both(t))
    <3>1. permission'[s2][p] = permission[s2][p]
      BY <1>4, <1>t, <2>2 DEF TypeOK
    <3>2. \A x \in Password : <<s2, p, x>> \in proved => <<s2, p, x>> \in proved'
      BY <1>4, <2>2
    <3> QED
      BY <1>t, <3>1, <3>2 DEF PermissionsOK
  <2> QED
    BY <2>1, <2>2
<1>12. ASSUME NEW u \in Thread PROVE (AccessOK(u) /\ LoadOK(u))'
  BY <1>8, <1>t DEF IndInv, TypeOK, AccessOK, LoadOK
<1> QED
  BY <1>9, <1>10, <1>11, <1>12 DEF IndInv

\* Dropping permissions, together with what was shown for them.
LEMMA DropInv ==
  ASSUME IndInv, NEW s \in Session, NEW D \in SUBSET Place,
         permission' = [permission EXCEPT ![s] =
                          [p \in Place |-> IF p \in D THEN NoPermission ELSE @[p]]],
         proved' = {x \in proved : ~ (x[1] = s /\ x[2] \in D)},
         UNCHANGED <<store, pc, job>>
  PROVE  IndInv'
<1>t. TypeOK /\ PermissionsOK /\ NoPermission \in Permission
  BY NoSecretFact DEF IndInv
<1>1. permission' \in [Session -> [Place -> Permission]]
  BY <1>t DEF TypeOK
<1>2. TypeOK'
  BY <1>1, <1>t DEF TypeOK, store
<1>3. PermissionsOK'
  <2> SUFFICES ASSUME NEW s2 \in Session, NEW p \in Place
               PROVE  /\ GrantOK(p, permission'[s2][p])
                      /\ permission'[s2][p].secret.by \in Password =>
                           <<s2, p, permission'[s2][p].secret.by>> \in proved'
    BY DEF PermissionsOK, GrantOK
  <2>1. CASE s2 = s /\ p \in D
    <3>1. permission'[s2][p] = NoPermission
      BY <1>t, <2>1 DEF TypeOK
    <3> QED
      BY <3>1, NoSecretFact DEF GrantOK, NoPermission
  <2>2. CASE ~ (s2 = s /\ p \in D)
    <3>1. permission'[s2][p] = permission[s2][p]
      BY <1>t, <2>2 DEF TypeOK
    <3>2. \A x \in Password : <<s2, p, x>> \in proved => <<s2, p, x>> \in proved'
      BY <2>2
    <3> QED
      BY <1>t, <3>1, <3>2 DEF PermissionsOK
  <2> QED
    BY <2>1, <2>2
<1>4. RecordsOK' /\ \A t \in Thread : (AccessOK(t) /\ LoadOK(t))'
  BY DEF IndInv, RecordsOK, AccessOK, LoadOK, store
<1> QED
  BY <1>2, <1>3, <1>4 DEF IndInv

\* ReleaseAccess drops the places of one index, CloseSession all places.
LEMMA EndInv ==
  ASSUME IndInv, NEW s \in Session,
         CloseSession(s) \/ \E i \in Index : ReleaseAccess(s, i)
  PROVE  IndInv'
<1>t. proved \in SUBSET (Session \X Place \X Password)
  BY DEF IndInv, TypeOK
<1>1. ASSUME NEW i \in Index, ReleaseAccess(s, i) PROVE IndInv'
  <2> DEFINE D == {p \in Place : p[2] = i}
  <2>1. permission' = [permission EXCEPT ![s] =
                         [p \in Place |-> IF p \in D THEN NoPermission ELSE @[p]]]
    BY <1>1 DEF ReleaseAccess
  <2>2. proved' = {x \in proved : ~ (x[1] = s /\ x[2] \in D)}
    BY <1>1, <1>t DEF ReleaseAccess
  <2>3. D \in SUBSET Place
    OBVIOUS
  <2> HIDE DEF D
  <2> QED
    BY <1>1, <2>1, <2>2, <2>3, DropInv DEF ReleaseAccess
<1>2. ASSUME CloseSession(s) PROVE IndInv'
  <2>1. permission' = [permission EXCEPT ![s] =
                         [p \in Place |-> IF p \in Place THEN NoPermission ELSE @[p]]]
    BY <1>2 DEF CloseSession
  <2>2. proved' = {x \in proved : ~ (x[1] = s /\ x[2] \in Place)}
    BY <1>2, <1>t DEF CloseSession
  <2> QED
    BY <1>2, <2>1, <2>2, DropInv DEF CloseSession
<1> QED
  BY <1>1, <1>2

\* After a kill there are the files and nothing else.
LEMMA CrashInv == IndInv /\ Crash => IndInv'
<1> SUFFICES ASSUME IndInv, Crash PROVE IndInv'
  OBVIOUS
<1>1. TypeOK'
  BY AccessAssumption, NoSecretFact DEF IndInv, Crash, TypeOK, NoRights, PC
<1>2. RecordsOK' /\ PermissionsOK'
  BY NoSecretFact DEF IndInv, Crash, RecordsOK, PermissionsOK, NoRights, GrantOK, NoPermission
<1>3. \A t \in Thread : (AccessOK(t) /\ LoadOK(t))'
  BY DEF Crash, AccessOK, LoadOK
<1> QED
  BY <1>1, <1>2, <1>3 DEF IndInv

\* Every step keeps the invariant.
LEMMA NextInv == IndInv /\ [Next]_vars => IndInv'
<1> SUFFICES ASSUME IndInv, [Next]_vars PROVE IndInv'
  OBVIOUS
<1>1. ASSUME NEW t \in Thread, RequestStep(t) PROVE IndInv'
  <2>1. CASE Finish(t)
    BY <2>1, ReturnStep DEF Finish
  <2> QED
    BY <1>1, <2>1, AccessInv, StoreInv, LoadInv DEF RequestStep
<1>2. CASE UNCHANGED vars
  BY <1>2 DEF vars, store, rights, IndInv, TypeOK, RecordsOK, PermissionsOK, AccessOK, LoadOK
<1> QED
  BY <1>1, <1>2, AdminInv, EndInv, CrashInv DEF Next

\* The invariant holds in every reachable state.
LEMMA Invariance == Spec => []IndInv
  BY InitInv, NextInv, PTL DEF Spec

(***************************************************************************)
(* Results                                                                 *)
(***************************************************************************)

\* Records, permissions and the variables of requests have their types.
THEOREM TypeCorrect == Spec => []TypeOK
<1>1. IndInv => TypeOK
  BY DEF IndInv
<1> QED
  BY <1>1, Invariance, PTL

\* create_record, change_password and reindex, killed anywhere, leave no record
\* whose private key cannot be opened.
THEOREM RecordsAlwaysOpen == Spec => []RecordOpens
<1>1. IndInv => RecordOpens
  <2>1. ASSUME NEW p \in Place, NEW r, Opens(p, r)
        PROVE  Decrypt(r.cipher, Opener(p, r)) = r.public
    BY <2>1 DEF Opens, Decrypt, Encrypt
  <2> QED
    BY <2>1 DEF IndInv, RecordsOK, RecordOpens
<1> QED
  BY <1>1, Invariance, PTL

\* load_private_key gives the key of the record it read, unless the session's
\* permission is for another version of the record.
THEOREM WrongKeyIsStale == Spec => []WrongKeyOnlyIfStale
<1>1. IndInv => WrongKeyOnlyIfStale
  BY DEF IndInv, LoadOK, WrongKeyOnlyIfStale
<1> QED
  BY <1>1, Invariance, PTL

\* load_private_key opens a record with a password only for a session that has
\* shown this password for this place since it last gave the right back.
THEOREM KeysAreEarned == Spec => KeyIsEarned
<1> DEFINE Earned(t) ==
      (pc[t] = "read" /\ pc'[t] = "loaded" /\ job'[t].key # Garbage) =>
        \/ Passwordless(job[t].record)
        \/ <<job[t].session, job[t].at, job[t].record.verifier.by>> \in proved
<1>1. ASSUME IndInv, [Next]_vars, NEW t \in Thread PROVE Earned(t)
  <2> SUFFICES ASSUME pc[t] = "read", pc'[t] = "loaded", job'[t].key # Garbage,
                      ~ Passwordless(job[t].record)
               PROVE  <<job[t].session, job[t].at, job[t].record.verifier.by>> \in proved
    OBVIOUS
  <2> DEFINE p == job[t].at
             r == job[t].record
             held == permission[job[t].session][p]
  <2>t. TypeOK /\ LoadOK(t) /\ PermissionsOK
    BY <1>1 DEF IndInv
  <2>1. LoadSecret(t)
    <3>1. ~ UNCHANGED pc
      OBVIOUS
    <3>2. PICK u \in Thread : RequestStep(u)
      BY <1>1, <3>1 DEF Next, vars, AdminStep, DeleteRecord, CreateRecord, ChangePassword,
           ReindexCopy, ReindexUnlink, CloseSession, ReleaseAccess, Crash
    <3>3. pc'[t] = IF t = u THEN pc'[u] ELSE pc[t]
      BY <2>t, <3>2 DEF RequestStep, AccessSign, AccessEnc, AccessStore, LoadRead, LoadSecret,
           Finish, Return, Goto, TypeOK
    <3>4. u = t
      BY <3>3
    <3> QED
      BY <2>t, <3>2, <3>4 DEF RequestStep, AccessSign, AccessEnc, AccessStore, LoadRead,
           Finish, Return, Goto, TypeOK
  <2>2. job[t].session \in Session /\ p \in Place /\ r \in Record /\ Opens(p, r)
    BY <2>t DEF LoadOK
  <2>3. pc' # [pc EXCEPT ![t] = "idle"]
    BY <2>t DEF TypeOK
  <2>4. held.secret # NoSecret /\ job'[t].key = Decrypt(r.cipher, held.secret)
    BY <2>t, <2>1, <2>3 DEF LoadSecret, Return, Goto, Set, TypeOK, Job
  <2>5. held.secret = r.verifier /\ r.verifier.by \in Password
    BY <2>2, <2>4 DEF Decrypt, Opens, Opener, Encrypt
  <2>6. <<job[t].session, p, held.secret.by>> \in proved
    BY <2>t, <2>2, <2>5 DEF PermissionsOK
  <2> QED
    BY <2>5, <2>6
<1>2. IndInv /\ [Next]_vars => \A t \in Thread : Earned(t)
  BY <1>1
<1>3. IndInv /\ [Next]_vars => [\A t \in Thread : Earned(t)]_vars
  BY <1>2
<1> QED
  BY <1>3, Invariance, PTL DEF Spec, KeyIsEarned
=============================================================================
