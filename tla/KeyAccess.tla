----------------------------- MODULE KeyAccess ------------------------------
(***************************************************************************)
(* Who may use a private key: how records are sealed, the permissions that *)
(* sessions hold, and the operations that open a record                    *)
(* (internal_key_manager.c, internal_key_admin.inc, rsa_key_manager.c).    *)
(*                                                                         *)
(* A private key is encrypted under a secret derived from the password and *)
(* the record's salt, or, for a key without password, from the device key, *)
(* the place and the salt.  SDF_GetPrivateKeyAccessRight verifies the      *)
(* password once and keeps the secret in the session; an operation reads   *)
(* the record, then takes the session's secret, and decrypts in CTR mode,  *)
(* where a wrong secret gives a wrong key and no error.                    *)
(*                                                                         *)
(* Administrative commands hold the family's mutex from the test to the    *)
(* rename, requests hold none.  Markers and the tests before the mutex are *)
(* the subject of KeyStore; a request may always fail here instead.  SM2   *)
(* and RSA follow the same protocol.                                       *)
(***************************************************************************)
EXTENDS Naturals, FiniteSets

CONSTANTS
  Index,           \* key indexes
  Password,        \* passwords, of 8 characters or more
  Session,
  Thread,          \* worker threads that run requests; several may name a session
  NoOne,           \* no session, no place, no record
  MaxFresh         \* bound: salts and keys generated

Place == {"sign", "enc"} \X Index
Key == 1 .. MaxFresh
Garbage == 0               \* what CTR decryption under a wrong secret gives
Salt == 1 .. MaxFresh
NoPassword == "none"       \* a password of length 0

Secret == [by : Password \cup Place, salt : Salt]
NoSecret == [by |-> NoOne, salt |-> 0]   \* also the verifier of no password
Record == [public : Key, salt : Salt, verifier : Secret \cup {NoSecret},
           cipher : [key : Key \cup {Garbage}, under : Secret]]

ASSUME AccessAssumption ==
  /\ NoOne \notin Password \cup Place \cup Session \cup Record
  /\ NoPassword \notin Password
  /\ Password \cap Place = {}
  /\ MaxFresh \in Nat

\* What a session holds for a place: the secret, and as a ghost the record
\* that it was verified against.
Permission == [secret : Secret \cup {NoSecret}, seen : Record \cup {NoOne}]
NoPermission == [secret |-> NoSecret, seen |-> NoOne]

VARIABLES
  record,          \* the record file at each place, NoOne if there is none
  moving,          \* the reindex that holds the mutex between its two writes
  fresh,           \* salts and keys generated so far
  permission,      \* private_permissions of each session
  pc, job,         \* where each thread is, its arguments and local variables
  proved           \* ghost: <<s, p, w>>: s has shown password w for place p

store == <<record, moving, fresh>>
rights == <<permission, proved>>
vars == <<store, rights, pc, job>>

(***************************************************************************)
(* "enc": get_access has tried the signature key, the encryption key is    *)
(* next.  "store": it changes the session's list.  "read": an operation    *)
(* has read the record.  "loaded": it has the private key.                 *)
(***************************************************************************)
PC == {"idle", "enc", "store", "read", "loaded"}

Job == [session : Session \cup {NoOne}, at : Place \cup {NoOne},
        password : Password \cup {NoPassword, NoOne}, sign : Permission, enc : Permission,
        record : Record \cup {NoOne}, key : Key \cup {Garbage}, seen : Record \cup {NoOne}]
NoJob == [session |-> NoOne, at |-> NoOne, password |-> NoOne, sign |-> NoPermission,
          enc |-> NoPermission, record |-> NoOne, key |-> Garbage, seen |-> NoOne]

TypeOK ==
  /\ record \in [Place -> Record \cup {NoOne}]
  /\ moving \in (Place \X Place) \cup {NoOne}
  /\ fresh \in 0 .. MaxFresh
  /\ permission \in [Session -> [Place -> Permission]]
  /\ pc \in [Thread -> PC]
  /\ job \in [Thread -> Job]
  /\ proved \in SUBSET (Session \X Place \X Password)

NoRights == [s \in Session |-> [p \in Place |-> NoPermission]]

Init ==
  /\ record = [p \in Place |-> NoOne]
  /\ moving = NoOne
  /\ fresh = 0
  /\ permission = NoRights
  /\ pc = [t \in Thread |-> "idle"]
  /\ job = [t \in Thread |-> NoJob]
  /\ proved = {}

-----------------------------------------------------------------------------
(* Sealing *)

Derived(by, salt) == [by |-> by, salt |-> salt]

\* derive_password binds to the salt only, derive_device_secret to the place.
SecretFor(p, w, salt) == IF w = NoPassword THEN Derived(p, salt) ELSE Derived(w, salt)

Verifier(w, salt) == IF w = NoPassword THEN NoSecret ELSE Derived(w, salt)

Passwordless(r) == r.verifier = NoSecret

Encrypt(k, secret) == [key |-> k, under |-> secret]
Decrypt(cipher, secret) == IF cipher.under = secret THEN cipher.key ELSE Garbage

\* The record at p of a key pair, sealed for password w.
Sealed(p, public, private, w, salt) ==
  [public |-> public, salt |-> salt, verifier |-> Verifier(w, salt),
   cipher |-> Encrypt(private, SecretFor(p, w, salt))]

\* derive_and_verify for the record r of place p.
Verified(p, r, w) ==
  IF r = NoOne THEN NoSecret
  ELSE IF Passwordless(r)
       THEN IF w = NoPassword THEN Derived(p, r.salt) ELSE NoSecret
       ELSE IF w # NoPassword /\ Derived(w, r.salt) = r.verifier
            THEN Derived(w, r.salt) ELSE NoSecret

-----------------------------------------------------------------------------
(* Administrative commands, under the mutex of the family *)

MutexFree == moving = NoOne

CreateRecord_NoSalt(p, w) ==
  /\ MutexFree /\ record[p] = NoOne
  /\ fresh < MaxFresh
  /\ fresh' = fresh + 1
  /\ record' = [record EXCEPT ![p] = Sealed(p, fresh + 1, fresh + 1, w, 0)]
  /\ UNCHANGED <<moving, rights, pc, job>>

\* create_record: a new key under a new salt.
CreateRecord(p, w) ==
  /\ MutexFree /\ record[p] = NoOne
  /\ fresh < MaxFresh
  /\ fresh' = fresh + 1
  /\ record' = [record EXCEPT ![p] = Sealed(p, fresh + 1, fresh + 1, w, fresh + 1)]
  /\ UNCHANGED <<moving, rights, pc, job>>

DeleteRecord(p) ==
  /\ MutexFree /\ record[p] # NoOne
  /\ record' = [record EXCEPT ![p] = NoOne]
  /\ UNCHANGED <<moving, fresh, rights, pc, job>>

ChangePassword_KeepsVerifier(p, old, new) ==
  LET r == record[p]
      scalar == Decrypt(r.cipher, Verified(p, r, old))
  IN  /\ MutexFree /\ r # NoOne /\ Verified(p, r, old) # NoSecret
      /\ fresh < MaxFresh
      /\ fresh' = fresh + 1
      /\ record' = [record EXCEPT ![p] = [Sealed(p, r.public, scalar, new, fresh + 1)
                                            EXCEPT !.verifier = r.verifier]]
      /\ UNCHANGED <<moving, rights, pc, job>>

\* change_password: open with the old secret, seal under a new salt.
ChangePassword(p, old, new) ==
  LET r == record[p]
      scalar == Decrypt(r.cipher, Verified(p, r, old))
  IN  /\ MutexFree /\ r # NoOne /\ Verified(p, r, old) # NoSecret
      /\ fresh < MaxFresh
      /\ fresh' = fresh + 1
      /\ record' = [record EXCEPT ![p] = Sealed(p, r.public, scalar, new, fresh + 1)]
      /\ UNCHANGED <<moving, rights, pc, job>>

Resealed_Never(p, q, r) == r

\* A record without password is sealed again for its new place, under the
\* same salt; one with password goes as it is.
Resealed(p, q, r) ==
  IF Passwordless(r)
  THEN Sealed(q, r.public, Decrypt(r.cipher, Derived(p, r.salt)), NoPassword, r.salt)
  ELSE r

\* reindex: the record is written at its new place ...
ReindexCopy(p, q) ==
  /\ MutexFree /\ p[1] = q[1] /\ p # q
  /\ record[p] # NoOne /\ record[q] = NoOne
  /\ record' = [record EXCEPT ![q] = Resealed(p, q, record[p])]
  /\ moving' = <<p, q>>
  /\ UNCHANGED <<fresh, rights, pc, job>>

\* ... and unlinked at the old one, or at the new one if the marker failed.
ReindexUnlink ==
  /\ ~ MutexFree
  /\ \E i \in {1, 2} : record' = [record EXCEPT ![moving[i]] = NoOne]
  /\ moving' = NoOne
  /\ UNCHANGED <<fresh, rights, pc, job>>

-----------------------------------------------------------------------------
(* Requests *)

Goto(t, l) == pc' = [pc EXCEPT ![t] = l]
Set(t, j) == job' = [job EXCEPT ![t] = j]
Return(t) == Goto(t, "idle") /\ Set(t, NoJob)

Granted(p, w) == LET secret == Verified(p, record[p], w)
                 IN  [secret |-> secret,
                      seen |-> IF secret = NoSecret THEN NoOne ELSE record[p]]

\* internal_key_get_access, rsa_key_get_access: the two keys of an index are
\* read and verified one after the other ...
AccessSign(t) ==
  /\ pc[t] = "idle"
  /\ \E s \in Session, i \in Index, w \in Password \cup {NoPassword} :
       Set(t, [NoJob EXCEPT !.session = s, !.at = <<"enc", i>>, !.password = w,
                            !.sign = Granted(<<"sign", i>>, w)])
  /\ Goto(t, "enc")
  /\ UNCHANGED <<store, rights>>

AccessEnc(t) ==
  /\ pc[t] = "enc"
  /\ LET enc == Granted(job[t].at, job[t].password)
     IN  IF NoSecret = enc.secret /\ NoSecret = job[t].sign.secret
         THEN Return(t)
         ELSE Goto(t, "store") /\ Set(t, [job[t] EXCEPT !.enc = enc])
  /\ UNCHANGED <<store, rights>>

\* The places of the index that the request is about.
Both(t) == {<<"sign", job[t].at[2]>>, <<"enc", job[t].at[2]>>}

\* ... and replace, under object_mutex, what the session had for the index.
AccessStore(t) ==
  /\ pc[t] = "store"
  /\ LET s == job[t].session
         granted == [p \in Both(t) |-> IF p[1] = "sign" THEN job[t].sign ELSE job[t].enc]
     IN  /\ permission' = [permission EXCEPT ![s] =
                             [p \in Place |-> IF p \in Both(t) THEN granted[p] ELSE @[p]]]
         /\ proved' = {x \in proved : ~ (x[1] = s /\ x[2] \in Both(t))}
                      \cup {<<s, p, job[t].password>> :
                              p \in {q \in Both(t) : /\ granted[q].secret # NoSecret
                                                     /\ job[t].password # NoPassword}}
  /\ Return(t)
  /\ UNCHANGED <<store>>

ReleaseAccess_Sign(s, i) ==
  /\ \E p \in Place : p[2] = i /\ permission[s][p] # NoPermission
  /\ permission' = [permission EXCEPT ![s][<<"sign", i>>] = NoPermission]
  /\ proved' = {x \in proved : ~ (x[1] = s /\ x[2][2] = i)}
  /\ UNCHANGED <<store, pc, job>>

\* release_access drops what the session holds for both keys of the index.
ReleaseAccess(s, i) ==
  /\ \E p \in Place : p[2] = i /\ permission[s][p] # NoPermission
  /\ permission' = [permission EXCEPT ![s] =
                      [p \in Place |-> IF p[2] = i THEN NoPermission ELSE @[p]]]
  /\ proved' = {x \in proved : ~ (x[1] = s /\ x[2][2] = i)}
  /\ UNCHANGED <<store, pc, job>>

\* load_private_key, rsa_load_private: the record is read ...
LoadRead(t) ==
  /\ pc[t] = "idle"
  /\ \E s \in Session, p \in Place :
       /\ record[p] # NoOne
       /\ Set(t, [NoJob EXCEPT !.session = s, !.at = p, !.record = record[p]])
  /\ Goto(t, "read")
  /\ UNCHANGED <<store, rights>>

\* ... the session's secret is taken, else a key without password is opened
\* with the device secret, and what comes out is not verified.
LoadSecret(t) ==
  /\ pc[t] = "read"
  /\ LET held == permission[job[t].session][job[t].at]
         r == job[t].record
         secret == IF held.secret # NoSecret THEN held.secret
                   ELSE IF Passwordless(r) THEN Derived(job[t].at, r.salt) ELSE NoSecret
     IN  IF secret = NoSecret
         THEN Return(t)
         ELSE /\ Goto(t, "loaded")
              /\ Set(t, [job[t] EXCEPT !.key = Decrypt(r.cipher, secret), !.seen = held.seen])
  /\ UNCHANGED <<store, rights>>

\* Signing, decryption and import end here; so may any request that fails.
Finish(t) ==
  /\ pc[t] # "idle"
  /\ Return(t)
  /\ UNCHANGED <<store, rights>>

-----------------------------------------------------------------------------
\* session_objects_cleanup, after the last request has put the session; its
\* id is not used again.
CloseSession(s) ==
  /\ \A t \in Thread : job[t].session # s
  /\ permission' = [permission EXCEPT ![s] = [p \in Place |-> NoPermission]]
  /\ proved' = {x \in proved : x[1] # s}
  /\ UNCHANGED <<store, pc, job>>

\* The process is killed and started again: the files stay.
Crash ==
  /\ moving' = NoOne
  /\ permission' = NoRights
  /\ proved' = {}
  /\ pc' = [t \in Thread |-> "idle"]
  /\ job' = [t \in Thread |-> NoJob]
  /\ UNCHANGED <<record, fresh>>

AdminStep ==
  \/ \E p \in Place :
       \/ DeleteRecord(p)
       \/ \E w \in Password \cup {NoPassword} : CreateRecord(p, w)
       \/ \E old, new \in Password \cup {NoPassword} : ChangePassword(p, old, new)
       \/ \E q \in Place : ReindexCopy(p, q)
  \/ ReindexUnlink

RequestStep(t) ==
  \/ AccessSign(t) \/ AccessEnc(t) \/ AccessStore(t)
  \/ LoadRead(t) \/ LoadSecret(t) \/ Finish(t)

Next ==
  \/ AdminStep
  \/ \E t \in Thread : RequestStep(t)
  \/ \E s \in Session : CloseSession(s) \/ \E i \in Index : ReleaseAccess(s, i)
  \/ Crash

Spec == Init /\ [][Next]_vars

-----------------------------------------------------------------------------
(* Properties *)

\* The secret that opens the record r of place p.
Opener(p, r) == IF Passwordless(r) THEN Derived(p, r.salt) ELSE r.verifier

\* No sequence of password changes, moves and kills seals a private key where
\* nobody finds it: every record opens, with the secret its own verifier, salt
\* and place ask for, to the private half of its public key.
RecordOpens ==
  \A p \in Place : record[p] # NoOne =>
    Decrypt(record[p].cipher, Opener(p, record[p])) = record[p].public

\* WEB-MANAGEMENT.md: where a password is set, the right to use the key must be
\* obtained first.  A request gets at the private key of a record only if its
\* session has shown the password of that very version of the record, and has
\* not given the right back: a permission does not survive a password change.
KeyIsEarned ==
  [][\A t \in Thread :
       (pc[t] = "read" /\ pc'[t] = "loaded" /\ job'[t].key # Garbage) =>
         \/ Passwordless(job[t].record)
         \/ <<job[t].session, job[t].at, job[t].record.verifier.by>> \in proved]_vars

\* A request computes with the key of the record it read, unless its session's
\* permission was given for an earlier version of the record: then the wrong
\* key is used and no error is reported.
WrongKeyOnlyIfStale ==
  \A t \in Thread :
    pc[t] = "loaded" =>
      \/ job[t].key = job[t].record.public
      \/ job[t].seen \notin {NoOne, job[t].record}
=============================================================================
