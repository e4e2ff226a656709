------------------------------ MODULE EtcdMutex ------------------------------
(***************************************************************************)
(* The etcd lock hambone takes around every Apply and Delete: a lease kept *)
(* alive by a concurrency.Session, and a concurrency.Mutex whose waiters   *)
(* queue by the create revision of a key attached to that lease            *)
(* (pkg/state/etcd/etcd.go GetSessionAndMutex; vendored                    *)
(* clientv3/concurrency session.go, mutex.go, key.go).                     *)
(*                                                                         *)
(* A session is used by one request and never reused.  Every call to etcd  *)
(* may fail on the client's side with or without having been executed, so  *)
(* the failing form of an action chooses which of its effects etcd saw.    *)
(* Revisions are counted only for lock keys.  Of the other keys it matters *)
(* only whether they lie under the prefix of a lock when a session puts    *)
(* its key there: these are older, and in its way until they are deleted.  *)
(***************************************************************************)
EXTENDS Integers

CONSTANTS
  Sessions,   \* one per request that takes a lock
  Locks,      \* lock names; here the instance names
  NoLock,
  Storage     \* storage keys, which may lie under the prefix of a lock

ASSUME NoLockAssumption == NoLock \notin Locks

VARIABLES
  rev,        \* etcd: create revision of the newest lock key
  keyRev,     \* etcd: create revision of the session's lock key, 0 if absent
  lease,      \* etcd: the session's lease
  onLock,     \* the lock whose prefix the session's key is under (m.pfx)
  kept,       \* client: the lease is being renewed
  mutex,      \* client: how far Lock, Unlock and Close have got
  myRev,      \* client: the revision Lock remembers (m.myRev), 0 before it
  ahead       \* etcd: older storage keys under the prefix, while it waits

etcdVars   == <<rev, keyRev, lease, ahead>>
clientVars == <<onLock, kept, mutex, myRev>>
mutexVars  == <<rev, keyRev, lease, onLock, kept, mutex, myRev, ahead>>

Phases == {"idle", "session", "waiting", "held", "released", "closed",
           "failed", "crashed"}

MutexTypeOK ==
  /\ rev \in Nat
  /\ keyRev \in [Sessions -> Nat]
  /\ lease \in [Sessions -> {"none", "live", "gone"}]
  /\ onLock \in [Sessions -> Locks \cup {NoLock}]
  /\ kept \in [Sessions -> BOOLEAN]
  /\ mutex \in [Sessions -> Phases]
  /\ myRev \in [Sessions -> Nat]
  /\ ahead \in [Sessions -> SUBSET Storage]

MutexInit ==
  /\ rev = 0
  /\ keyRev = [s \in Sessions |-> 0]
  /\ lease = [s \in Sessions |-> "none"]
  /\ onLock = [s \in Sessions |-> NoLock]
  /\ kept = [s \in Sessions |-> FALSE]
  /\ mutex = [s \in Sessions |-> "idle"]
  /\ myRev = [s \in Sessions |-> 0]
  /\ ahead = [s \in Sessions |-> {}]

HasKey(s) == keyRev[s] # 0

Keyed(l) == {s \in Sessions : HasKey(s) /\ onLock[s] = l}

-----------------------------------------------------------------------------
(* concurrency.NewSession: grant a lease and start renewing it. *)
NewSession(s) ==
  /\ mutex[s] = "idle"
  /\ mutex' = [mutex EXCEPT ![s] = "session"]
  /\ lease' = [lease EXCEPT ![s] = "live"]
  /\ kept' = [kept EXCEPT ![s] = TRUE]
  /\ UNCHANGED <<rev, keyRev, onLock, myRev, ahead>>

(* Grant or KeepAlive returns an error; etcd may have granted the lease. *)
NewSessionFails(s) ==
  /\ mutex[s] = "idle"
  /\ mutex' = [mutex EXCEPT ![s] = "failed"]
  /\ \E l \in {"none", "live"} : lease' = [lease EXCEPT ![s] = l]
  /\ UNCHANGED <<rev, keyRev, onLock, kept, myRev, ahead>>

(* Mutex.Lock, its transaction: put the session's key and read the oldest  *)
(* key under the prefix, where there may be others than lock keys; the     *)
(* oldest key owns the lock.                                               *)
LockTxn(s, l, others) ==
  /\ mutex[s] = "session"
  /\ lease[s] = "live"
  /\ rev' = rev + 1
  /\ keyRev' = [keyRev EXCEPT ![s] = rev + 1]
  /\ myRev' = [myRev EXCEPT ![s] = rev + 1]
  /\ onLock' = [onLock EXCEPT ![s] = l]
  /\ ahead' = [ahead EXCEPT ![s] = others]
  /\ mutex' = [mutex EXCEPT ![s] = IF Keyed(l) \cup others = {} THEN "held" ELSE "waiting"]
  /\ UNCHANGED <<lease, kept>>

(* Session.Close, called on every way out: renewal stops, and the revoke   *)
(* takes the lease and its key away unless it fails (its context may have  *)
(* expired: the lease is then left to run out).                            *)
CloseLease(s, revoked) ==
  /\ kept' = [kept EXCEPT ![s] = FALSE]
  /\ lease' = IF revoked THEN [lease EXCEPT ![s] = "gone"] ELSE lease

(* The transaction fails (applied or not), or the lease is gone.           *)
LockTxnFails(s, l) ==
  /\ mutex[s] = "session"
  /\ mutex' = [mutex EXCEPT ![s] = "failed"]
  /\ onLock' = [onLock EXCEPT ![s] = l]
  /\ \E applied, revoked \in BOOLEAN :
       /\ applied => lease[s] = "live"
       /\ rev' = IF applied THEN rev + 1 ELSE rev
       /\ keyRev' = IF applied /\ ~revoked
                      THEN [keyRev EXCEPT ![s] = rev + 1] ELSE keyRev
       /\ CloseLease(s, revoked)
  /\ UNCHANGED <<myRev, ahead>>

(* Faulty form: waits for keys older than myRev - 1 instead of myRev. *)
WaitDone_OffByOne(s) ==
  /\ mutex[s] = "waiting"
  /\ \A t \in Keyed(onLock[s]) : keyRev[t] >= myRev[s] - 1
  /\ ahead[s] = {}
  /\ mutex' = [mutex EXCEPT ![s] = "held"]
  /\ UNCHANGED <<rev, keyRev, lease, onLock, kept, myRev, ahead>>

(* Mutex.Lock, waitDeletes: the wait ends when no key under the prefix is  *)
(* older than the session's own.  It does not look at its own key.         *)
WaitDone(s) ==
  /\ mutex[s] = "waiting"
  /\ \A t \in Keyed(onLock[s]) : keyRev[t] >= myRev[s]
  /\ ahead[s] = {}
  /\ mutex' = [mutex EXCEPT ![s] = "held"]
  /\ UNCHANGED <<rev, keyRev, lease, onLock, kept, myRev, ahead>>

(* lockTimeout or a lost watch: delete the own key, then close the session *)
WaitFails(s) ==
  /\ mutex[s] = "waiting"
  /\ mutex' = [mutex EXCEPT ![s] = "failed"]
  /\ \E deleted, revoked \in BOOLEAN :
       /\ keyRev' = IF deleted \/ revoked
                      THEN [keyRev EXCEPT ![s] = 0] ELSE keyRev
       /\ CloseLease(s, revoked)
  /\ ahead' = [ahead EXCEPT ![s] = {}]
  /\ UNCHANGED <<rev, onLock, myRev>>

(* The cleanup functions, last registered first: Mutex.Unlock ... *)
Unlock(s) ==
  /\ mutex[s] = "held"
  /\ mutex' = [mutex EXCEPT ![s] = "released"]
  /\ \E deleted \in BOOLEAN :
       keyRev' = IF deleted THEN [keyRev EXCEPT ![s] = 0] ELSE keyRev
  /\ UNCHANGED <<rev, lease, onLock, kept, myRev, ahead>>

(* ... and Session.Close, which runs whether or not Unlock failed. *)
CloseSession(s) ==
  /\ mutex[s] = "released"
  /\ mutex' = [mutex EXCEPT ![s] = "closed"]
  /\ \E revoked \in BOOLEAN :
       /\ keyRev' = IF revoked THEN [keyRev EXCEPT ![s] = 0] ELSE keyRev
       /\ CloseLease(s, revoked)
  /\ UNCHANGED <<rev, onLock, myRev, ahead>>

-----------------------------------------------------------------------------
(* Faulty form: the session's context has no deadline, and renewal ends    *)
(* with the lease only.                                                    *)
LoseKeepAlive_NoDeadline(s) ==
  /\ kept[s]
  /\ lease[s] = "gone"
  /\ kept' = [kept EXCEPT ![s] = FALSE]
  /\ UNCHANGED <<rev, keyRev, lease, onLock, mutex, myRev, ahead>>

(* The session's context carries lockTimeout: thirty seconds after         *)
(* NewSession, or when etcd cannot be reached, renewal ends.  Nobody       *)
(* watches Session.Done, so the holder goes on.                            *)
LoseKeepAlive(s) ==
  /\ kept[s]
  /\ kept' = [kept EXCEPT ![s] = FALSE]
  /\ UNCHANGED <<rev, keyRev, lease, onLock, mutex, myRev, ahead>>

(* etcd: a lease not renewed for its TTL goes, and its key with it. *)
Expire(s) ==
  /\ lease[s] = "live"
  /\ ~kept[s]
  /\ lease' = [lease EXCEPT ![s] = "gone"]
  /\ keyRev' = [keyRev EXCEPT ![s] = 0]
  /\ UNCHANGED <<rev, onLock, kept, mutex, myRev, ahead>>

(* The process that uses the sessions S dies. *)
CrashSessions(S) ==
  /\ mutex' = [s \in Sessions |->
                 IF s \in S /\ mutex[s] \in {"session", "waiting", "held", "released"}
                   THEN "crashed" ELSE mutex[s]]
  /\ kept' = [s \in Sessions |-> kept[s] /\ s \notin S]
  /\ ahead' = [s \in Sessions |-> IF s \in S THEN {} ELSE ahead[s]]
  /\ UNCHANGED <<rev, keyRev, lease, onLock, myRev>>

(* Some other client of etcd deletes the lock keys of the sessions S, and  *)
(* the storage keys D.                                                     *)
DropKeys(S, D) ==
  /\ keyRev' = [s \in Sessions |-> IF s \in S THEN 0 ELSE keyRev[s]]
  /\ ahead' = [s \in Sessions |-> ahead[s] \ D]
  /\ UNCHANGED <<rev, lease, onLock, kept, mutex, myRev>>

-----------------------------------------------------------------------------
SessionStep(s) ==
  \/ NewSession(s)
  \/ NewSessionFails(s)
  \/ \E l \in Locks, others \in SUBSET Storage : LockTxn(s, l, others)
  \/ \E l \in Locks : LockTxnFails(s, l)
  \/ WaitDone(s)
  \/ WaitFails(s)
  \/ Unlock(s)
  \/ CloseSession(s)
  \/ LoseKeepAlive(s)
  \/ Expire(s)

MutexNext ==
  \/ \E s \in Sessions : SessionStep(s)
  \/ \E S \in SUBSET Sessions : CrashSessions(S)
  \/ \E S \in SUBSET Sessions, D \in SUBSET Storage : DropKeys(S, D)

MutexSpec == MutexInit /\ [][MutexNext]_mutexVars

-----------------------------------------------------------------------------
Holds(s) == mutex[s] = "held" /\ HasKey(s)

(* Two requests that were both told they have the same lock, and whose     *)
(* lock keys are both still in etcd, are one request: whatever expires,    *)
(* fails, crashes or deletes keys in between.                              *)
Exclusion ==
  \A s, t \in Sessions :
    Holds(s) /\ Holds(t) /\ onLock[s] = onLock[t] => s = t

(* A holder's key is the oldest under its lock, so that a newcomer's       *)
(* transaction never finds itself the owner while a holder has its key.    *)
HolderIsOldest ==
  \A s, t \in Sessions :
    Holds(s) /\ HasKey(t) /\ onLock[s] = onLock[t] => keyRev[s] <= keyRev[t]

(* Lock keys in etcd hang on a live lease, carry distinct revisions not    *)
(* beyond the newest one, and are the ones their clients remember.         *)
KeysAreLeased ==
  \A s \in Sessions : HasKey(s) => lease[s] = "live"
KeysAreBounded ==
  \A s \in Sessions : keyRev[s] <= rev
KeysAreDistinct ==
  \A s, t \in Sessions : HasKey(s) /\ keyRev[s] = keyRev[t] => s = t
KeysAreRemembered ==
  \A s \in Sessions :
    /\ mutex[s] \in {"waiting", "held"} /\ HasKey(s) => keyRev[s] = myRev[s]
    /\ mutex[s] \in {"idle", "session"} => ~HasKey(s)

MutexInv ==
  /\ MutexTypeOK
  /\ KeysAreLeased
  /\ KeysAreBounded
  /\ KeysAreDistinct
  /\ KeysAreRemembered
  /\ HolderIsOldest
=============================================================================
