--------------------------- MODULE EtcdMutexProofs ---------------------------
(* Proofs about the lock, for any number of sessions and locks. *)
EXTENDS EtcdMutex, TLAPS

(* Initially no key, lease or holder exists. *)
LEMMA MutexInitInv == MutexInit => MutexInv
  BY NoLockAssumption
  DEF MutexInit, MutexInv, MutexTypeOK, KeysAreLeased, KeysAreBounded,
      KeysAreDistinct, KeysAreRemembered, HolderIsOldest, HasKey, Holds, Phases

(* Types are preserved by every step of a session, by a crash and by the   *)
(* deletion of keys by others.                                             *)
LEMMA MutexTypeStep == MutexTypeOK /\ [MutexNext]_mutexVars => MutexTypeOK'
<1> SUFFICES ASSUME MutexTypeOK, [MutexNext]_mutexVars
             PROVE  MutexTypeOK'
  OBVIOUS
<1> USE DEF MutexTypeOK, Phases
<1>1. ASSUME NEW s \in Sessions, NewSession(s) PROVE MutexTypeOK'
  BY <1>1 DEF NewSession
<1>2. ASSUME NEW s \in Sessions, NewSessionFails(s) PROVE MutexTypeOK'
  BY <1>2 DEF NewSessionFails
<1>3. ASSUME NEW s \in Sessions, NEW l \in Locks, NEW others \in SUBSET Storage,
             LockTxn(s, l, others) PROVE MutexTypeOK'
  BY <1>3 DEF LockTxn
<1>4. ASSUME NEW s \in Sessions, NEW l \in Locks, LockTxnFails(s, l) PROVE MutexTypeOK'
  BY <1>4 DEF LockTxnFails, CloseLease
<1>5. ASSUME NEW s \in Sessions, WaitDone(s) PROVE MutexTypeOK'
  BY <1>5 DEF WaitDone
<1>6. ASSUME NEW s \in Sessions, WaitFails(s) PROVE MutexTypeOK'
  BY <1>6 DEF WaitFails, CloseLease
<1>7. ASSUME NEW s \in Sessions, Unlock(s) PROVE MutexTypeOK'
  BY <1>7 DEF Unlock
<1>8. ASSUME NEW s \in Sessions, CloseSession(s) PROVE MutexTypeOK'
  BY <1>8 DEF CloseSession, CloseLease
<1>9. ASSUME NEW s \in Sessions, LoseKeepAlive(s) PROVE MutexTypeOK'
  BY <1>9 DEF LoseKeepAlive
<1>10. ASSUME NEW s \in Sessions, Expire(s) PROVE MutexTypeOK'
  BY <1>10 DEF Expire
<1>11. ASSUME NEW S \in SUBSET Sessions, CrashSessions(S) PROVE MutexTypeOK'
  BY <1>11 DEF CrashSessions
<1>12. ASSUME NEW S \in SUBSET Sessions, NEW D \in SUBSET Storage,
              DropKeys(S, D) PROVE MutexTypeOK'
  BY <1>12 DEF DropKeys
<1>13. CASE UNCHANGED mutexVars
  BY <1>13 DEF mutexVars
<1> QED
  BY <1>1, <1>2, <1>3, <1>4, <1>5, <1>6, <1>7, <1>8, <1>9, <1>10, <1>11, <1>12,
     <1>13 DEF MutexNext, SessionStep

(* The invariant about keys is inductive.  LockTxn and WaitDone make new   *)
(* holders, so they are where HolderIsOldest needs the bound on revisions  *)
(* and the remembered revision; every other step only removes keys or      *)
(* holders.                                                                *)
LEMMA MutexInvStep == MutexInv /\ [MutexNext]_mutexVars => MutexInv'
<1> SUFFICES ASSUME MutexInv, [MutexNext]_mutexVars
             PROVE  MutexInv'
  OBVIOUS
<1>0. MutexTypeOK'
  BY MutexTypeStep DEF MutexInv
<1> USE DEF MutexInv, MutexTypeOK, Phases, KeysAreLeased, KeysAreBounded,
            KeysAreDistinct, KeysAreRemembered, HolderIsOldest, HasKey, Holds
<1>1. ASSUME NEW s \in Sessions, NewSession(s) PROVE MutexInv'
  BY <1>0, <1>1 DEF NewSession
<1>2. ASSUME NEW s \in Sessions, NewSessionFails(s) PROVE MutexInv'
  BY <1>0, <1>2 DEF NewSessionFails
<1>3. ASSUME NEW s \in Sessions, NEW l \in Locks, NEW others \in SUBSET Storage,
             LockTxn(s, l, others) PROVE MutexInv'
  <2>1. KeysAreLeased' /\ KeysAreBounded' /\ KeysAreDistinct' /\ KeysAreRemembered'
    BY <1>3 DEF LockTxn
  <2>2. HolderIsOldest'
    BY <1>3 DEF LockTxn, Keyed
  <2> QED
    BY <1>0, <2>1, <2>2
<1>4. ASSUME NEW s \in Sessions, NEW l \in Locks, LockTxnFails(s, l) PROVE MutexInv'
  <2>1. KeysAreLeased' /\ KeysAreBounded' /\ KeysAreDistinct' /\ KeysAreRemembered'
    BY <1>4 DEF LockTxnFails, CloseLease
  <2>2. HolderIsOldest'
    BY <1>4 DEF LockTxnFails, CloseLease
  <2> QED
    BY <1>0, <2>1, <2>2
<1>5. ASSUME NEW s \in Sessions, WaitDone(s) PROVE MutexInv'
  BY <1>0, <1>5 DEF WaitDone, Keyed
<1>6. ASSUME NEW s \in Sessions, WaitFails(s) PROVE MutexInv'
  BY <1>0, <1>6 DEF WaitFails, CloseLease
<1>7. ASSUME NEW s \in Sessions, Unlock(s) PROVE MutexInv'
  BY <1>0, <1>7 DEF Unlock
<1>8. ASSUME NEW s \in Sessions, CloseSession(s) PROVE MutexInv'
  BY <1>0, <1>8 DEF CloseSession, CloseLease
<1>9. ASSUME NEW s \in Sessions, LoseKeepAlive(s) PROVE MutexInv'
  BY <1>0, <1>9 DEF LoseKeepAlive
<1>10. ASSUME NEW s \in Sessions, Expire(s) PROVE MutexInv'
  BY <1>0, <1>10 DEF Expire
<1>11. ASSUME NEW S \in SUBSET Sessions, CrashSessions(S) PROVE MutexInv'
  BY <1>0, <1>11 DEF CrashSessions
<1>12. ASSUME NEW S \in SUBSET Sessions, NEW D \in SUBSET Storage,
              DropKeys(S, D) PROVE MutexInv'
  BY <1>0, <1>12 DEF DropKeys
<1>13. CASE UNCHANGED mutexVars
  BY <1>13 DEF mutexVars
<1> QED
  BY <1>1, <1>2, <1>3, <1>4, <1>5, <1>6, <1>7, <1>8, <1>9, <1>10, <1>11, <1>12,
     <1>13 DEF MutexNext, SessionStep

(* Two keyed holders of one lock are each the oldest, hence the same.      *)
LEMMA InvExcludes == MutexInv => Exclusion
  BY DEF MutexInv, MutexTypeOK, Exclusion, HolderIsOldest, KeysAreDistinct, Holds, HasKey

(* Every reachable state is well typed and satisfies the key invariant.    *)
THEOREM MutexInvariance == MutexSpec => []MutexInv
<1>1. MutexInit => MutexInv
  BY MutexInitInv
<1>2. MutexInv /\ [MutexNext]_mutexVars => MutexInv'
  BY MutexInvStep
<1> QED
  BY <1>1, <1>2, PTL DEF MutexSpec

(* Mutual exclusion of keyed holders, for any sessions, locks, failures,   *)
(* expiries, crashes and foreign deletions.                                *)
THEOREM MutualExclusion == MutexSpec => []Exclusion
<1>1. MutexSpec => []MutexInv
  BY MutexInvariance
<1>2. MutexInv => Exclusion
  BY InvExcludes
<1> QED
  BY <1>1, <1>2, PTL
=============================================================================
