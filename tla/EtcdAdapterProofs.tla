-------------------------- MODULE EtcdAdapterProofs --------------------------
(***************************************************************************)
(* Proofs about Apply and Delete, for any requests, instances, replicas,   *)
(* files and prefixes.                                                     *)
(***************************************************************************)
EXTENDS EtcdAdapter, EtcdMutexProofs

(* A request names an instance, carries a directory and sits on a replica. *)
LEMMA RequestTypes ==
  ASSUME AdapterTypeOK, NEW s \in Sessions
  PROVE  /\ op[s] \in Requests
         /\ Name(s) \in Names
         /\ op[s].at \in Replicas
         /\ op[s].kind \in {"apply", "delete"}
         /\ Content(s) \in Directories
         /\ Stored(s) \in Contents
         /\ Present(Content(s)) \subseteq AllFiles
         /\ Dir(s) \in Directories
<1>1. op[s] \in Requests
  BY DEF AdapterTypeOK
<1>2. /\ Name(s) \in Names
      /\ op[s].at \in Replicas
      /\ op[s].kind \in {"apply", "delete"}
      /\ Content(s) \in Directories
  BY <1>1 DEF Requests, Name, Content
<1>3. Kustomization \in AllFiles
  BY DEF AllFiles
<1>4. Stored(s) \in Contents
  BY <1>2, <1>3 DEF AdapterTypeOK, Stored, Directories
<1>5. Present(Content(s)) \subseteq AllFiles
  BY DEF Present
<1>6. Dir(s) \in Directories
  BY <1>2 DEF AdapterTypeOK, Dir
<1> QED
  BY <1>1, <1>2, <1>4, <1>5, <1>6

(* Every step of the adapter is a step of the lock, or leaves it alone.    *)
LEMMA RequestsUseLock ==
  ASSUME AdapterTypeOK, NEW s \in Sessions, RequestStep(s)
  PROVE  [MutexNext]_mutexVars
<1>1. Name(s) \in Locks
  BY RequestTypes DEF Names
<1>2. CASE OpenSession(s)
  BY <1>2 DEF OpenSession, MutexNext, SessionStep
<1>3. CASE Lock(s)
  <2>1. FilesUnderLock(Name(s)) \in SUBSET Storage
    BY AdapterAssumption DEF FilesUnderLock
  <2> QED
    BY <1>1, <1>3, <2>1 DEF Lock, MutexNext, SessionStep
<1>4. CASE Wait(s)
  BY <1>4 DEF Wait, MutexNext, SessionStep
<1>5. CASE CommitDelete(s) \/ CommitDeleteFails(s)
  <2>1. Under(Name(s)) \X Files \in SUBSET Storage
    BY AdapterAssumption DEF Under
  <2> QED
    BY <1>5, <2>1 DEF CommitDelete, CommitDeleteFails, DeleteUnder, MutexNext
<1>6. CASE Release(s) \/ Close(s)
  BY <1>6 DEF Release, Close, MutexNext, SessionStep
<1>7. CASE \/ Begin(s) \/ PreCheck(s) \/ PreCheckFails(s)
           \/ CheckExists(s) \/ Compare(s) \/ Load(s) \/ ReadFails(s)
           \/ WriteFile(s) \/ WriteFails(s)
           \/ Build(s) \/ Kubectl(s) \/ ToolFails(s)
           \/ CommitPut(s) \/ CommitPutFails(s)
  <2>1. UNCHANGED mutexVars
    BY <1>7 DEF Begin, PreCheck, PreCheckFails, CheckExists, Compare, Load, ReadFails,
       WriteFile, WriteFails, Build, Kubectl, ToolFails, CommitPut, CommitPutFails
  <2> QED
    BY <2>1
<1> QED
  BY <1>2, <1>3, <1>4, <1>5, <1>6, <1>7 DEF RequestStep

LEMMA AdapterUsesLock == AdapterTypeOK /\ [AdapterNext]_vars => [MutexNext]_mutexVars
<1> SUFFICES ASSUME AdapterTypeOK, [AdapterNext]_vars
             PROVE  [MutexNext]_mutexVars
  OBVIOUS
<1>1. ASSUME NEW s \in Sessions, LeaseStep(s) PROVE [MutexNext]_mutexVars
  BY <1>1 DEF LeaseStep, KeepAliveEnds, LeaseExpires, MutexNext, SessionStep
<1>2. ASSUME NEW h \in Replicas, Crash(h) PROVE [MutexNext]_mutexVars
  BY <1>2 DEF Crash, MutexNext
<1>3. CASE UNCHANGED vars
  BY <1>3 DEF vars
<1> QED
  BY <1>1, <1>2, <1>3, RequestsUseLock DEF AdapterNext

(* The file a loop of a request is at. *)
LEMMA NextFileTypes ==
  ASSUME AdapterTypeOK, NEW s \in Sessions, NEW f \in FirstOf(todo[s])
  PROVE  f \in AllFiles /\ Content(s)[f] \in Contents /\ Dir(s)[f] \in Contents
<1>1. f \in AllFiles
  BY DEF FirstOf, AdapterTypeOK
<1> QED
  BY <1>1, RequestTypes DEF Directories

(* The directory a request reads, and what an update of one file does.     *)
LEMMA DirectoryUpdate ==
  ASSUME NEW dir \in Directories, NEW f \in AllFiles, NEW c \in Contents
  PROVE  [dir EXCEPT ![f] = c] \in Directories
  BY DEF Directories

LEMMA StoreUpdate ==
  ASSUME AdapterTypeOK, NEW s \in Sessions, NEW f \in AllFiles, PutInStore(s, f)
  PROVE  kv' \in [Names -> Directories]
<1>1. Name(s) \in Names /\ Content(s)[f] \in Contents
  BY RequestTypes DEF Directories
<1>2. [kv[Name(s)] EXCEPT ![f] = Content(s)[f]] \in Directories
  BY <1>1, DirectoryUpdate DEF AdapterTypeOK
<1> QED
  BY <1>1, <1>2 DEF PutInStore, AdapterTypeOK

LEMMA DiskUpdate ==
  ASSUME AdapterTypeOK, NEW s \in Sessions, NEW f \in AllFiles, NEW c \in Contents,
         PutOnDisk(s, f, c)
  PROVE  disk' \in [Replicas -> [Names -> Directories]]
<1>1. Name(s) \in Names /\ op[s].at \in Replicas
  BY RequestTypes
<1>2. [disk[op[s].at][Name(s)] EXCEPT ![f] = c] \in Directories
  BY <1>1, DirectoryUpdate DEF AdapterTypeOK
<1>3. [disk[op[s].at] EXCEPT ![Name(s)] = [@ EXCEPT ![f] = c]] \in [Names -> Directories]
  BY <1>1, <1>2 DEF AdapterTypeOK
<1> QED
  BY <1>1, <1>3 DEF PutOnDisk, AdapterTypeOK

(* What a delete has loaded is a kustomization.yaml like any other.        *)
LEMMA LoadTypes ==
  ASSUME AdapterTypeOK, NEW s \in Sessions, NEW v \in Contents
  PROVE  /\ [op EXCEPT ![s].content[Kustomization] = v] \in [Sessions -> Requests]
<1>1. op[s] \in Requests
  BY DEF AdapterTypeOK
<1>2. [op[s].content EXCEPT ![Kustomization] = v] \in Directories
  BY <1>1, DirectoryUpdate DEF Requests, AllFiles
<1>3. [op[s] EXCEPT !.content = [@ EXCEPT ![Kustomization] = v]] \in Requests
  BY <1>1, <1>2 DEF Requests
<1> QED
  BY <1>3 DEF AdapterTypeOK

LEMMA RequestTypeStep ==
  ASSUME AdapterTypeOK, NEW s \in Sessions, RequestStep(s)
  PROVE  AdapterTypeOK'
<1> USE DEF AdapterTypeOK, Steps, Results, Goto, Answer, Return, Leave,
            storeVars, requestVars
<1>0. /\ Name(s) \in Names
      /\ Present(Content(s)) \subseteq AllFiles
      /\ AfterCheck(s) \in Steps /\ AfterLock(s) \in Steps /\ AfterWrite(s) \in Steps
  BY RequestTypes DEF AfterCheck, AfterLock, AfterWrite
<1>1. CASE Begin(s)
  BY <1>0, <1>1 DEF Begin
<1>2. CASE PreCheck(s) \/ PreCheckFails(s)
  BY <1>2 DEF PreCheck, PreCheckFails
<1>3. CASE OpenSession(s)
  BY <1>3 DEF OpenSession
<1>4. CASE Lock(s) \/ Wait(s)
  BY <1>0, <1>4 DEF Lock, Wait
<1>5. CASE CheckExists(s) \/ Compare(s) \/ ReadFails(s)
  BY <1>0, <1>5 DEF CheckExists, Compare, ReadFails
<1>6. CASE Load(s)
  <2>1. [op EXCEPT ![s].content[Kustomization] = Stored(s)] \in [Sessions -> Requests]
    BY RequestTypes, LoadTypes
  <2> QED
    BY <1>6, <2>1 DEF Load
<1>7. CASE WriteFile(s)
  <2>1. PICK f \in FirstOf(todo[s]) :
          /\ PutOnDisk(s, f, Content(s)[f])
          /\ IF todo[s] = {f}
               THEN /\ Goto(s, AfterWrite(s))
                    /\ todo' = [todo EXCEPT ![s] = Present(Content(s))]
               ELSE todo' = [todo EXCEPT ![s] = @ \ {f}] /\ UNCHANGED pc
    BY <1>7 DEF WriteFile
  <2>2. f \in AllFiles /\ Content(s)[f] \in Contents
    BY NextFileTypes
  <2>3. disk' \in [Replicas -> [Names -> Directories]]
    BY <2>1, <2>2, DiskUpdate
  <2>4. todo' \in [Sessions -> SUBSET AllFiles] /\ pc' \in [Sessions -> Steps]
    BY <1>0, <2>1
  <2> QED
    BY <1>7, <2>3, <2>4 DEF WriteFile
<1>8. CASE WriteFails(s)
  <2>1. PICK f \in FirstOf(todo[s]) :
          \E c \in {Dir(s)[f], Absent, Content(s)[f]} : PutOnDisk(s, f, c)
    BY <1>8 DEF WriteFails
  <2>2. \A c \in {Dir(s)[f], Absent, Content(s)[f]} : f \in AllFiles /\ c \in Contents
    BY NextFileTypes DEF Contents
  <2>3. disk' \in [Replicas -> [Names -> Directories]]
    <3>1. PICK c \in {Dir(s)[f], Absent, Content(s)[f]} : PutOnDisk(s, f, c)
      BY <2>1
    <3> QED
      BY <2>2, <3>1, DiskUpdate
  <2> QED
    BY <1>8, <2>3 DEF WriteFails
<1>9. CASE Build(s)
  <2>1. Dir(s)[Kustomization] \in Contents
    BY RequestTypes DEF Directories, AllFiles
  <2> QED
    BY <1>9, <2>1 DEF Build
<1>10. CASE Kubectl(s) \/ ToolFails(s)
  BY <1>0, <1>10 DEF Kubectl, ToolFails, Contents
<1>11. CASE CommitPut(s)
  <2>1. PICK f \in FirstOf(todo[s]) : PutInStore(s, f) /\ todo' = [todo EXCEPT ![s] = @ \ {f}]
    BY <1>11 DEF CommitPut
  <2>2. kv' \in [Names -> Directories]
    BY <2>1, NextFileTypes, StoreUpdate
  <2> QED
    BY <1>11, <2>1, <2>2 DEF CommitPut
<1>12. CASE CommitPutFails(s)
  <2>1. kv' \in [Names -> Directories]
    BY <1>12, NextFileTypes, StoreUpdate DEF CommitPutFails
  <2> QED
    BY <1>12, <2>1 DEF CommitPutFails
<1>13. CASE CommitDelete(s) \/ CommitDeleteFails(s)
  <2>1. EmptyDir \in Directories
    BY DEF EmptyDir, Directories, Contents
  <2>2. \A t \in Sessions : Name(t) \in Names
    BY RequestTypes
  <2>3. Under(Name(s)) \subseteq Names
    BY DEF Under
  <2>4. ASSUME DeleteUnder(s) PROVE kv' \in [Names -> Directories] /\ exposed' \subseteq Names
    BY <2>1, <2>2, <2>3, <2>4 DEF DeleteUnder
  <2> QED
    BY <1>13, <2>4 DEF CommitDelete, CommitDeleteFails
<1>14. CASE Release(s) \/ Close(s)
  BY <1>14 DEF Release, Close
<1> QED
  BY <1>1, <1>2, <1>3, <1>4, <1>5, <1>6, <1>7, <1>8, <1>9, <1>10, <1>11, <1>12,
     <1>13, <1>14 DEF RequestStep

(* All a request ever changes of itself is the content Load overwrites.    *)
LEMMA RequestsAreKept ==
  ASSUME AdapterTypeOK, NEW s \in Sessions, RequestStep(s), NEW t \in Sessions
  PROVE  /\ Name(t)' = Name(t)
         /\ IsApply(t)' = IsApply(t)
         /\ op'[t].old = op[t].old
         /\ op'[t].at = op[t].at
         /\ t # s \/ pc[t] # "load" => op'[t] = op[t]
<1>1. CASE Load(s)
  <2>1. op[t] \in Requests
    BY DEF AdapterTypeOK
  <2>2. op' = op \/ op' = [op EXCEPT ![s].content[Kustomization] = Stored(s)]
    BY <1>1 DEF Load
  <2>3. pc[s] = "load" /\ (t # s => op'[t] = op[t])
    BY <1>1, <2>2 DEF Load, AdapterTypeOK
  <2> QED
    BY <2>1, <2>2, <2>3 DEF Name, IsApply, AdapterTypeOK, Requests
<1>2. CASE ~Load(s)
  <2>1. op' = op
    BY <1>2 DEF RequestStep, Begin, PreCheck, PreCheckFails, OpenSession, Lock, Wait,
       CheckExists, Compare, ReadFails, WriteFile, WriteFails, Build, Kubectl,
       ToolFails, CommitPut, CommitPutFails, CommitDelete, CommitDeleteFails,
       Release, Close, requestVars
  <2> QED
    BY <2>1 DEF Name, IsApply
<1> QED
  BY <1>1, <1>2

(* A request leaves the place, the loop and the mutex of others alone.     *)
LEMMA RequestsAreLocal ==
  ASSUME AdapterTypeOK, MutexTypeOK, NEW s \in Sessions, RequestStep(s),
         NEW t \in Sessions, t # s
  PROVE  /\ pc'[t] = pc[t]
         /\ todo'[t] = todo[t]
         /\ mutex'[t] = mutex[t]
         /\ onLock'[t] = onLock[t]
<1> USE DEF AdapterTypeOK, MutexTypeOK, Goto, Return, Leave, Answer, requestVars, mutexVars
<1>1. CASE OpenSession(s)
  BY <1>1 DEF OpenSession, NewSession, NewSessionFails
<1>2. CASE Lock(s)
  BY <1>2 DEF Lock, LockTxn, LockTxnFails
<1>3. CASE Wait(s)
  BY <1>3 DEF Wait, WaitDone, WaitFails
<1>4. CASE Begin(s) \/ PreCheck(s) \/ PreCheckFails(s)
  BY <1>4 DEF Begin, PreCheck, PreCheckFails
<1>5. CASE CheckExists(s) \/ Compare(s) \/ Load(s) \/ ReadFails(s)
  BY <1>5 DEF CheckExists, Compare, Load, ReadFails
<1>6. CASE WriteFile(s) \/ WriteFails(s)
  BY <1>6 DEF WriteFile, WriteFails
<1>7. CASE Build(s) \/ Kubectl(s) \/ ToolFails(s)
  BY <1>7 DEF Build, Kubectl, ToolFails
<1>8. CASE CommitPut(s) \/ CommitPutFails(s)
  BY <1>8 DEF CommitPut, CommitPutFails
<1>9. CASE CommitDelete(s) \/ CommitDeleteFails(s)
  BY <1>9 DEF CommitDelete, CommitDeleteFails, DeleteUnder, DropKeys
<1>10. CASE Release(s) \/ Close(s)
  BY <1>10 DEF Release, Close, Unlock, CloseSession
<1> QED
  BY <1>1, <1>2, <1>3, <1>4, <1>5, <1>6, <1>7, <1>8, <1>9, <1>10 DEF RequestStep

(* The places that rely on the lock, spelled out for the provers.          *)
LEMMA AfterLockPlaces ==
  ASSUME NEW s \in Sessions
  PROVE  /\ AfterCheck(s) \in {"write", "load"}
         /\ AfterLock(s) \in {"write", "load", "exists"}
         /\ AfterWrite(s) \in {"tools", "commit"}
  BY DEF AfterCheck, AfterLock, AfterWrite

(* A request and its mutex move together.                                  *)
LEMMA RequestInStep ==
  ASSUME AdapterTypeOK, MutexTypeOK, InStep, NEW s \in Sessions, RequestStep(s)
  PROVE  InStep'
<1>1. \A t \in Sessions : t # s => pc'[t] = pc[t] /\ mutex'[t] = mutex[t]
  BY RequestsAreLocal
<1>2. /\ pc'[s] \in {"idle", "precheck", "session"} => mutex'[s] = "idle"
      /\ pc'[s] = "lock" => mutex'[s] = "session"
      /\ pc'[s] = "wait" => mutex'[s] = "waiting"
      /\ InSection(s)' \/ pc'[s] = "unlock" => mutex'[s] = "held"
      /\ pc'[s] = "close" => mutex'[s] = "released"
      /\ pc'[s] \in {"done", "crashed", "torn"} =>
           mutex'[s] \in {"idle", "failed", "closed", "crashed"}
  <2> USE AfterLockPlaces
      DEF InStep, AdapterTypeOK, MutexTypeOK, Goto, Return, Leave, Answer,
          requestVars, mutexVars, InSection
  <2>1. CASE OpenSession(s)
    BY <2>1 DEF OpenSession, NewSession, NewSessionFails
  <2>2. CASE Lock(s)
    BY <2>2 DEF Lock, LockTxn, LockTxnFails
  <2>3. CASE Wait(s)
    BY <2>3 DEF Wait, WaitDone, WaitFails
  <2>4. CASE Begin(s) \/ PreCheck(s) \/ PreCheckFails(s)
    BY <2>4 DEF Begin, PreCheck, PreCheckFails
  <2>5. CASE CheckExists(s) \/ Compare(s) \/ Load(s) \/ ReadFails(s)
    BY <2>5 DEF CheckExists, Compare, Load, ReadFails
  <2>6. CASE WriteFile(s) \/ WriteFails(s)
    BY <2>6 DEF WriteFile, WriteFails
  <2>7. CASE Build(s) \/ Kubectl(s) \/ ToolFails(s)
    BY <2>7 DEF Build, Kubectl, ToolFails
  <2>8. CASE CommitPut(s) \/ CommitPutFails(s)
    BY <2>8 DEF CommitPut, CommitPutFails
  <2>9. CASE CommitDelete(s) \/ CommitDeleteFails(s)
    BY <2>9 DEF CommitDelete, CommitDeleteFails, DeleteUnder, DropKeys
  <2>10. CASE Release(s) \/ Close(s)
    BY <2>10 DEF Release, Close, Unlock, CloseSession
  <2> QED
    BY <2>1, <2>2, <2>3, <2>4, <2>5, <2>6, <2>7, <2>8, <2>9, <2>10 DEF RequestStep
<1> QED
  BY <1>1, <1>2 DEF InStep, InSection

(* A request takes the key of another that relies on it only by a Delete,  *)
(* and then the other's instance is exposed.                               *)
LEMMA RequestsExpose ==
  ASSUME AdapterTypeOK, MutexTypeOK, NEW s \in Sessions, RequestStep(s)
  PROVE  /\ exposed \subseteq exposed'
         /\ \A t \in Sessions \ {s} :
              Relies(t) /\ HasKey(t) => HasKey(t)' \/ Name(t) \in exposed'
<1> USE DEF AdapterTypeOK, MutexTypeOK, HasKey, mutexVars
<1>1. CASE OpenSession(s)
  BY <1>1 DEF OpenSession, NewSession, NewSessionFails
<1>2. CASE Lock(s)
  BY <1>2 DEF Lock, LockTxn, LockTxnFails
<1>3. CASE Wait(s)
  BY <1>3 DEF Wait, WaitDone, WaitFails
<1>4. CASE CommitDelete(s) \/ CommitDeleteFails(s)
  <2>1. CASE DeleteUnder(s)
    <3> DEFINE gone == Under(Name(s))
               cut  == {t \in Sessions : HasKey(t) /\ onLock[t] \in LocksUnder(Name(s))}
    <3>1. exposed \subseteq exposed'
      BY <2>1 DEF DeleteUnder
    <3>2. ASSUME NEW t \in Sessions \ {s}, Relies(t), HasKey(t), ~HasKey(t)'
          PROVE  Name(t) \in exposed'
      <4>1. t \in cut
        BY <2>1, <3>2 DEF DeleteUnder, DropKeys
      <4> HIDE DEF gone
      <4>2. Name(t) \in {Name(u) : u \in {w \in cut \ {s} : Relies(w)}}
        BY <3>2, <4>1
      <4> QED
        BY <2>1, <4>2 DEF DeleteUnder, gone
    <3> QED
      BY <3>1, <3>2
  <2>2. CASE UNCHANGED <<mutexVars, kv, exposed>>
    BY <2>2
  <2> QED
    BY <1>4, <2>1, <2>2 DEF CommitDelete, CommitDeleteFails
<1>5. CASE Release(s) \/ Close(s)
  BY <1>5 DEF Release, Close, Unlock, CloseSession
<1>6. CASE \/ Begin(s) \/ PreCheck(s) \/ PreCheckFails(s)
           \/ CheckExists(s) \/ Compare(s) \/ Load(s) \/ ReadFails(s)
           \/ WriteFile(s) \/ WriteFails(s)
           \/ Build(s) \/ Kubectl(s) \/ ToolFails(s)
           \/ CommitPut(s) \/ CommitPutFails(s)
  <2>1. UNCHANGED <<mutexVars, exposed>>
    BY <1>6 DEF Begin, PreCheck, PreCheckFails, CheckExists, Compare, Load, ReadFails,
       WriteFile, WriteFails, Build, Kubectl, ToolFails, CommitPut, CommitPutFails
  <2> QED
    BY <2>1
<1> QED
  BY <1>1, <1>2, <1>3, <1>4, <1>5, <1>6 DEF RequestStep

(* A request that comes to rely on its lock has just put its key; one that *)
(* goes on relying on it does not touch it.                                *)
LEMMA RequestsGetKeys ==
  ASSUME AdapterTypeOK, MutexTypeOK, NEW s \in Sessions, RequestStep(s), Relies(s)'
  PROVE  \/ onLock'[s] = Name(s) /\ HasKey(s)'
         \/ Relies(s) /\ UNCHANGED <<keyRev, onLock>>
<1> USE AfterLockPlaces
    DEF AdapterTypeOK, MutexTypeOK, Goto, Return, Leave, Answer,
        requestVars, mutexVars, InSection, Relies
<1>1. CASE OpenSession(s)
  BY <1>1 DEF OpenSession
<1>2. CASE Lock(s)
  BY <1>2 DEF Lock, LockTxn, HasKey
<1>3. CASE Wait(s)
  BY <1>3 DEF Wait, WaitDone
<1>4. CASE Begin(s) \/ PreCheck(s) \/ PreCheckFails(s)
  BY <1>4 DEF Begin, PreCheck, PreCheckFails
<1>5. CASE CheckExists(s) \/ Compare(s) \/ Load(s) \/ ReadFails(s)
  BY <1>5 DEF CheckExists, Compare, Load, ReadFails
<1>6. CASE WriteFile(s) \/ WriteFails(s)
  BY <1>6 DEF WriteFile, WriteFails
<1>7. CASE Build(s) \/ Kubectl(s) \/ ToolFails(s)
  BY <1>7 DEF Build, Kubectl, ToolFails
<1>8. CASE CommitPut(s) \/ CommitPutFails(s)
  BY <1>8 DEF CommitPut, CommitPutFails
<1>9. CASE CommitDelete(s) \/ CommitDeleteFails(s)
  BY <1>9 DEF CommitDelete, CommitDeleteFails
<1>10. CASE Release(s) \/ Close(s)
  BY <1>10 DEF Release, Close
<1> QED
  BY <1>1, <1>2, <1>3, <1>4, <1>5, <1>6, <1>7, <1>8, <1>9, <1>10 DEF RequestStep

LEMMA RequestReliedKeys ==
  ASSUME AdapterTypeOK, MutexTypeOK, ReliedKeysExist, NEW s \in Sessions, RequestStep(s)
  PROVE  ReliedKeysExist'
<1> SUFFICES ASSUME NEW t \in Sessions, Relies(t)'
             PROVE  /\ onLock'[t] = Name(t)'
                    /\ Name(t)' \notin exposed' => HasKey(t)'
  BY DEF ReliedKeysExist
<1>1. Name(t)' = Name(t) /\ exposed \subseteq exposed'
  BY RequestsAreKept, RequestsExpose
<1>2. CASE t = s
  BY <1>1, <1>2, RequestsGetKeys DEF ReliedKeysExist, HasKey
<1>3. CASE t # s
  <2>1. Relies(t) /\ onLock'[t] = onLock[t]
    BY <1>3, RequestsAreLocal DEF Relies, InSection
  <2>2. HasKey(t) => HasKey(t)' \/ Name(t) \in exposed'
    BY <1>3, <2>1, RequestsExpose
  <2> QED
    BY <1>1, <2>1, <2>2 DEF ReliedKeysExist
<1> QED
  BY <1>2, <1>3

(* Two requests in the section of an instance that is not exposed both     *)
(* hold its lock with their keys in etcd, hence are one.                   *)
LEMMA KeysExclude ==
  ASSUME MutexInv, InStep, ReliedKeysExist
  PROVE  SectionExclusive
<1>1. Exclusion
  BY InvExcludes
<1> QED
  BY <1>1 DEF SectionExclusive, InStep, ReliedKeysExist, Relies, Exclusion, Holds

(* The store changes at a request's own instance, as it commits, or at an  *)
(* instance that is then exposed.                                          *)
LEMMA StoreChanges ==
  ASSUME AdapterTypeOK, NEW s \in Sessions, RequestStep(s), NEW n \in Names
  PROVE  \/ kv'[n] = kv[n]
         \/ n = Name(s) /\ pc[s] = "commit"
         \/ n \in exposed'
<1>1. CASE CommitPut(s) \/ CommitPutFails(s)
  BY <1>1 DEF CommitPut, CommitPutFails, PutInStore, AdapterTypeOK
<1>2. CASE CommitDelete(s) \/ CommitDeleteFails(s)
  <2>1. CASE DeleteUnder(s)
    <3>1. n \in Under(Name(s)) \ {Name(s)} /\ kv[n] # EmptyDir => n \in exposed'
      BY <2>1 DEF DeleteUnder
    <3>2. kv'[n] = IF n \in Under(Name(s)) THEN EmptyDir ELSE kv[n]
      BY <2>1 DEF DeleteUnder
    <3>3. pc[s] = "commit"
      BY <1>2 DEF CommitDelete, CommitDeleteFails
    <3> QED
      BY <3>1, <3>2, <3>3
  <2>2. CASE UNCHANGED kv
    BY <2>2
  <2> QED
    BY <1>2, <2>1, <2>2 DEF CommitDelete, CommitDeleteFails
<1>3. CASE ~(\/ CommitPut(s) \/ CommitPutFails(s) \/ CommitDelete(s) \/ CommitDeleteFails(s))
  <2>1. kv' = kv
    BY <1>3 DEF RequestStep, Begin, PreCheck, PreCheckFails, OpenSession, Lock, Wait,
       CheckExists, Compare, Load, ReadFails, WriteFile, WriteFails, Build, Kubectl,
       ToolFails, Release, Close, storeVars
  <2> QED
    BY <2>1
<1> QED
  BY <1>1, <1>2, <1>3

(* How a request comes to have compared: it need not, it just has, or it   *)
(* had before and has not written since.                                   *)
LEMMA RequestCompares ==
  ASSUME AdapterTypeOK, NEW s \in Sessions, RequestStep(s), Compared(s)'
  PROVE  /\ UNCHANGED kv
         /\ op[s].old # NoOld => Stored(s) = op[s].old.yaml \/ Compared(s)
         /\ ~IsApply(s) /\ pc'[s] # "load" =>
              \/ op'[s].content[Kustomization] = Stored(s)
              \/ Compared(s) /\ pc[s] # "load" /\ op'[s] = op[s]
<1> USE DEF AdapterTypeOK, Goto, Return, Leave, Answer, Compared,
            requestVars, mutexVars, storeVars
<1>1. CASE OpenSession(s)
  BY <1>1 DEF OpenSession
<1>2. CASE Lock(s) \/ Wait(s)
  BY <1>2 DEF Lock, Wait, AfterLock, AfterCheck
<1>3. CASE Begin(s) \/ PreCheck(s) \/ PreCheckFails(s)
  BY <1>3 DEF Begin, PreCheck, PreCheckFails
<1>4. CASE CheckExists(s) \/ ReadFails(s)
  BY <1>4 DEF CheckExists, ReadFails
<1>5. CASE Compare(s)
  BY <1>5 DEF Compare, AfterCheck
<1>6. CASE Load(s)
  <2>1. /\ op' = [op EXCEPT ![s].content[Kustomization] = Stored(s)]
        /\ pc[s] = "load" /\ UNCHANGED kv
    BY <1>6 DEF Load
  <2>2. op[s] \in Requests /\ Content(s) \in Directories /\ Kustomization \in AllFiles
    BY RequestTypes DEF AllFiles
  <2>3. op'[s].content[Kustomization] = Stored(s)
    BY <2>1, <2>2 DEF Requests, Directories, Content
  <2> QED
    BY <2>1, <2>3 DEF HalfPut
<1>7. CASE WriteFile(s) \/ WriteFails(s)
  BY <1>7 DEF WriteFile, WriteFails, HalfPut
<1>8. CASE Build(s) \/ Kubectl(s) \/ ToolFails(s)
  BY <1>8 DEF Build, Kubectl, ToolFails, HalfPut
<1>9. CASE CommitPut(s)
  <2>1. PICK f \in FirstOf(todo[s]) : todo' = [todo EXCEPT ![s] = @ \ {f}]
    BY <1>9 DEF CommitPut
  <2>2. Kustomization \notin todo'[s]
    BY <2>1 DEF FirstOf
  <2>3. IsApply(s) /\ op' = op /\ pc[s] = "commit"
    BY <1>9 DEF CommitPut
  <2>4. pc'[s] = "commit" => HalfPut(s)'
    BY <2>2, <2>3 DEF HalfPut, IsApply
  <2>5. pc'[s] \in {"commit", "unlock"}
    BY <1>9, <2>3 DEF CommitPut
  <2> QED
    BY <2>4, <2>5
<1>10. CASE CommitPutFails(s) \/ CommitDelete(s) \/ CommitDeleteFails(s)
  BY <1>10 DEF CommitPutFails, CommitDelete, CommitDeleteFails
<1>11. CASE Release(s) \/ Close(s)
  BY <1>11 DEF Release, Close
<1> QED
  BY <1>1, <1>2, <1>3, <1>4, <1>5, <1>6, <1>7, <1>8, <1>9, <1>10, <1>11 DEF RequestStep

(* What a request has read stays so: others of the same instance are kept  *)
(* out of the section, and those of other instances expose it if they      *)
(* reach it.                                                               *)
LEMMA RequestChecks ==
  ASSUME AdapterTypeOK, MutexTypeOK, SectionExclusive, CheckStillHolds,
         NEW s \in Sessions, RequestStep(s)
  PROVE  CheckStillHolds'
<1> SUFFICES ASSUME NEW t \in Sessions, Compared(t)', Name(t)' \notin exposed'
             PROVE  /\ op'[t].old # NoOld => Stored(t)' = op'[t].old.yaml
                    /\ ~IsApply(t)' /\ pc'[t] # "load" =>
                         Stored(t)' = op'[t].content[Kustomization]
  BY DEF CheckStillHolds, Content
<1>1. /\ Name(t)' = Name(t) /\ IsApply(t)' = IsApply(t)
      /\ op'[t].old = op[t].old
      /\ Name(t) \in Names /\ Name(t) \notin exposed
  BY RequestsAreKept, RequestTypes, RequestsExpose
<1>2. CASE t = s
  <2>1. Stored(t)' = Stored(t)
    BY <1>1, <1>2, RequestCompares DEF Stored
  <2> QED
    BY <1>1, <1>2, <2>1, RequestCompares DEF CheckStillHolds, Content
<1>3. CASE t # s
  <2>1. pc'[t] = pc[t] /\ todo'[t] = todo[t] /\ op'[t] = op[t]
    BY <1>3, RequestsAreLocal, RequestsAreKept
  <2>2. Compared(t)
    BY <1>1, <2>1 DEF Compared, HalfPut
  <2>3. InSection(t) /\ (pc[s] = "commit" => InSection(s))
    BY <2>2 DEF Compared, InSection
  <2>4. Stored(t)' = Stored(t)
    BY <1>1, <1>3, <2>3, StoreChanges DEF SectionExclusive, Stored
  <2> QED
    BY <1>1, <2>1, <2>2, <2>4 DEF CheckStillHolds, Content
<1> QED
  BY <1>2, <1>3

-----------------------------------------------------------------------------
LEMMA AdapterInitInv == AdapterInit => AdapterInv
<1> SUFFICES ASSUME AdapterInit PROVE AdapterInv
  OBVIOUS
<1>1. MutexInv
  BY MutexInitInv DEF AdapterInit
<1>2. AdapterTypeOK
  <2>1. EmptyDir \in Directories
    BY DEF EmptyDir, Directories, Contents
  <2>2. kv \in [Names -> Directories] /\ op \in [Sessions -> Requests]
    BY AdapterAssumption DEF AdapterInit
  <2>3. \A n \in Names : kv[n][Kustomization] \in Contents
    BY <2>2 DEF Directories, AllFiles
  <2> QED
    BY <2>1, <2>2, <2>3 DEF AdapterInit, AdapterTypeOK, Steps, Results, Contents
<1>3. \A s \in Sessions : pc[s] = "idle" /\ mutex[s] = "idle"
  BY DEF AdapterInit, MutexInit
<1> QED
  BY <1>1, <1>2, <1>3 DEF AdapterInv, InStep, ReliedKeysExist, CheckStillHolds,
     Relies, InSection, Compared

(* A request's step preserves the invariant.                               *)
LEMMA RequestInv ==
  ASSUME AdapterInv, NEW s \in Sessions, RequestStep(s)
  PROVE  AdapterInv'
<1> USE DEF AdapterInv
<1>1. MutexTypeOK /\ SectionExclusive
  BY KeysExclude DEF MutexInv
<1>2. MutexInv'
  BY RequestsUseLock, MutexInvStep
<1>3. AdapterTypeOK' /\ InStep' /\ ReliedKeysExist' /\ CheckStillHolds'
  BY <1>1, RequestTypeStep, RequestInStep, RequestReliedKeys, RequestChecks
<1> QED
  BY <1>2, <1>3

(* Losing the lease exposes the instance, if its lock is relied upon.      *)
LEMMA LeaseInv ==
  ASSUME AdapterInv, NEW s \in Sessions, LeaseStep(s)
  PROVE  AdapterInv'
<1> USE DEF AdapterInv
<1>1. MutexInv'
  BY MutexInvStep DEF LeaseStep, KeepAliveEnds, LeaseExpires, MutexNext, SessionStep
<1>2. /\ UNCHANGED <<kv, disk, cluster, op, pc, todo, built, result, mutex, onLock>>
      /\ exposed \subseteq exposed'
      /\ \A t \in Sessions \ {s} : keyRev'[t] = keyRev[t]
      /\ Relies(s) /\ HasKey(s) => HasKey(s)' \/ Name(s) \in exposed'
  BY DEF LeaseStep, KeepAliveEnds, LeaseExpires, LoseKeepAlive, Expire, adapterVars,
     storeVars, requestVars, MutexInv, MutexTypeOK, HasKey
<1>3. AdapterTypeOK'
  BY <1>2, RequestTypes
  DEF AdapterTypeOK, LeaseStep, KeepAliveEnds, LeaseExpires, adapterVars
<1>4. InStep' /\ CheckStillHolds'
  BY <1>2 DEF InStep, InSection, CheckStillHolds, Compared, HalfPut, IsApply, Name,
     Stored, Content
<1>5. ReliedKeysExist'
  BY <1>2 DEF ReliedKeysExist, Relies, InSection, Name, HasKey
<1> QED
  BY <1>1, <1>3, <1>4, <1>5

(* A crash takes requests out of the section, and nothing else.            *)
LEMMA CrashInv ==
  ASSUME AdapterInv, NEW h \in Replicas, Crash(h)
  PROVE  AdapterInv'
<1> USE DEF AdapterInv
<1> DEFINE dying == {s \in Sessions : InFlight(s) /\ op[s].at = h}
<1>1. /\ UNCHANGED <<kv, cluster, op, todo, built, result, exposed, keyRev, onLock>>
      /\ \A s \in Sessions \ dying : pc'[s] = pc[s] /\ mutex'[s] = mutex[s]
      /\ \A s \in dying : pc'[s] \in {"torn", "crashed"}
      /\ \A s \in dying : mutex'[s] = IF mutex[s] \in {"session", "waiting", "held", "released"}
                                      THEN "crashed" ELSE mutex[s]
  BY DEF Crash, CrashSessions, requestVars
<1>2. MutexInv'
  BY MutexInvStep DEF Crash, MutexNext
<1>3. AdapterTypeOK'
  <2>1. EmptyDir \in Directories
    BY DEF EmptyDir, Directories, Contents
  <2>2. disk' \in [Replicas -> [Names -> Directories]]
    BY <2>1 DEF Crash, AdapterTypeOK
  <2>3. pc' \in [Sessions -> Steps]
    BY DEF Crash, AdapterTypeOK, Steps
  <2> QED
    BY <1>1, <2>2, <2>3 DEF AdapterTypeOK
<1>4. InStep'
  <2>1. ASSUME NEW s \in dying
        PROVE  /\ pc'[s] \in {"torn", "crashed"}
               /\ mutex'[s] \in {"idle", "failed", "closed", "crashed"}
    <3>1. mutex[s] \in {"idle", "session", "waiting", "held", "released"}
      BY DEF InStep, InSection, InFlight, AdapterTypeOK, Steps
    <3> QED
      BY <1>1, <3>1
  <2> QED
    BY <1>1, <2>1 DEF InStep, InSection
<1>5. ReliedKeysExist' /\ CheckStillHolds'
  BY <1>1 DEF ReliedKeysExist, Relies, InSection, Name, HasKey, CheckStillHolds,
     Compared, HalfPut, IsApply, Stored, Content
<1> QED
  BY <1>2, <1>3, <1>4, <1>5

LEMMA AdapterInvStep == AdapterInv /\ [AdapterNext]_vars => AdapterInv'
<1>1. ASSUME AdapterInv, UNCHANGED vars PROVE AdapterInv'
  <2>1. MutexInv'
    BY <1>1, MutexInvStep DEF vars, AdapterInv
  <2>2. UNCHANGED adapterVars /\ UNCHANGED <<mutex, onLock, keyRev>>
    BY <1>1 DEF vars, mutexVars
  <2> QED
    BY <1>1, <2>1, <2>2
    DEF adapterVars, AdapterInv, AdapterTypeOK, InStep, ReliedKeysExist,
        CheckStillHolds, Compared, HalfPut, IsApply, Stored, Content, Name, Relies,
        InSection, HasKey
<1> QED
  BY <1>1, RequestInv, LeaseInv, CrashInv DEF AdapterNext

(* The adapter's inductive invariant: types, the lock's own invariant, and *)
(* the link between a request's place, its mutex, its key and what it has  *)
(* read.                                                                   *)
THEOREM AdapterInvariance == AdapterSpec => []AdapterInv
<1>1. AdapterInit => AdapterInv
  BY AdapterInitInv
<1>2. AdapterInv /\ [AdapterNext]_vars => AdapterInv'
  BY AdapterInvStep
<1> QED
  BY <1>1, <1>2, PTL DEF AdapterSpec

(* One request at a time between GetSessionAndMutex and Commit of an       *)
(* instance, until it is exposed.                                          *)
THEOREM SectionExclusion == AdapterSpec => []SectionExclusive
<1>1. AdapterSpec => []AdapterInv
  BY AdapterInvariance
<1>2. AdapterInv => SectionExclusive
  BY KeysExclude DEF AdapterInv
<1> QED
  BY <1>1, <1>2, PTL

(* The comparison with old_instance, and the kustomization.yaml a delete   *)
(* loads, are as good at Commit as when they were made.                    *)
THEOREM CheckStability == AdapterSpec => []CheckStillHolds
<1>1. AdapterSpec => []AdapterInv
  BY AdapterInvariance
<1>2. AdapterInv => CheckStillHolds
  BY DEF AdapterInv
<1> QED
  BY <1>1, <1>2, PTL
=============================================================================
