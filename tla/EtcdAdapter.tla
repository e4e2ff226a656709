----------------------------- MODULE EtcdAdapter -----------------------------
(***************************************************************************)
(* Apply and Delete requests served by replicas of hambone over one etcd   *)
(* (pkg/instances/instances.go Apply and Delete, pkg/state/etcd/etcd.go    *)
(* etcdUpdater and etcdDeleter).  Each request is one goroutine with its   *)
(* own etcd client and session; requests share etcd, the cluster kubectl   *)
(* talks to and, on one replica, the instances directory.                  *)
(*                                                                         *)
(* A call may fail at its client with or without having taken effect; an   *)
(* effect comes no later than the error.  Objects of an instance keep      *)
(* their names from one kustomization.yaml to the next, so the cluster     *)
(* runs one kustomization.yaml per instance, or part of it, or none.       *)
(***************************************************************************)
EXTENDS EtcdMutex, Kustomize

CONSTANTS
  Asks,       \* the requests clients send
  Replicas,   \* hambone processes, each with an instances directory
  Mode,       \* "kubectl", "build" (EnableKustomizeBuild only) or "none"
  Needs,      \* Needs[v]: the files that kustomization.yaml v names
  Invalid,    \* kustomization.yaml contents with objects kubectl, or Kubernetes, rejects
  Prefixed,   \* <<n, m>>: the key of instance m starts with the key of n,
  LockPrefixed, \* ... the lock keys of m do,
  LockNamed,  \* ... n is the name of m with "-lock" appended
  NoOld,      \* the request carries no old_instance
  Starts      \* what earlier requests may have left in etcd

Names == Locks

(* What the tools reject, of those the server was told to use. *)
Refused == Rejected \cup IF Mode = "kubectl" THEN Invalid ELSE {}

Old == [name : Names, yaml : Values]

Requests == [kind : {"apply", "delete"}, name : Names, content : Directories,
             old : Old \cup {NoOld}, at : Replicas]

ASSUME AdapterAssumption ==
  /\ Asks \subseteq Requests
  /\ \A r \in Asks : r.content[Kustomization] # Absent
  /\ Mode \in {"kubectl", "build", "none"}
  /\ Needs \in [Values -> SUBSET Files]
  /\ Invalid \subseteq Values
  /\ Prefixed \subseteq Names \X Names
  /\ \A n \in Names : <<n, n>> \in Prefixed
  /\ LockPrefixed \subseteq Names \X Names
  /\ Prefixed \cup LockNamed \subseteq LockPrefixed
  /\ Names \X Files \subseteq Storage
  /\ NoOld \notin Old
  /\ Starts \subseteq [Names -> Directories]
  /\ \A start \in Starts, n \in Names : start[n][Kustomization] \notin Refused

VARIABLES
  kv,         \* etcd: the storage keys of each instance
  disk,       \* the instances directory of each replica
  cluster,    \* the kustomization.yaml each instance's objects in the cluster are of
  op,         \* the request; Load overwrites a delete's kustomization.yaml
  pc,         \* where the request's goroutine is
  todo,       \* files the current loop has still to write or put
  built,      \* the output of kustomize build, held for kubectl
  result,     \* what the request will be answered, "none" while open
  exposed     \* history: instances a request touched without their lock

storeVars   == <<kv, disk, cluster>>
requestVars == <<op, todo, built>>
adapterVars == <<kv, disk, cluster, op, pc, todo, built, result, exposed>>
vars        == <<mutexVars, adapterVars>>

Steps == {"idle", "precheck", "session", "lock", "wait", "exists", "compare",
          "load", "write", "tools", "kubectl", "commit", "unlock", "close",
          "done", "crashed", "torn"}

Results == {"none", "ok", "mismatch", "absent", "differs", "failed"}

AdapterTypeOK ==
  /\ kv \in [Names -> Directories]
  /\ disk \in [Replicas -> [Names -> Directories]]
  /\ cluster \in [Names -> Contents]
  /\ op \in [Sessions -> Requests]
  /\ pc \in [Sessions -> Steps]
  /\ todo \in [Sessions -> SUBSET AllFiles]
  /\ built \in [Sessions -> Contents]
  /\ result \in [Sessions -> Results]
  /\ exposed \subseteq Names

AdapterInit ==
  /\ MutexInit
  /\ kv \in Starts
  /\ disk = [h \in Replicas |-> [n \in Names |-> EmptyDir]]
  /\ cluster = [n \in Names |->
                  IF Mode = "kubectl" THEN kv[n][Kustomization] ELSE Absent]
  /\ op \in [Sessions -> Asks]
  /\ pc = [s \in Sessions |-> "idle"]
  /\ todo = [s \in Sessions |-> {}]
  /\ built = [s \in Sessions |-> Absent]
  /\ result = [s \in Sessions |-> "none"]
  /\ exposed = {}

-----------------------------------------------------------------------------
Name(s)   == op[s].name
IsApply(s) == op[s].kind = "apply"
Content(s) == op[s].content
Dir(s)    == disk[op[s].at][Name(s)]
Stored(s) == kv[Name(s)][Kustomization]

(* The names Delete(key, WithPrefix()) reaches, n among them, and those    *)
(* whose locks it reaches.                                                 *)
Under(n)      == {m \in Names : <<n, m>> \in Prefixed}
LocksUnder(n) == {m \in Names : <<n, m>> \in LockPrefixed}

(* The keys of files that lie where the lock keys of m do. *)
FilesUnderLock(m) ==
  {k \in Names \X Files : <<k[1], m>> \in LockNamed /\ kv[k[1]][k[2]] # Absent}

(* kustomization.yaml is written and put before the other files. *)
FirstOf(T) == IF Kustomization \in T THEN {Kustomization} ELSE T

InSection(s) == pc[s] \in {"exists", "compare", "load", "write", "tools",
                           "kubectl", "commit"}
Relies(s)    == InSection(s) \/ pc[s] = "wait"
InFlight(s)  == pc[s] \notin {"idle", "done", "crashed", "torn"}

(* The kustomization.yaml is in etcd and files are still to be put. *)
HalfPut(s) == pc[s] = "commit" /\ IsApply(s) /\ Kustomization \notin todo[s]

Goto(s, step) == pc' = [pc EXCEPT ![s] = step]
Answer(s, r)  == result' = [result EXCEPT ![s] = r]

(* An early return before, and after, the cleanup functions are set up. *)
Return(s, r) == Goto(s, "done") /\ Answer(s, r)
Leave(s, r)  == Goto(s, "unlock") /\ Answer(s, r)

AfterCheck(s) == IF IsApply(s) THEN "write" ELSE "load"
AfterLock(s)  == IF op[s].old = NoOld THEN AfterCheck(s) ELSE "exists"
(* Faulty form: without kubectl, nothing is built. *)
AfterWrite_KubectlOnly(s) == IF Mode = "kubectl" THEN "tools" ELSE "commit"

AfterWrite(s) == IF Mode = "kubectl" \/ (Mode = "build" /\ IsApply(s))
                   THEN "tools" ELSE "commit"

-----------------------------------------------------------------------------
NamesEquate(s) == op[s].old # NoOld => op[s].old.name = Name(s)

(* Instance.Apply, Instance.Delete: NamesEquate, then Init of the updater  *)
(* or the deleter.                                                         *)
Begin(s) ==
  /\ pc[s] = "idle"
  /\ IF NamesEquate(s)
       THEN /\ Goto(s, IF IsApply(s) THEN "session" ELSE "precheck")
            /\ UNCHANGED result
       ELSE Return(s, "mismatch")
  /\ todo' = [todo EXCEPT ![s] = Present(Content(s))]
  /\ UNCHANGED <<mutexVars, storeVars, op, built, exposed>>

(* etcdDeleter.Init: the key must exist; nothing is locked yet. *)
PreCheck(s) ==
  /\ pc[s] = "precheck"
  /\ IF Stored(s) = Absent
       THEN Return(s, "absent")
       ELSE Goto(s, "session") /\ UNCHANGED result
  /\ UNCHANGED <<mutexVars, storeVars, requestVars, exposed>>

PreCheckFails(s) ==
  /\ pc[s] = "precheck"
  /\ Return(s, "failed")
  /\ UNCHANGED <<mutexVars, storeVars, requestVars, exposed>>

(* GetSessionAndMutex: NewSession ... *)
OpenSession(s) ==
  /\ pc[s] = "session"
  /\ \/ NewSession(s) /\ Goto(s, "lock") /\ UNCHANGED result
     \/ NewSessionFails(s) /\ Return(s, "failed")
  /\ UNCHANGED <<storeVars, requestVars, exposed>>

(* Faulty form: the name of the lock contains the caller. *)
Lock_PerCaller(s) ==
  LET lock == <<Name(s), op[s].kind>>
  IN  /\ pc[s] = "lock"
      /\ \/ /\ LockTxn(s, lock, {})
            /\ Goto(s, IF Keyed(lock) = {} THEN AfterLock(s) ELSE "wait")
            /\ UNCHANGED result
         \/ LockTxnFails(s, lock) /\ Return(s, "failed")
      /\ UNCHANGED <<storeVars, requestVars, exposed>>

(* ... then Mutex.Lock on the instance's key with "-lock" appended: the    *)
(* transaction ...                                                         *)
Lock(s) ==
  /\ pc[s] = "lock"
  /\ \/ /\ LockTxn(s, Name(s), FilesUnderLock(Name(s)))
        /\ Goto(s, IF Keyed(Name(s)) \cup FilesUnderLock(Name(s)) = {}
                      THEN AfterLock(s) ELSE "wait")
        /\ UNCHANGED result
     \/ LockTxnFails(s, Name(s)) /\ Return(s, "failed")
  /\ UNCHANGED <<storeVars, requestVars, exposed>>

(* Faulty form: the error of a wait that timed out is dropped. *)
Wait_TimeoutIgnored(s) ==
  /\ pc[s] = "wait"
  /\ mutex' = [mutex EXCEPT ![s] = "held"]
  /\ Goto(s, AfterLock(s))
  /\ UNCHANGED <<rev, keyRev, lease, onLock, kept, myRev, ahead, result>>
  /\ UNCHANGED <<storeVars, requestVars, exposed>>

(* ... and the wait for older keys, if there are any. *)
Wait(s) ==
  /\ pc[s] = "wait"
  /\ \/ WaitDone(s) /\ Goto(s, AfterLock(s)) /\ UNCHANGED result
     \/ WaitFails(s) /\ Return(s, "failed")
  /\ UNCHANGED <<storeVars, requestVars, exposed>>

-----------------------------------------------------------------------------
(* Faulty form: that the key exists is taken for a match. *)
CheckExists_NoCompare(s) ==
  /\ pc[s] = "exists"
  /\ IF Stored(s) = Absent
       THEN Leave(s, "absent")
       ELSE Goto(s, AfterCheck(s)) /\ UNCHANGED result
  /\ UNCHANGED <<mutexVars, storeVars, requestVars, exposed>>

(* oldInstanceEqualsCurrentInstanceIfSet reads etcd twice: that the key    *)
(* exists, then its value.                                                 *)
CheckExists(s) ==
  /\ pc[s] = "exists"
  /\ IF Stored(s) = Absent
       THEN Leave(s, "absent")
       ELSE Goto(s, "compare") /\ UNCHANGED result
  /\ UNCHANGED <<mutexVars, storeVars, requestVars, exposed>>

Compare(s) ==
  /\ pc[s] = "compare"
  /\ \/ Stored(s) = Absent /\ Leave(s, "failed")
     \/ Stored(s) = op[s].old.yaml /\ Goto(s, AfterCheck(s)) /\ UNCHANGED result
     \/ Stored(s) \notin {Absent, op[s].old.yaml} /\ Leave(s, "differs")
  /\ UNCHANGED <<mutexVars, storeVars, requestVars, exposed>>

(* Faulty form: an empty response is not looked at. *)
Load_AbsentPasses(s) ==
  /\ pc[s] = "load"
  /\ op' = [op EXCEPT ![s].content[Kustomization] = Stored(s)]
  /\ Goto(s, "write")
  /\ UNCHANGED result
  /\ UNCHANGED <<mutexVars, storeVars, todo, built, exposed>>

(* etcdDeleter.Init: load the kustomization.yaml to delete by. *)
Load(s) ==
  /\ pc[s] = "load"
  /\ IF Stored(s) = Absent
       THEN Leave(s, "failed") /\ UNCHANGED op
       ELSE /\ op' = [op EXCEPT ![s].content[Kustomization] = Stored(s)]
            /\ Goto(s, "write")
            /\ UNCHANGED result
  /\ UNCHANGED <<mutexVars, storeVars, todo, built, exposed>>

ReadFails(s) ==
  /\ pc[s] \in {"exists", "compare", "load"}
  /\ Leave(s, "failed")
  /\ UNCHANGED <<mutexVars, storeVars, requestVars, exposed>>

(* The instance's directory on the request's replica gets c as its file f. *)
PutOnDisk(s, f, c) ==
  disk' = [disk EXCEPT ![op[s].at][Name(s)][f] = c]

(* Faulty form: the files that come with the kustomization.yaml are not    *)
(* written.                                                                *)
WriteFile_YamlOnly(s) ==
  /\ pc[s] = "write"
  /\ PutOnDisk(s, Kustomization, Content(s)[Kustomization])
  /\ Goto(s, AfterWrite(s))
  /\ todo' = [todo EXCEPT ![s] = Present(Content(s))]
  /\ UNCHANGED <<mutexVars, kv, cluster, op, built, result, exposed>>

(* MkdirFile, once for each file of the request. *)
WriteFile(s) ==
  /\ pc[s] = "write"
  /\ \E f \in FirstOf(todo[s]) :
       /\ PutOnDisk(s, f, Content(s)[f])
       /\ IF todo[s] = {f}
            THEN /\ Goto(s, AfterWrite(s))
                 /\ todo' = [todo EXCEPT ![s] = Present(Content(s))]
            ELSE todo' = [todo EXCEPT ![s] = @ \ {f}] /\ UNCHANGED pc
  /\ UNCHANGED <<mutexVars, kv, cluster, op, built, result, exposed>>

(* The file is left as it was, truncated (as good as absent), or written. *)
WriteFails(s) ==
  /\ pc[s] = "write"
  /\ \E f \in FirstOf(todo[s]) :
       \E c \in {Dir(s)[f], Absent, Content(s)[f]} : PutOnDisk(s, f, c)
  /\ Leave(s, "failed")
  /\ UNCHANGED <<mutexVars, kv, cluster, requestVars, exposed>>

-----------------------------------------------------------------------------
(* Faulty form: the exit code of kustomize is ignored. *)
Build_ExitIgnored(s) ==
  /\ pc[s] = "tools"
  /\ built' = [built EXCEPT ![s] = Dir(s)[Kustomization]]
  /\ Goto(s, IF Mode = "kubectl" THEN "kubectl" ELSE "commit")
  /\ UNCHANGED <<mutexVars, storeVars, op, todo, result, exposed>>

(* KustomizeBuild, and the first half of PipeKustomizeToKubectl: read the  *)
(* directory.  The output stays in memory; KustomizeBuild drops it.        *)
Build(s) ==
  /\ pc[s] = "tools"
  /\ Builds(Dir(s), Needs)
  /\ built' = [built EXCEPT ![s] = Dir(s)[Kustomization]]
  /\ Goto(s, IF Mode = "kubectl" THEN "kubectl" ELSE "commit")
  /\ UNCHANGED <<mutexVars, storeVars, op, todo, result, exposed>>

(* Faulty form: the exit code of kubectl is ignored. *)
Kubectl_ExitIgnored(s) ==
  /\ pc[s] = "kubectl"
  /\ cluster' = [cluster EXCEPT ![Name(s)] = IF IsApply(s) THEN built[s] ELSE Absent]
  /\ Goto(s, "commit")
  /\ UNCHANGED <<mutexVars, kv, disk, requestVars, result, exposed>>

(* The second half: kubectl apply, which fails on what it or Kubernetes    *)
(* rejects, or kubectl delete, which fails on objects that are not there.  *)
Kubectl(s) ==
  /\ pc[s] = "kubectl"
  /\ IF IsApply(s) THEN built[s] \notin Invalid ELSE cluster[Name(s)] # Absent
  /\ cluster' = [cluster EXCEPT ![Name(s)] = IF IsApply(s) THEN built[s] ELSE Absent]
  /\ Goto(s, "commit")
  /\ UNCHANGED <<mutexVars, kv, disk, requestVars, result, exposed>>

(* Faulty form: the deleter's Cancel drops the error. *)
ToolFails_CancelSwallows(s) ==
  /\ pc[s] \in {"tools", "kubectl"}
  /\ \/ UNCHANGED cluster
     \/ /\ pc[s] = "kubectl"
        /\ cluster' = [cluster EXCEPT ![Name(s)] = IF IsApply(s) THEN built[s] ELSE Absent]
  /\ Leave(s, IF IsApply(s) THEN "failed" ELSE "ok")
  /\ UNCHANGED <<mutexVars, kv, disk, requestVars, exposed>>

(* Either tool fails.  kubectl may have dealt with all of the objects it   *)
(* was given, some (which counts as all), or none before it failed.        *)
(* Cancel hands the error on and undoes nothing.                           *)
ToolFails(s) ==
  /\ pc[s] \in {"tools", "kubectl"}
  /\ \/ UNCHANGED cluster
     \/ /\ pc[s] = "kubectl"
        /\ cluster' = [cluster EXCEPT ![Name(s)] = IF IsApply(s) THEN built[s] ELSE Absent]
  /\ Leave(s, "failed")
  /\ UNCHANGED <<mutexVars, kv, disk, requestVars, exposed>>

(* etcdUpdater.Commit: one Put after another, no transaction. *)
PutInStore(s, f) ==
  kv' = [kv EXCEPT ![Name(s)][f] = Content(s)[f]]

(* Faulty form: returns after the kustomization.yaml. *)
CommitPut_YamlOnly(s) ==
  /\ pc[s] = "commit"
  /\ IsApply(s)
  /\ PutInStore(s, Kustomization)
  /\ Leave(s, "ok")
  /\ UNCHANGED <<mutexVars, disk, cluster, requestVars, exposed>>

CommitPut(s) ==
  /\ pc[s] = "commit"
  /\ IsApply(s)
  /\ \E f \in FirstOf(todo[s]) :
       /\ PutInStore(s, f)
       /\ todo' = [todo EXCEPT ![s] = @ \ {f}]
       /\ IF todo[s] = {f} THEN Leave(s, "ok") ELSE UNCHANGED <<pc, result>>
  /\ UNCHANGED <<mutexVars, disk, cluster, op, built, exposed>>

(* Faulty form: the error of a Put is shadowed and lost. *)
CommitPutFails_Shadowed(s) ==
  /\ pc[s] = "commit"
  /\ IsApply(s)
  /\ Leave(s, "ok")
  /\ UNCHANGED <<mutexVars, storeVars, requestVars, exposed>>

CommitPutFails(s) ==
  /\ pc[s] = "commit"
  /\ IsApply(s)
  /\ \/ UNCHANGED kv
     \/ \E f \in FirstOf(todo[s]) : PutInStore(s, f)
  /\ Leave(s, "failed")
  /\ UNCHANGED <<mutexVars, disk, cluster, requestVars, exposed>>

(* Delete(key, WithPrefix()): every storage key and every lock key that    *)
(* starts with the instance's key.  The history notes whose lock this took *)
(* away, and which other instances it emptied.                             *)
DeleteUnder(s) ==
  LET gone == Under(Name(s))
      cut  == {t \in Sessions : HasKey(t) /\ onLock[t] \in LocksUnder(Name(s))}
  IN  /\ kv' = [m \in Names |-> IF m \in gone THEN EmptyDir ELSE kv[m]]
      /\ DropKeys(cut, gone \X Files)
      /\ exposed' = exposed
           \cup {Name(t) : t \in {u \in cut \ {s} : Relies(u)}}
           \cup {m \in gone \ {Name(s)} : kv[m] # EmptyDir}

CommitDelete(s) ==
  /\ pc[s] = "commit"
  /\ ~IsApply(s)
  /\ DeleteUnder(s)
  /\ Leave(s, "ok")
  /\ UNCHANGED <<disk, cluster, requestVars>>

CommitDeleteFails(s) ==
  /\ pc[s] = "commit"
  /\ ~IsApply(s)
  /\ DeleteUnder(s) \/ UNCHANGED <<mutexVars, kv, exposed>>
  /\ Leave(s, "failed")
  /\ UNCHANGED <<disk, cluster, requestVars>>

(* RunCleanupFuncs: last registered, first run. *)
Release(s) ==
  /\ pc[s] = "unlock"
  /\ Unlock(s)
  /\ Goto(s, "close")
  /\ UNCHANGED <<storeVars, requestVars, result, exposed>>

Close(s) ==
  /\ pc[s] = "close"
  /\ CloseSession(s)
  /\ Goto(s, "done")
  /\ UNCHANGED <<storeVars, requestVars, result, exposed>>

-----------------------------------------------------------------------------
KeepAliveEnds(s) == LoseKeepAlive(s) /\ UNCHANGED adapterVars

LeaseExpires(s) ==
  /\ Expire(s)
  /\ exposed' = exposed \cup IF Relies(s) /\ HasKey(s) THEN {Name(s)} ELSE {}
  /\ UNCHANGED <<storeVars, requestVars, pc, result>>

(* A replica dies with its requests; it comes back with its instances      *)
(* directory, or with an empty one.                                        *)
Crash(h) ==
  LET dying == {s \in Sessions : InFlight(s) /\ op[s].at = h}
  IN  /\ pc' = [s \in Sessions |->
                  IF s \notin dying THEN pc[s]
                  ELSE IF HalfPut(s) THEN "torn" ELSE "crashed"]
      /\ CrashSessions(dying)
      /\ \/ UNCHANGED disk
         \/ disk' = [disk EXCEPT ![h] = [n \in Names |-> EmptyDir]]
      /\ UNCHANGED <<kv, cluster, requestVars, result, exposed>>

-----------------------------------------------------------------------------
RequestStep(s) ==
  \/ Begin(s) \/ PreCheck(s) \/ PreCheckFails(s)
  \/ OpenSession(s) \/ Lock(s) \/ Wait(s)
  \/ CheckExists(s) \/ Compare(s) \/ Load(s) \/ ReadFails(s)
  \/ WriteFile(s) \/ WriteFails(s)
  \/ Build(s) \/ Kubectl(s) \/ ToolFails(s)
  \/ CommitPut(s) \/ CommitPutFails(s)
  \/ CommitDelete(s) \/ CommitDeleteFails(s)
  \/ Release(s) \/ Close(s)

LeaseStep(s) == KeepAliveEnds(s) \/ LeaseExpires(s)

AdapterNext ==
  \/ \E s \in Sessions : RequestStep(s) \/ LeaseStep(s)
  \/ \E h \in Replicas : Crash(h)

AdapterSpec == AdapterInit /\ [][AdapterNext]_vars

(* What must happen: the calls a request makes to etcd and to the disk     *)
(* return (the reads of whether a key exists, and Unlock, have no timeout; *)
(* etcd is taken to answer those), watches fire, the session's 30 s run    *)
(* out, and so do leases.  No tool is assumed to return, no wait to time   *)
(* out, and no client to send anything.                                    *)
AdapterFairness ==
  \A s \in Sessions :
    /\ WF_vars(RequestStep(s) /\ pc[s] \notin {"idle", "wait", "tools", "kubectl"})
    /\ WF_vars(Wait(s) /\ result' = result)
    /\ WF_vars(KeepAliveEnds(s))
    /\ WF_vars(LeaseExpires(s))

FairAdapterSpec == AdapterSpec /\ AdapterFairness

-----------------------------------------------------------------------------
(* Up to exposure, two requests inside the section between GetSessionAnd-  *)
(* Mutex and Commit are never of the same instance, whichever replicas     *)
(* serve them and whatever fails, times out or crashes.                    *)
SectionExclusive ==
  \A s, t \in Sessions :
    /\ InSection(s) /\ InSection(t)
    /\ Name(s) = Name(t) /\ Name(s) \notin exposed
    => s = t

(* The old_instance, if any, has been compared, and the store not written. *)
Compared(s) ==
  pc[s] \in {"load", "write", "tools", "kubectl", "commit"} /\ ~HalfPut(s)

(* Up to exposure, what Init read is still so when Commit writes: the      *)
(* stored kustomization.yaml is the old_instance the client passed, and    *)
(* for a delete it is the one whose objects kubectl removes.               *)
CheckStillHolds ==
  \A s \in Sessions :
    Compared(s) /\ Name(s) \notin exposed =>
      /\ op[s].old # NoOld => Stored(s) = op[s].old.yaml
      /\ ~IsApply(s) /\ pc[s] # "load" => Stored(s) = Content(s)[Kustomization]

(* Why: a request and its mutex are in step; a request that waits for or   *)
(* relies on its lock asked for the lock of its own instance; and, up to   *)
(* exposure, its key is there.                                             *)
InStep ==
  \A s \in Sessions :
    /\ pc[s] \in {"idle", "precheck", "session"} => mutex[s] = "idle"
    /\ pc[s] = "lock" => mutex[s] = "session"
    /\ pc[s] = "wait" => mutex[s] = "waiting"
    /\ InSection(s) \/ pc[s] = "unlock" => mutex[s] = "held"
    /\ pc[s] = "close" => mutex[s] = "released"
    /\ pc[s] \in {"done", "crashed", "torn"} =>
         mutex[s] \in {"idle", "failed", "closed", "crashed"}

ReliedKeysExist ==
  \A s \in Sessions :
    Relies(s) => /\ onLock[s] = Name(s)
                 /\ Name(s) \notin exposed => HasKey(s)

AdapterInv ==
  /\ AdapterTypeOK
  /\ MutexInv
  /\ InStep
  /\ ReliedKeysExist
  /\ CheckStillHolds

(* Up to exposure, from the time its files are written until it is         *)
(* committed a request's directory holds exactly the contents it carries,  *)
(* and what kubectl is given was built from them.                          *)
BuildsOwnFiles ==
  \A s \in Sessions :
    Name(s) \notin exposed =>
      /\ pc[s] \in {"tools", "kubectl", "commit"} =>
           \A f \in Present(Content(s)) : Dir(s)[f] = Content(s)[f]
      /\ pc[s] = "kubectl" => built[s] = Content(s)[Kustomization]

(* With the tools enabled, a kustomization.yaml one of them rejects is     *)
(* never stored, and one that kustomize rejects is not applied either, up  *)
(* to exposure.  (Part of what kubectl rejects may be: see ToolFails.)     *)
RejectedStaysOut ==
  Mode # "none" =>
    \A n \in Names \ exposed :
      kv[n][Kustomization] \notin Refused /\ cluster[n] \notin Rejected

(* Up to exposure, the cluster does not drift from etcd behind everyone's  *)
(* back: where it runs another kustomization.yaml than the stored one,     *)
(* some request of the instance that had its build has not been answered   *)
(* ok, because it is between kubectl and the end of its Commit, was        *)
(* answered an error, or died.                                             *)
DriftIsTold ==
  Mode = "kubectl" =>
    \A n \in Names \ exposed :
      cluster[n] # kv[n][Kustomization] =>
        \E s \in Sessions :
          /\ Name(s) = n
          /\ built[s] # Absent /\ pc[s] # "kubectl" /\ result[s] # "ok"

(* Up to exposure, an Apply that succeeds leaves what it carried in etcd   *)
(* and, with kubectl, in the cluster; a Delete leaves nothing in either.   *)
OkMeansDone ==
  \A s \in Sessions :
    result[s] = "none" /\ result'[s] = "ok" /\ Name(s) \notin exposed' =>
      IF IsApply(s)
        THEN /\ \A f \in Present(Content(s)) : kv'[Name(s)][f] = Content(s)[f]
             /\ Mode = "kubectl" => cluster'[Name(s)] = Content(s)[Kustomization]
        ELSE /\ kv'[Name(s)] = EmptyDir
             /\ Mode = "kubectl" => cluster'[Name(s)] = Absent

OkIsTrue == [][OkMeansDone]_vars

(* Why: each loop begins with all files of the request, and what it has    *)
(* done so far is on disk, or in etcd; nothing is committed that the tools *)
(* were not run on.                                                        *)
LoopsBegin ==
  \A s \in Sessions :
    /\ Content(s)[Kustomization] # Absent
    /\ pc[s] \in {"precheck", "session", "lock", "wait", "exists", "compare",
                  "load", "tools", "kubectl"} => Present(Content(s)) \subseteq todo[s]

WrittenSoFar ==
  \A s \in Sessions :
    pc[s] = "write" /\ Name(s) \notin exposed =>
      \A f \in Present(Content(s)) \ todo[s] : Dir(s)[f] = Content(s)[f]

PutSoFar ==
  \A s \in Sessions :
    pc[s] = "commit" /\ Name(s) \notin exposed =>
      /\ \A f \in Present(Content(s)) \ todo[s] : kv[Name(s)][f] = Content(s)[f]
      /\ Mode = "kubectl" =>
           cluster[Name(s)] = IF IsApply(s) THEN Content(s)[Kustomization] ELSE Absent

PassedTools ==
  Mode # "none" =>
    \A s \in Sessions :
      /\ pc[s] = "kubectl" => built[s] \notin Rejected
      /\ pc[s] = "commit" /\ IsApply(s) /\ Name(s) \notin exposed =>
           Content(s)[Kustomization] \notin Refused

(* Why the cluster's drift is told: a request has a build from its Build   *)
(* on, and keeps it.                                                       *)
BuiltOnce ==
  Mode = "kubectl" =>
    \A s \in Sessions :
      /\ pc[s] \in {"kubectl", "commit"} => built[s] # Absent
      /\ built[s] # Absent => pc[s] \in {"kubectl", "commit", "unlock", "close",
                                        "done", "crashed", "torn"}

FilesInv ==
  /\ LoopsBegin
  /\ WrittenSoFar
  /\ BuildsOwnFiles
  /\ PutSoFar
  /\ PassedTools
  /\ RejectedStaysOut

(* A request comes to its end unless its own tools hang, even if every     *)
(* other request hangs in kubectl holding the lock it waits for, or died   *)
(* with it; and unless its wait is for a storage key, which only its       *)
(* timeout ends.                                                           *)
HungToolsHoldUpNobody ==
  \A s \in Sessions :
    InFlight(s) ~> \/ ~InFlight(s)
                   \/ [](pc[s] \in {"tools", "kubectl"})
                   \/ [](pc[s] = "wait" /\ ahead[s] # {})

-----------------------------------------------------------------------------
(* What comments and documentation say of the program, and the program     *)
(* does not do.                                                            *)

(* etcdUpdater.Commit, etcdDeleter.Commit: "at this point, OldInstance     *)
(* matches if present, we have a lock".                                    *)
OldMatchesAtCommit ==
  \A s \in Sessions :
    Compared(s) /\ pc[s] = "commit" /\ op[s].old # NoOld => Stored(s) = op[s].old.yaml

(* GetSessionAndMutex: "do not allow lock key to collide with a storage    *)
(* key!": a request waits for none.                                        *)
WaitsForRequestsOnly == \A s \in Sessions : pc[s] = "wait" => ahead[s] = {}

(* The README: "With the `etcd` State Store adapter, the server is          *)
(* concurrency safe": two requests whose leases were renewed all along are *)
(* not in the section of one instance together.                            *)
ConcurrencySafe ==
  \A s, t \in Sessions :
    InSection(s) /\ InSection(t) /\ Name(s) = Name(t) /\ kept[s] /\ kept[t] => s = t

(* The README: "the server safely rejects any configs which are rejected   *)
(* by those tools": what an Apply stored can be built from what is stored. *)
StoredBuilds ==
  [][\A s \in Sessions :
       result[s] = "none" /\ result'[s] = "ok" /\ IsApply(s) /\ Name(s) \notin exposed'
       => Builds(kv'[Name(s)], Needs)]_vars
=============================================================================
