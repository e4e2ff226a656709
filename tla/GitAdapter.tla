----------------------------- MODULE GitAdapter -----------------------------
(***************************************************************************)
(* Apply, Delete and Get requests served by replicas of hambone over one   *)
(* git remote (pkg/instances/instances.go, pkg/state/git/git.go gitGetter, *)
(* gitUpdater, gitDeleter).  A replica keeps one clone, whose working tree *)
(* is its instances directory; its requests run git commands in that clone *)
(* one after the other, and each other's in between.  In replicas started  *)
(* with -etcd_locks_with_git_key they first take the lock of that name,    *)
(* the same for every instance; a Get takes none.                          *)
(*                                                                         *)
(* A git command is one step.  It may fail, having done nothing; only of a *)
(* push can the client not know whether it took effect.                    *)
(***************************************************************************)
EXTENDS EtcdMutex, GitTree

CONSTANTS
  Asks,       \* the requests clients send
  Replicas,   \* hambone processes, each with a clone
  Keyings,    \* the keys, or NoLock, the replicas may have been started with
  Mode,       \* "kubectl", "build" (EnableKustomizeBuild only) or "none"
  Needs,      \* Needs[v]: the files that kustomization.yaml v names
  NoOld,      \* the request carries no old_instance
  Starts      \* what the repository may hold at first

Old == [name : Names, yaml : Values]

Requests == [kind : {"apply", "delete", "get"}, name : Names,
             content : Directories, old : Old \cup {NoOld}, at : Replicas]

ASSUME GitAssumption ==
  /\ Asks \subseteq Requests
  /\ \A r \in Asks : r.content[Kustomization] # Absent
  /\ Keyings \subseteq [Replicas -> Locks \cup {NoLock}]
  /\ Mode \in {"kubectl", "build", "none"}
  /\ Needs \in [Values -> SUBSET Files]
  /\ NoOld \notin Old
  /\ Starts \subseteq Snapshots
  /\ \A start \in Starts, n \in Names : start[<<n, Kustomization>>] \notin Rejected
  /\ Committers = Sessions

VARIABLES
  remote,     \* the branch at the remote
  clone,      \* the clone of each replica
  gitKey,     \* the lock each replica was told to take, NoLock if none
  up,         \* the replicas that serve requests
  op,         \* the request
  pc,         \* where its goroutine is
  result,     \* what it will be answered, "none" while open
  got,        \* the kustomization.yaml a Get returns
  sound,      \* history: requests whose pull left the clone as the remote is
  exposed     \* history: requests whose clone another has touched meanwhile

gitVars     == <<remote, clone>>
serverVars  == <<gitKey, up, op>>
historyVars == <<sound, exposed>>
vars        == <<mutexVars, gitVars, serverVars, pc, result, got, historyVars>>

Steps == {"idle", "session", "lock", "wait", "pull", "clean", "compare", "write",
          "tools", "kubectl", "diff", "add", "commit", "push", "rollback", "rm",
          "read", "unlock", "close", "done", "crashed"}

Results == {"none", "ok", "mismatch", "absent", "dirty", "differs", "failed"}

GitTypeOK ==
  /\ remote \in Commits
  /\ clone \in [Replicas -> Clones]
  /\ gitKey \in [Replicas -> Locks \cup {NoLock}]
  /\ up \subseteq Replicas
  /\ op \in [Sessions -> Requests]
  /\ pc \in [Sessions -> Steps]
  /\ result \in [Sessions -> Results]
  /\ got \in [Sessions -> Contents]
  /\ sound \subseteq Sessions
  /\ exposed \subseteq Sessions

GitInit ==
  /\ MutexInit
  /\ \E start \in Starts : remote = [past |-> {}, files |-> start]
  /\ clone = [h \in Replicas |-> Fresh(remote)]
  /\ gitKey \in Keyings
  /\ up = Replicas
  /\ op \in [Sessions -> Asks]
  /\ pc = [s \in Sessions |-> "idle"]
  /\ result = [s \in Sessions |-> "none"]
  /\ got = [s \in Sessions |-> Absent]
  /\ sound = {}
  /\ exposed = {}

-----------------------------------------------------------------------------
Name(s)    == op[s].name
Content(s) == op[s].content
Is(s, kind) == op[s].kind = kind
Clone(s)   == clone[op[s].at]
Key(s)     == gitKey[op[s].at]
Locking(s) == Key(s) # NoLock /\ ~Is(s, "get")
File(s)    == <<Name(s), Kustomization>>

InSection(s) == pc[s] \in {"clean", "compare", "write", "tools", "kubectl", "diff",
                           "add", "commit", "push", "rollback", "rm"}
InFlight(s)  == pc[s] \notin {"idle", "done", "crashed"}

(* The other requests at work in the clone of s. *)
Beside(s) == {t \in Sessions \ {s} : InSection(t) /\ op[t].at = op[s].at}

Goto(s, step)  == pc' = [pc EXCEPT ![s] = step]
Becomes(s, c)  == clone' = [clone EXCEPT ![op[s].at] = c]
Return(s, r)   == Goto(s, "done") /\ result' = [result EXCEPT ![s] = r]

(* RunCleanupFuncs, if there are any. *)
Leave(s, r) ==
  /\ Goto(s, IF Locking(s) THEN "unlock" ELSE "done")
  /\ result' = [result EXCEPT ![s] = r]

AfterTools(s)   == IF Is(s, "apply") THEN "diff" ELSE "rm"
AfterCompare(s) == IF Is(s, "apply") THEN "write"
                   ELSE IF Mode = "kubectl" THEN "tools" ELSE "rm"
AfterClean(s)   == IF op[s].old # NoOld THEN "compare" ELSE AfterCompare(s)

-----------------------------------------------------------------------------
NamesEquate(s) == op[s].old # NoOld => op[s].old.name = Name(s)

Begin(s) ==
  /\ pc[s] = "idle"
  /\ op[s].at \in up
  /\ IF Is(s, "get") \/ NamesEquate(s)
       THEN Goto(s, IF Locking(s) THEN "session" ELSE "pull") /\ UNCHANGED result
       ELSE Return(s, "mismatch")
  /\ UNCHANGED <<mutexVars, gitVars, serverVars, got, historyVars>>

(* GetSessionAndMutex, as in the etcd adapter. *)
OpenSession(s) ==
  /\ pc[s] = "session"
  /\ \/ NewSession(s) /\ Goto(s, "lock") /\ UNCHANGED result
     \/ NewSessionFails(s) /\ Return(s, "failed")
  /\ UNCHANGED <<gitVars, serverVars, got, historyVars>>

Lock(s) ==
  /\ pc[s] = "lock"
  /\ \/ /\ LockTxn(s, Key(s), {})
        /\ Goto(s, IF Keyed(Key(s)) = {} THEN "pull" ELSE "wait")
        /\ UNCHANGED result
     \/ LockTxnFails(s, Key(s)) /\ Return(s, "failed")
  /\ UNCHANGED <<gitVars, serverVars, got, historyVars>>

Wait(s) ==
  /\ pc[s] = "wait"
  /\ \/ WaitDone(s) /\ Goto(s, "pull") /\ UNCHANGED result
     \/ WaitFails(s) /\ Return(s, "failed")
  /\ UNCHANGED <<gitVars, serverVars, got, historyVars>>

(* gitPull.  An Apply or a Delete enters its section here; the history     *)
(* notes who shares the clone with whom, and whose clone a pull changed.   *)
Pull(s) ==
  /\ pc[s] = "pull"
  /\ \E out \in Pulls(Clone(s), remote) :
       /\ Becomes(s, out.clone)
       /\ IF out.ok
            THEN /\ Goto(s, IF Is(s, "get") THEN "read" ELSE "clean")
                 /\ UNCHANGED result
            ELSE Leave(s, "failed")
       /\ sound' = IF /\ out.ok
                      /\ ~Ahead(out.clone, remote)
                      /\ out.clone.index = out.clone.head.files
                     THEN sound \cup {s} ELSE sound
       /\ exposed' = exposed
            \cup (IF out.clone # Clone(s) \/ ~Is(s, "get") THEN Beside(s) ELSE {})
            \cup (IF Beside(s) # {} /\ ~Is(s, "get") THEN {s} ELSE {})
  /\ UNCHANGED <<mutexVars, remote, serverVars, got>>

-----------------------------------------------------------------------------
(* A Delete needs the kustomization.yaml; then ensureCleanFile: nothing    *)
(* modified, then nothing untracked, in the instance's directory.          *)
EnsureClean(s) ==
  /\ pc[s] = "clean"
  /\ IF Is(s, "delete") /\ Clone(s).tree[File(s)] = Absent THEN Leave(s, "absent")
     ELSE IF Modified(Clone(s), Name(s)) \/ Untracked(Clone(s), Name(s))
       THEN Leave(s, "dirty")
     ELSE Goto(s, AfterClean(s)) /\ UNCHANGED result
  /\ UNCHANGED <<mutexVars, gitVars, serverVars, got, historyVars>>

(* old_instance is compared with the working tree. *)
Compare(s) ==
  /\ pc[s] = "compare"
  /\ LET yaml == Clone(s).tree[File(s)]
     IN  \/ yaml = Absent /\ Leave(s, "absent")
         \/ yaml = op[s].old.yaml /\ Goto(s, AfterCompare(s)) /\ UNCHANGED result
         \/ yaml \notin {Absent, op[s].old.yaml} /\ Leave(s, "differs")
  /\ UNCHANGED <<mutexVars, gitVars, serverVars, got, historyVars>>

(* The diff fails for another reason, which is taken for changes, or a     *)
(* file cannot be read.                                                    *)
ReadFails(s) ==
  /\ pc[s] \in {"clean", "compare", "read"}
  /\ Leave(s, IF pc[s] = "clean" THEN "dirty" ELSE "failed")
  /\ UNCHANGED <<mutexVars, gitVars, serverVars, got, historyVars>>

(* The clone with the files F of the request written into the instance's   *)
(* directory.                                                              *)
WithFiles(s, F) ==
  [Clone(s) EXCEPT !.tree =
     [p \in Paths |-> IF p[1] = Name(s) /\ p[2] \in F THEN Content(s)[p[2]] ELSE @[p]]]

Write(s) ==
  /\ pc[s] = "write"
  /\ Becomes(s, WithFiles(s, Present(Content(s))))
  /\ Goto(s, IF Mode = "none" THEN "diff" ELSE "tools")
  /\ UNCHANGED <<mutexVars, remote, serverVars, result, got, historyVars>>

(* Some files have been written, the kustomization.yaml first, and the one *)
(* at which it fails may be cut short.                                     *)
WriteFails(s) ==
  /\ pc[s] = "write"
  /\ \E F \in SUBSET Present(Content(s)) :
       LET left == Present(Content(s)) \ F
       IN  /\ F # {} => Kustomization \in F
           /\ \/ Becomes(s, WithFiles(s, F))
              \/ \E f \in IF F = {} THEN {Kustomization} ELSE left :
                   Becomes(s, [WithFiles(s, F) EXCEPT !.tree[<<Name(s), f>>] = Mangled])
  /\ Leave(s, "failed")
  /\ UNCHANGED <<mutexVars, remote, serverVars, got, historyVars>>

(* kustomize build, and, in a process of its own, kubectl.  What kubectl   *)
(* does to the cluster is the same as with the etcd adapter and left out;  *)
(* whether it accepts what was built is left open.                         *)
Build(s) ==
  /\ pc[s] = "tools"
  /\ Builds(DirOf(Clone(s).tree, Name(s)), Needs)
  /\ Goto(s, IF Mode = "kubectl" THEN "kubectl" ELSE AfterTools(s))
  /\ UNCHANGED <<mutexVars, gitVars, serverVars, result, got, historyVars>>

Kubectl(s) ==
  /\ pc[s] = "kubectl"
  /\ Goto(s, AfterTools(s))
  /\ UNCHANGED <<mutexVars, gitVars, serverVars, result, got, historyVars>>

(* Cancel: the updater hands the error on, the deleter drops it, and the   *)
(* Delete is answered without an error.  Neither touches the clone.        *)
ToolFails(s) ==
  /\ pc[s] \in {"tools", "kubectl"}
  /\ Leave(s, IF Is(s, "apply") THEN "failed" ELSE "ok")
  /\ UNCHANGED <<mutexVars, gitVars, serverVars, got, historyVars>>

-----------------------------------------------------------------------------
(* gitUpdater.Commit: is there anything to commit?  A diff that fails says *)
(* so, too.                                                                *)
Diff(s) ==
  /\ pc[s] = "diff"
  /\ \/ Goto(s, "add") /\ UNCHANGED result
     \/ ~Changed(Clone(s)) /\ Leave(s, "ok")
  /\ UNCHANGED <<mutexVars, gitVars, serverVars, got, historyVars>>

AddDir(s) ==
  /\ pc[s] = "add"
  /\ Becomes(s, Add(Clone(s), Name(s)))
  /\ Goto(s, "commit")
  /\ UNCHANGED <<mutexVars, remote, serverVars, result, got, historyVars>>

CommitIndex(s) ==
  /\ pc[s] = "commit"
  /\ CanCommit(Clone(s))
  /\ Becomes(s, Commit(Clone(s), s))
  /\ Goto(s, "push")
  /\ UNCHANGED <<mutexVars, remote, serverVars, result, got, historyVars>>

Push(s) ==
  /\ pc[s] = "push"
  /\ CanPush(Clone(s), remote)
  /\ remote' = Clone(s).head
  /\ Becomes(s, Pushed(Clone(s)))
  /\ Leave(s, "ok")
  /\ UNCHANGED <<mutexVars, serverVars, got, historyVars>>

(* Faulty form: the error of the push is shadowed and lost. *)
CommandFails_Shadowed(s) ==
  /\ pc[s] \in {"add", "commit", "push", "rm"}
  /\ Leave(s, IF pc[s] = "push" THEN "ok" ELSE "failed")
  /\ UNCHANGED <<mutexVars, gitVars, serverVars, got, historyVars>>

(* rollbackCommand: an Apply whose add, commit or push fails rolls back; a *)
(* Delete just returns.                                                    *)
CommandFails(s) ==
  /\ pc[s] \in {"add", "commit", "push", "rm"}
  /\ IF Is(s, "apply") THEN Goto(s, "rollback") /\ UNCHANGED result
                       ELSE Leave(s, "failed")
  /\ \/ UNCHANGED gitVars
     \/ /\ pc[s] = "push" /\ CanPush(Clone(s), remote)
        /\ remote' = Clone(s).head
        /\ Becomes(s, Pushed(Clone(s)))
  /\ UNCHANGED <<mutexVars, serverVars, got, historyVars>>

(* rollback: an untracked directory goes; of a tracked one only the        *)
(* kustomization.yaml is put back, or taken away if it is not tracked; any *)
(* of its commands may fail and end it there.                              *)
Rollback(s) ==
  /\ pc[s] = "rollback"
  /\ LET c     == Clone(s)
         reset == ResetFile(c, File(s))
     IN  \/ Becomes(s, c)
         \/ /\ File(s) \notin Tracked(c)
            /\ Becomes(s, Unlink(c, IF Of(Name(s)) \cap Tracked(c) = {}
                                      THEN Of(Name(s)) ELSE {File(s)}))
         \/ File(s) \in Tracked(c) /\ Becomes(s, reset)
         \/ /\ File(s) \in Tracked(c) /\ CanCheckout(reset, File(s))
            /\ Becomes(s, Checkout(reset, File(s)))
  /\ Leave(s, "failed")
  /\ UNCHANGED <<mutexVars, remote, serverVars, got, historyVars>>

(* gitDeleter.Commit: git rm, then commit and push. *)
RmDir(s) ==
  /\ pc[s] = "rm"
  /\ Of(Name(s)) \cap Tracked(Clone(s)) # {}
  /\ Becomes(s, Rm(Clone(s), Name(s)))
  /\ Goto(s, "commit")
  /\ UNCHANGED <<mutexVars, remote, serverVars, result, got, historyVars>>

(* gitGetter.Run, of the working tree as it is.  A directory without a     *)
(* kustomization.yaml is an error; no directory is not: the list is empty. *)
(* Where there are no files there may or may not be a directory.           *)
Read(s) ==
  LET dir == DirOf(Clone(s).tree, Name(s))
  IN  /\ pc[s] = "read"
      /\ got' = [got EXCEPT ![s] = Clone(s).tree[File(s)]]
      /\ \/ (got'[s] # Absent \/ dir = EmptyDir) /\ Return(s, "ok")
         \/ got'[s] = Absent /\ Return(s, "absent")
      /\ UNCHANGED <<mutexVars, gitVars, serverVars, historyVars>>

Release(s) ==
  /\ pc[s] = "unlock"
  /\ Unlock(s)
  /\ Goto(s, "close")
  /\ UNCHANGED <<gitVars, serverVars, result, got, historyVars>>

Close(s) ==
  /\ pc[s] = "close"
  /\ CloseSession(s)
  /\ Goto(s, "done")
  /\ UNCHANGED <<gitVars, serverVars, result, got, historyVars>>

-----------------------------------------------------------------------------
LeaseStep(s) ==
  /\ LoseKeepAlive(s) \/ Expire(s)
  /\ UNCHANGED <<gitVars, serverVars, pc, result, got, historyVars>>

(* A replica dies with its requests; its clone stays. *)
Crash(h) ==
  LET dying == {s \in Sessions : InFlight(s) /\ op[s].at = h}
  IN  /\ h \in up
      /\ up' = up \ {h}
      /\ pc' = [s \in Sessions |-> IF s \in dying THEN "crashed" ELSE pc[s]]
      /\ CrashSessions(dying)
      /\ UNCHANGED <<gitVars, gitKey, op, result, got, historyVars>>

(* Engine.Init: check out the branch, which conflicts in the index forbid, *)
(* and pull; the server starts only if both succeed.                       *)
Restart(h) ==
  /\ h \notin up
  /\ clone[h].unmerged = {}
  /\ \E out \in Pulls(clone[h], remote) :
       /\ clone' = [clone EXCEPT ![h] = out.clone]
       /\ up' = IF out.ok THEN up \cup {h} ELSE up
  /\ UNCHANGED <<mutexVars, remote, gitKey, op, pc, result, got, historyVars>>

-----------------------------------------------------------------------------
RequestStep(s) ==
  \/ Begin(s) \/ OpenSession(s) \/ Lock(s) \/ Wait(s) \/ Pull(s)
  \/ EnsureClean(s) \/ Compare(s) \/ ReadFails(s)
  \/ Write(s) \/ WriteFails(s) \/ Build(s) \/ Kubectl(s) \/ ToolFails(s)
  \/ Diff(s) \/ AddDir(s) \/ CommitIndex(s) \/ Push(s)
  \/ RmDir(s) \/ CommandFails(s) \/ Rollback(s) \/ Read(s)
  \/ Release(s) \/ Close(s)

GitNext ==
  \/ \E s \in Sessions : RequestStep(s) \/ LeaseStep(s)
  \/ \E h \in Replicas : Crash(h) \/ Restart(h)

GitSpec == GitInit /\ [][GitNext]_vars

(* What must happen: git's local commands, the disk and the calls to etcd  *)
(* return; watches fire, the session's 30 s run out, and so do leases.  A  *)
(* pull, a push and the tools have no timeout and may hang.                *)
Hangs(s) == pc[s] \in {"pull", "tools", "kubectl", "push"}

GitFairness ==
  \A s \in Sessions :
    /\ WF_vars(RequestStep(s) /\ pc[s] \notin {"idle", "wait"} /\ ~Hangs(s))
    /\ WF_vars(Wait(s) /\ result' = result)
    /\ WF_vars(LeaseStep(s))

FairGitSpec == GitSpec /\ GitFairness

-----------------------------------------------------------------------------
(* Requests that took one lock, and whose lock keys are still in etcd, are *)
(* in their sections one at a time, whatever their instances and whichever *)
(* replicas serve them.                                                    *)
LockedSections ==
  \A s, t \in Sessions :
    /\ InSection(s) /\ Locking(s) /\ HasKey(s)
    /\ InSection(t) /\ Locking(t) /\ HasKey(t)
    /\ Key(s) = Key(t)
    => s = t

(* As long as no two requests were at work in one clone, what kustomize    *)
(* rejects is in no commit: neither the one that carried it, nor a later   *)
(* one of another request on the same clone, commits it.                   *)
RejectedStaysOut ==
  Mode # "none" /\ exposed = {} =>
    \A n \in Names :
      /\ remote.files[<<n, Kustomization>>] \notin Rejected
      /\ \A h \in Replicas : clone[h].head.files[<<n, Kustomization>>] \notin Rejected

Alone(s) == s \in sound /\ s \notin exposed

(* Why the push of such a request can replace nothing but what it has      *)
(* looked at: as long as the remote would take it, the remote holds what   *)
(* the clone last had in common with it; the clone differs from that only  *)
(* in the request's own instance, whose old_instance is there.             *)
LevelClones ==
  \A s \in Sessions :
    InSection(s) /\ Alone(s) =>
      LET c == Clone(s)
      IN  /\ c.theirs = NoMerge /\ c.unmerged = {}
          /\ CanPush(c, remote) => remote.files = c.base
          /\ \A p \in Paths \ Of(Name(s)) :
               c.index[p] = c.base[p] /\ c.head.files[p] = c.base[p]
          /\ pc[s] \in {"clean", "compare", "write", "tools", "kubectl", "diff", "rm"} =>
               c.index = c.base /\ c.head.files = c.base
          /\ pc[s] \notin {"clean", "compare", "rollback"} /\ op[s].old # NoOld =>
               c.base[File(s)] = op[s].old.yaml

(* What is under way in such a clone: a Delete is of an instance that is   *)
(* there, and what is asked for is in the tree, then in the index, then in *)
(* the last commit.  Until then the remote has all commits of the clone.   *)
OwnChange ==
  \A s \in Sessions :
    InSection(s) /\ Alone(s) =>
      LET c == Clone(s)
          Asked(snap) == \A f \in Present(Content(s)) : snap[<<Name(s), f>>] = Content(s)[f]
          Gone(snap)  == \A p \in Of(Name(s)) : snap[p] = Absent
      IN  /\ pc[s] \notin {"push", "rollback"} => c.head.past \subseteq remote.past
          /\ pc[s] = "compare" => c.tree[File(s)] = c.base[File(s)]
          /\ Is(s, "delete") /\ pc[s] # "clean" => c.base[File(s)] # Absent
          /\ Is(s, "apply") =>
               /\ pc[s] \in {"tools", "kubectl", "diff", "add"} => Asked(c.tree)
               /\ pc[s] = "commit" => Asked(c.index)
               /\ pc[s] = "push" => Asked(c.head.files)
          /\ Is(s, "delete") =>
               /\ pc[s] = "commit" => Gone(c.index)
               /\ pc[s] = "push" => Gone(c.head.files)

(* Two requests at work in one clone are both exposed.                     *)
SharersAreExposed ==
  \A s, t \in Sessions :
    InSection(s) /\ InSection(t) /\ op[s].at = op[t].at /\ s # t => s \in exposed

(* A request under way has a replica that serves it, has no answer yet and *)
(* is where its kind has business; under the lock, its mutex is held.      *)
InPlace ==
  \A s \in Sessions :
    /\ InFlight(s) => op[s].at \in up
    /\ pc[s] \notin {"unlock", "close", "done", "crashed"} => result[s] = "none"
    /\ pc[s] \in {"idle", "session", "lock", "wait", "pull"} => s \notin sound
    /\ InSection(s) => ~Is(s, "get")
    /\ pc[s] \in {"write", "diff", "add", "rollback"} => Is(s, "apply")
    /\ pc[s] = "rm" => Is(s, "delete")
    /\ pc[s] = "read" => Is(s, "get")
    /\ pc[s] \in {"session", "lock"} => Locking(s)
    /\ Locking(s) /\ (InSection(s) \/ pc[s] \in {"wait", "pull"}) => onLock[s] = Key(s)
    /\ Locking(s) /\ (InSection(s) \/ pc[s] = "pull") => mutex[s] = "held"

(* Where a request is that may have committed. *)
HasCommitted(s) == pc[s] \in {"push", "rollback", "unlock", "close", "done", "crashed"}

(* Two clones share no commit that the remote does not have, and what lies *)
(* in the past of a commit tells what it holds.                            *)
PastTellsFiles ==
  /\ \A s \in remote.past : HasCommitted(s)
  /\ \A s \in Sessions : pc[s] = "push" => s \in Clone(s).head.past
  /\ \A h \in Replicas :
       LET c == clone[h]
       IN  /\ \A s \in c.head.past :
                HasCommitted(s) /\ (result[s] = "ok" => s \in remote.past)
           /\ \A i \in Replicas \ {h} :
                c.head.past \cap clone[i].head.past \subseteq remote.past
           /\ c.theirs # NoMerge => c.theirs.past \subseteq remote.past
           /\ c.theirs = NoMerge => c.unmerged = {}
           /\ c.head.past \subseteq remote.past => c.base = c.head.files
           /\ c.head.past = remote.past => c.head.files = remote.files

(* Why no commit holds what the tools reject: no index does, and the tree  *)
(* does not when the instance's directory is added to the index.           *)
IndexesAreAccepted ==
  Mode # "none" /\ exposed = {} =>
    /\ \A h \in Replicas, n \in Names :
         clone[h].index[<<n, Kustomization>>] \notin Rejected
    /\ \A s \in Sessions :
         pc[s] \in {"kubectl", "diff", "add"} => Clone(s).tree[File(s)] \notin Rejected

(* s has not written, or has removed, anything in its clone, or what it    *)
(* has is pushed.                                                          *)
LeftNoTrace(s) ==
  \/ pc[s] \in {"idle", "session", "lock", "wait", "pull", "clean", "compare", "write"}
  \/ result[s] \in {"mismatch", "absent", "dirty", "differs"}
  \/ s \in remote.past /\ result[s] = "ok"

NoTrace(n, h) ==
  \A s \in Sessions : Name(s) = n /\ op[s].at = h /\ ~Is(s, "get") => LeftNoTrace(s)

(* An instance that nobody has left a trace of is in the tree and in the   *)
(* index as it was committed; a change of it reaches both, and then the    *)
(* last commit.                                                            *)
TreesAreCommitted ==
  exposed = {} =>
    /\ \A h \in Replicas, n \in Names :
         clone[h].theirs = NoMerge /\ NoTrace(n, h) =>
           LET p == <<n, Kustomization>>
           IN  clone[h].index[p] = clone[h].tree[p] /\ clone[h].tree[p] = clone[h].head.files[p]
    /\ \A s \in Sessions :
         InSection(s) =>
           LET c == Clone(s)
           IN  /\ c.theirs = NoMerge
               /\ Is(s, "delete") /\ pc[s] \in {"compare", "tools", "kubectl", "rm"} =>
                    File(s) \in Tracked(c)
               /\ pc[s] \in {"commit", "push"} => c.index[File(s)] = c.tree[File(s)]
               /\ pc[s] = "push" => c.tree[File(s)] = c.head.files[File(s)]

GitInv ==
  /\ GitTypeOK
  /\ MutexInv
  /\ InPlace
  /\ SharersAreExposed
  /\ PastTellsFiles
  /\ LevelClones
  /\ OwnChange
  /\ RejectedStaysOut
  /\ IndexesAreAccepted
  /\ TreesAreCommitted

(* What the lock is for: requests that take it expose each other only once *)
(* one of them has lost its key.  But a Get takes none, and its pull can.  *)
LockKeepsAlone ==
  [][\A s \in exposed' \ exposed :
       Locking(s) =>
         \E t \in Sessions \ {s} :
           /\ op[t].at = op[s].at
           /\ \/ Is(t, "get") /\ pc[t] = "pull" /\ pc'[t] # "pull"
              \/ (InSection(t) \/ pc[t] = "pull") /\ ~(HasKey(s) /\ HasKey(t))]_vars

(* s, alone in a clone that was level with the remote, is told it          *)
(* succeeded: what it asked of files git tracks is in the last commit, and *)
(* the remote has that commit.  (A Delete whose tools failed is told so    *)
(* too, see ToolFails, and nothing of this holds for it.)                  *)
OkIsPushed ==
  [][\A s \in Sessions :
       result[s] = "none" /\ result'[s] = "ok" /\ pc[s] \in {"diff", "push"} /\ Alone(s) =>
         LET c == clone'[op[s].at]
         IN  /\ c.head.past \subseteq remote'.past
             /\ IF Is(s, "apply")
                  THEN \A f \in Present(Content(s)) :
                         <<Name(s), f>> \in Tracked(c) =>
                           c.head.files[<<Name(s), f>>] = Content(s)[f]
                  ELSE \A p \in Of(Name(s)) : c.head.files[p] = Absent]_vars

(* The step in which the push of s moves the remote. *)
Pushes(s) == pc[s] = "push" /\ pc'[s] # "push" /\ remote' # remote

(* Such a request's push is a compare-and-set of its own instance, with or *)
(* without the lock: at the remote it replaces the old_instance the client *)
(* named, deletes what is there, and touches no other instance, whatever   *)
(* earlier requests have left in the clone.                                *)
ReplacesOwn ==
  [][\A s \in Sessions :
       Pushes(s) /\ Alone(s) =>
         /\ op[s].old # NoOld => remote.files[File(s)] = op[s].old.yaml
         /\ Is(s, "delete") => remote.files[File(s)] # Absent
         /\ \A p \in Paths \ Of(Name(s)) : remote'.files[p] = remote.files[p]]_vars

(* What a Get returns is what the last commit of its clone holds, unless a *)
(* request of that instance on the same replica is under way or has failed *)
(* there, or the clone is in the middle of a merge.                        *)
GetsWhatIsCommitted ==
  [][\A s \in Sessions :
       /\ pc[s] = "read" /\ result'[s] \in {"ok", "absent"}
       /\ exposed = {} /\ Clone(s).theirs = NoMerge
       /\ NoTrace(Name(s), op[s].at)
       => got'[s] = Clone(s).head.files[File(s)]]_vars

(* A request comes to its end unless its own pull, push or tools hang,     *)
(* even if every other request hangs in them holding the one lock there    *)
(* is, or died with it.                                                    *)
HangsHoldUpNobody ==
  \A s \in Sessions : InFlight(s) ~> (~InFlight(s) \/ [](Hangs(s)))

-----------------------------------------------------------------------------
(* What comments and documentation say of the program, and the program     *)
(* does not do.                                                            *)

(* gitUpdater.Commit: "Commit is expected to add/update the Instance in    *)
(* the state store".                                                       *)
AppliedIsStored ==
  [][\A s \in Sessions :
       result[s] = "none" /\ result'[s] = "ok" /\ Is(s, "apply") =>
         remote'.files[File(s)] = Content(s)[Kustomization]]_vars

(* Server.Apply: "commits the changes, rolling back as necessary": what a  *)
(* client was told has failed does not come into the repository later,     *)
(* with the push of another request.                                       *)
FailedStaysOut ==
  [][\A s, t \in Sessions :
       Pushes(t) /\ result[s] = "failed" /\ s \in remote'.past => s \in remote.past]_vars
=============================================================================
