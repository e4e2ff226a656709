--------------------------- MODULE GitAdapterProofs ---------------------------
(***************************************************************************)
(* Proofs about requests over clones of one remote, for any requests,      *)
(* instances, replicas, files, contents and locks.                         *)
(***************************************************************************)
EXTENDS GitAdapter, GitTreeProofs, EtcdMutexProofs

-----------------------------------------------------------------------------
(* Types. *)

(* A request names an instance, carries files and sits on a replica. *)
LEMMA RequestTypes ==
  ASSUME GitTypeOK, NEW s \in Sessions
  PROVE  /\ op[s] \in Requests
         /\ Name(s) \in Names
         /\ op[s].at \in Replicas
         /\ op[s].kind \in {"apply", "delete", "get"}
         /\ Content(s) \in Directories
         /\ Present(Content(s)) \subseteq AllFiles
         /\ Clone(s) \in Clones
         /\ File(s) \in Of(Name(s))
         /\ File(s) \in Paths
         /\ s \in Committers
         /\ Key(s) \in Locks \cup {NoLock}
<1>1. op[s] \in Requests
  BY DEF GitTypeOK
<1>2. /\ Name(s) \in Names
      /\ op[s].at \in Replicas
      /\ op[s].kind \in {"apply", "delete", "get"}
      /\ Content(s) \in Directories
  BY <1>1 DEF Requests, Name, Content
<1>3. Clone(s) \in Clones /\ Key(s) \in Locks \cup {NoLock}
  BY <1>2 DEF GitTypeOK, Clone, Key
<1>4. File(s) \in Of(Name(s)) /\ File(s) \in Paths
  BY <1>2, PathsOfNames DEF File
<1> QED
  BY <1>1, <1>2, <1>3, <1>4, GitAssumption DEF Present

(* Writing the files F of a request. *)
LEMMA WrittenEffect ==
  ASSUME GitTypeOK, NEW s \in Sessions, NEW F \in SUBSET AllFiles
  PROVE  /\ WithFiles(s, F) \in Clones
         /\ SameCommits(Clone(s), WithFiles(s, F))
         /\ WithFiles(s, F).index = Clone(s).index
         /\ WithFiles(s, F).unmerged = Clone(s).unmerged
         /\ \A p \in Paths : p \notin Of(Name(s)) => WithFiles(s, F).tree[p] = Clone(s).tree[p]
         /\ \A f \in F : WithFiles(s, F).tree[<<Name(s), f>>] = Content(s)[f]
<1> DEFINE tree == [p \in Paths |-> IF p[1] = Name(s) /\ p[2] \in F
                                      THEN Content(s)[p[2]] ELSE Clone(s).tree[p]]
<1>1. WithFiles(s, F) = [Clone(s) EXCEPT !.tree = tree]
  BY RequestTypes DEF WithFiles, Clones
<1>2. \A f \in AllFiles : Content(s)[f] \in Contents
  BY RequestTypes DEF Directories
<1>3. Clone(s) \in Clones /\ Clone(s).tree \in Snapshots
  BY RequestTypes, CloneFields
<1>4. tree \in Snapshots
  <2>1. \A p \in Paths : tree[p] \in Contents
    BY <1>2, <1>3 DEF Snapshots
  <2> QED
    BY <2>1 DEF Snapshots
<1>5. ASSUME NEW p \in Paths, p \notin Of(Name(s)) PROVE tree[p] = Clone(s).tree[p]
  <2>1. p[1] # Name(s)
    BY <1>5 DEF Paths, Of
  <2> QED
    BY <2>1
<1>6. ASSUME NEW f \in F PROVE tree[<<Name(s), f>>] = Content(s)[f]
  <2>1. <<Name(s), f>> \in Paths
    BY RequestTypes, PathsOfNames
  <2> QED
    BY <2>1
<1> HIDE DEF tree
<1> QED
  BY <1>1, <1>3, <1>4, <1>5, <1>6 DEF Clones, SameCommits

(* ... and cutting one of them short. *)
LEMMA MangledEffect ==
  ASSUME NEW c \in Clones, NEW n \in Names, NEW f \in AllFiles
  PROVE  LET d == [c EXCEPT !.tree[<<n, f>>] = Mangled]
         IN  /\ d \in Clones
             /\ SameCommits(c, d)
             /\ d.index = c.index
             /\ d.unmerged = c.unmerged
             /\ \A p \in Paths : p \notin Of(n) => d.tree[p] = c.tree[p]
<1> DEFINE tree == [c.tree EXCEPT ![<<n, f>>] = Mangled]
<1>1. <<n, f>> \in Of(n) /\ <<n, f>> \in Paths
  BY PathsOfNames
<1>2. tree \in Snapshots /\ \A p \in Paths : p # <<n, f>> => tree[p] = c.tree[p]
  BY <1>1, CloneFields, ContentTypes DEF Snapshots
<1>3. [c EXCEPT !.tree[<<n, f>>] = Mangled] = [c EXCEPT !.tree = tree]
  BY DEF Clones
<1> HIDE DEF tree
<1> QED
  BY <1>1, <1>2, <1>3 DEF Clones, SameCommits

-----------------------------------------------------------------------------
(* What a step of a request does to clones and remote. *)

(* The clone of s when it becomes c. *)
LEMMA BecomesEffect ==
  ASSUME GitTypeOK, NEW s \in Sessions, NEW c \in Clones, Becomes(s, c)
  PROVE  /\ clone' \in [Replicas -> Clones]
         /\ clone'[op[s].at] = c
         /\ \A h \in Replicas \ {op[s].at} : clone'[h] = clone[h]
  BY RequestTypes DEF Becomes, GitTypeOK

(* s makes d of its clone by a local command: no commit comes or goes. *)
WorksOn(s, d) ==
  /\ remote' = remote
  /\ SameCommits(Clone(s), d)
  /\ d.unmerged \subseteq Clone(s).unmerged
  /\ pc'[s] # "push" \/ pc[s] = "push"

(* git pull brings something in, or stops. *)
PullsInto(s, d) ==
  /\ pc[s] = "pull" /\ pc'[s] \in {"clean", "read", "unlock", "done"}
  /\ remote' = remote
  /\ Clone(s).theirs = NoMerge /\ Clone(s).unmerged = {}
  /\ d = Merged(Clone(s), remote) \/ d = Stopped(Clone(s), remote)

CommitsTo(s, d) ==
  /\ pc[s] = "commit" /\ pc'[s] = "push"
  /\ remote' = remote
  /\ CanCommit(Clone(s))
  /\ d = Commit(Clone(s), s)

PushesOut(s, d) ==
  /\ pc[s] = "push" /\ pc'[s] \in {"rollback", "unlock", "done"}
  /\ CanPush(Clone(s), remote)
  /\ remote' = Clone(s).head
  /\ d = Pushed(Clone(s))

(* Any step of a request: the clones of other replicas stay as they are,   *)
(* and its own is worked on, pulled into, committed to or pushed from.     *)
LEMMA RequestOnClones ==
  ASSUME GitTypeOK, NEW s \in Sessions, RequestStep(s)
  PROVE  LET d == clone'[op[s].at]
         IN  /\ clone' \in [Replicas -> Clones]
             /\ remote' \in Commits
             /\ \A h \in Replicas \ {op[s].at} : clone'[h] = clone[h]
             /\ WorksOn(s, d) \/ PullsInto(s, d) \/ CommitsTo(s, d) \/ PushesOut(s, d)
<1> USE DEF Goto, Return, Leave
<1> DEFINE d == clone'[op[s].at]
           Goal == /\ clone' \in [Replicas -> Clones]
                   /\ remote' \in Commits
                   /\ \A h \in Replicas \ {op[s].at} : clone'[h] = clone[h]
                   /\ WorksOn(s, d) \/ PullsInto(s, d) \/ CommitsTo(s, d) \/ PushesOut(s, d)
<1>0. /\ Clone(s) \in Clones /\ Clone(s) = clone[op[s].at] /\ remote \in Commits
      /\ op[s].at \in Replicas /\ Name(s) \in Names /\ File(s) \in Paths /\ s \in Committers
      /\ pc \in [Sessions -> Steps] /\ Clone(s).head \in Commits
  BY RequestTypes, CloneFields DEF GitTypeOK, Clone
<1>1. ASSUME NEW c \in Clones, Becomes(s, c), remote' = remote,
             SameCommits(Clone(s), c), c.unmerged \subseteq Clone(s).unmerged,
             pc'[s] # "push" \/ pc[s] = "push"
      PROVE  Goal
  BY <1>0, <1>1, BecomesEffect DEF WorksOn
<1>2. ASSUME UNCHANGED gitVars, pc'[s] # "push" \/ pc[s] = "push" PROVE Goal
  BY <1>0, <1>2 DEF WorksOn, SameCommits, gitVars, GitTypeOK
<1>3. CASE \/ Begin(s) \/ OpenSession(s) \/ Lock(s) \/ Wait(s)
           \/ EnsureClean(s) \/ Compare(s) \/ ReadFails(s)
           \/ Build(s) \/ Kubectl(s) \/ ToolFails(s) \/ Diff(s) \/ Read(s)
           \/ Release(s) \/ Close(s)
  <2>1. UNCHANGED gitVars
    BY <1>3 DEF Begin, OpenSession, Lock, Wait, EnsureClean, Compare, ReadFails, Build,
       Kubectl, ToolFails, Diff, Read, Release, Close
  <2>2. pc'[s] # "push"
    BY <1>0, <1>3 DEF Begin, OpenSession, Lock, Wait, EnsureClean, Compare, ReadFails, Build,
       Kubectl, ToolFails, Diff, Read, Release, Close, AfterTools, AfterCompare, AfterClean
  <2> QED
    BY <1>2, <2>1, <2>2
<1>4. CASE Pull(s)
  <2>1. PICK out \in Pulls(Clone(s), remote) :
          /\ Becomes(s, out.clone)
          /\ pc'[s] \in {"clean", "read", "unlock", "done"}
    BY <1>0, <1>4 DEF Pull
  <2>2. pc[s] = "pull" /\ remote' = remote
    BY <1>4 DEF Pull
  <2>3. out.clone \in Clones
    BY <1>0, PullOutcomes
  <2>4. CASE out.clone = Clone(s)
    BY <1>1, <2>1, <2>2, <2>3, <2>4 DEF SameCommits
  <2>5. CASE out.clone # Clone(s)
    <3>1. PullsInto(s, out.clone)
      <4>1. /\ ~Refuses(Clone(s), remote)
            /\ out.clone \in {Merged(Clone(s), remote), Stopped(Clone(s), remote)}
        BY <2>1, <2>5 DEF Pulls
      <4>2. Clone(s).theirs = NoMerge /\ Clone(s).unmerged = {}
        BY <4>1 DEF Refuses
      <4> QED
        BY <2>1, <2>2, <4>1, <4>2 DEF PullsInto
    <3> QED
      BY <1>0, <2>1, <2>2, <2>3, <3>1, BecomesEffect
  <2> QED
    BY <2>4, <2>5
<1>5. CASE Write(s)
  <2>1. Present(Content(s)) \in SUBSET AllFiles
    BY RequestTypes
  <2>2. pc'[s] # "push"
    BY <1>0, <1>5 DEF Write
  <2> QED
    BY <1>1, <1>5, <2>1, <2>2, WrittenEffect DEF Write
<1>6. CASE WriteFails(s)
  <2>1. PICK F \in SUBSET Present(Content(s)) :
          \/ Becomes(s, WithFiles(s, F))
          \/ \E f \in IF F = {} THEN {Kustomization} ELSE Present(Content(s)) \ F :
               Becomes(s, [WithFiles(s, F) EXCEPT !.tree[<<Name(s), f>>] = Mangled])
    BY <1>6 DEF WriteFails
  <2>2. F \in SUBSET AllFiles /\ Kustomization \in AllFiles
    BY RequestTypes DEF AllFiles
  <2>3. pc'[s] # "push" /\ remote' = remote
    BY <1>0, <1>6 DEF WriteFails
  <2>4. CASE Becomes(s, WithFiles(s, F))
    BY <1>1, <2>2, <2>3, <2>4, WrittenEffect
  <2>5. ASSUME NEW f \in AllFiles,
               Becomes(s, [WithFiles(s, F) EXCEPT !.tree[<<Name(s), f>>] = Mangled])
        PROVE  Goal
    <3> DEFINE w == WithFiles(s, F)
               c == [w EXCEPT !.tree[<<Name(s), f>>] = Mangled]
    <3>1. w \in Clones /\ SameCommits(Clone(s), w) /\ w.unmerged = Clone(s).unmerged
      BY <2>2, WrittenEffect
    <3> HIDE DEF w
    <3>2. c \in Clones /\ SameCommits(w, c) /\ c.unmerged = w.unmerged
      BY <1>0, <3>1, MangledEffect
    <3>3. Becomes(s, c)
      BY <2>5 DEF w
    <3> HIDE DEF c
    <3>4. SameCommits(Clone(s), c)
      BY <3>1, <3>2 DEF SameCommits
    <3> QED
      BY <1>1, <2>3, <3>1, <3>2, <3>3, <3>4
  <2> QED
    BY <2>1, <2>2, <2>4, <2>5, RequestTypes
<1>7. CASE AddDir(s)
  <2>1. pc'[s] # "push"
    BY <1>0, <1>7 DEF AddDir
  <2> QED
    BY <1>0, <1>1, <1>7, <2>1, AddEffect DEF AddDir
<1>8. CASE CommitIndex(s)
  <2>1. Commit(Clone(s), s) \in Clones
    BY <1>0, CommitEffect
  <2>2. pc[s] = "commit" /\ pc'[s] = "push"
    BY <1>0, <1>8 DEF CommitIndex
  <2> QED
    BY <1>0, <1>8, <2>1, <2>2, BecomesEffect DEF CommitIndex, CommitsTo
<1>10. CASE Push(s) \/ CommandFails(s)
  <2>1. CASE UNCHANGED gitVars
    <3>1. pc'[s] # "push"
      BY <1>0, <1>10 DEF Push, CommandFails
    <3> QED
      BY <1>2, <2>1, <3>1
  <2>2. CASE ~UNCHANGED gitVars
    <3>1. pc[s] = "push" /\ pc'[s] \in {"rollback", "unlock", "done"}
      BY <1>0, <1>10, <2>2 DEF Push, CommandFails
    <3>2. /\ CanPush(Clone(s), remote) /\ remote' = Clone(s).head
          /\ Becomes(s, Pushed(Clone(s)))
      BY <1>10, <2>2 DEF Push, CommandFails
    <3> QED
      BY <1>0, <3>1, <3>2, PushedEffect, BecomesEffect DEF PushesOut
  <2> QED
    BY <2>1, <2>2
<1>11. CASE RmDir(s)
  <2>1. pc'[s] # "push"
    BY <1>0, <1>11 DEF RmDir
  <2> QED
    BY <1>0, <1>1, <1>11, <2>1, RmEffect DEF RmDir
<1>12. CASE Rollback(s)
  <2>1. pc'[s] # "push" /\ remote' = remote
    BY <1>0, <1>12 DEF Rollback
  <2> DEFINE reset == ResetFile(Clone(s), File(s))
  <2>2. \E c \in {Clone(s), reset, Checkout(reset, File(s))}
                 \cup {Unlink(Clone(s), P) : P \in {Of(Name(s)), {File(s)}}} : Becomes(s, c)
    BY <1>12 DEF Rollback
  <2>3. /\ reset \in Clones /\ SameCommits(Clone(s), reset)
        /\ reset.unmerged \subseteq Clone(s).unmerged
    BY <1>0, ResetFileEffect
  <2> HIDE DEF reset
  <2>4. /\ Checkout(reset, File(s)) \in Clones
        /\ SameCommits(reset, Checkout(reset, File(s)))
        /\ Checkout(reset, File(s)).unmerged = reset.unmerged
    BY <1>0, <2>3, CheckoutEffect
  <2>5. \A P : LET u == Unlink(Clone(s), P)
               IN  u \in Clones /\ SameCommits(Clone(s), u) /\ u.unmerged = Clone(s).unmerged
    BY <1>0, UnlinkEffect
  <2>6. \A c \in {Clone(s), reset, Checkout(reset, File(s))}
                 \cup {Unlink(Clone(s), P) : P \in {Of(Name(s)), {File(s)}}} :
          c \in Clones /\ SameCommits(Clone(s), c) /\ c.unmerged \subseteq Clone(s).unmerged
    BY <1>0, <2>3, <2>4, <2>5 DEF SameCommits
  <2> QED
    BY <1>1, <2>1, <2>2, <2>6
<1> QED
  BY <1>3, <1>4, <1>5, <1>6, <1>7, <1>8, <1>10, <1>11, <1>12 DEF RequestStep

(* A step of a request leaves the places of others, their mutexes, and     *)
(* what was asked of whom, alone.                                          *)
LEMMA RequestsAreLocal ==
  ASSUME GitTypeOK, MutexTypeOK, NEW s \in Sessions, RequestStep(s)
  PROVE  /\ UNCHANGED serverVars
         /\ exposed \subseteq exposed' /\ sound \subseteq sound'
         /\ pc' \in [Sessions -> Steps] /\ result' \in [Sessions -> Results]
         /\ \A t \in Sessions \ {s} :
              /\ pc'[t] = pc[t] /\ result'[t] = result[t]
              /\ mutex'[t] = mutex[t] /\ onLock'[t] = onLock[t]
              /\ t \in sound' => t \in sound
<1> USE DEF GitTypeOK, MutexTypeOK, Steps, Results, Goto, Return, Leave, mutexVars, gitVars,
            serverVars, historyVars
<1>1. CASE OpenSession(s)
  BY <1>1 DEF OpenSession, NewSession, NewSessionFails
<1>2. CASE Lock(s)
  BY <1>2 DEF Lock, LockTxn, LockTxnFails
<1>3. CASE Wait(s)
  BY <1>3 DEF Wait, WaitDone, WaitFails
<1>4. CASE Release(s) \/ Close(s)
  BY <1>4 DEF Release, Close, Unlock, CloseSession
<1>5. CASE Begin(s)
  BY <1>5 DEF Begin
<1>6. CASE Pull(s)
  BY <1>6 DEF Pull
<1>7. CASE EnsureClean(s) \/ Compare(s) \/ ReadFails(s)
  BY <1>7 DEF EnsureClean, Compare, ReadFails, AfterClean, AfterCompare
<1>8. CASE Write(s) \/ WriteFails(s)
  BY <1>8 DEF Write, WriteFails
<1>9. CASE Build(s) \/ Kubectl(s) \/ ToolFails(s)
  BY <1>9 DEF Build, Kubectl, ToolFails, AfterTools
<1>10. CASE Diff(s) \/ AddDir(s) \/ CommitIndex(s) \/ RmDir(s)
  BY <1>10 DEF Diff, AddDir, CommitIndex, RmDir
<1>11. CASE Push(s) \/ CommandFails(s)
  BY <1>11 DEF Push, CommandFails
<1>12. CASE Rollback(s) \/ Read(s)
  BY <1>12 DEF Rollback, Read
<1> QED
  BY <1>1, <1>2, <1>3, <1>4, <1>5, <1>6, <1>7, <1>8, <1>9, <1>10, <1>11, <1>12 DEF RequestStep

(* What a Get hands on comes from a file. *)
LEMMA RequestTypeStep ==
  ASSUME GitTypeOK, MutexTypeOK, NEW s \in Sessions, RequestStep(s)
  PROVE  GitTypeOK'
<1>1. /\ clone' \in [Replicas -> Clones] /\ remote' \in Commits
      /\ UNCHANGED serverVars
      /\ pc' \in [Sessions -> Steps] /\ result' \in [Sessions -> Results]
  BY RequestOnClones, RequestsAreLocal
<1>2. sound' \subseteq Sessions /\ exposed' \subseteq Sessions
  <2>1. CASE Pull(s)
    BY <2>1 DEF Pull, GitTypeOK, Beside
  <2>2. CASE ~Pull(s)
    <3>1. UNCHANGED historyVars
      BY <2>2 DEF RequestStep, Begin, OpenSession, Lock, Wait, EnsureClean, Compare,
         ReadFails, Write, WriteFails, Build, Kubectl, ToolFails, Diff, AddDir, CommitIndex,
         Push, RmDir, CommandFails, Rollback, Read, Release, Close
    <3> QED
      BY <3>1 DEF historyVars, GitTypeOK
  <2> QED
    BY <2>1, <2>2
<1>3. got' \in [Sessions -> Contents]
  <2>1. CASE Read(s)
    <3>1. Clone(s).tree[File(s)] \in Contents
      BY RequestTypes, CloneFields DEF Snapshots
    <3> QED
      BY <2>1, <3>1 DEF Read, GitTypeOK
  <2>2. CASE ~Read(s)
    <3>1. UNCHANGED got
      BY <2>2 DEF RequestStep, Begin, OpenSession, Lock, Wait, Pull, EnsureClean, Compare,
         ReadFails, Write, WriteFails, Build, Kubectl, ToolFails, Diff, AddDir, CommitIndex,
         Push, RmDir, CommandFails, Rollback, Release, Close
    <3> QED
      BY <3>1 DEF GitTypeOK
  <2> QED
    BY <2>1, <2>2
<1> QED
  BY <1>1, <1>2, <1>3 DEF GitTypeOK, serverVars

(* Every step is a step of the lock or leaves it alone, so that what holds *)
(* of the lock need not be proved again.                                   *)
LEMMA RequestsUseLock ==
  ASSUME GitTypeOK, InPlace, NEW s \in Sessions, RequestStep(s)
  PROVE  [MutexNext]_mutexVars
<1>1. CASE OpenSession(s) \/ Wait(s) \/ Release(s) \/ Close(s)
  BY <1>1 DEF OpenSession, Wait, Release, Close, MutexNext, SessionStep
<1>2. CASE Lock(s)
  <2>1. Key(s) \in Locks
    BY <1>2, RequestTypes DEF Lock, InPlace, Locking
  <2> QED
    BY <1>2, <2>1 DEF Lock, MutexNext, SessionStep
<1>3. CASE ~(OpenSession(s) \/ Wait(s) \/ Release(s) \/ Close(s) \/ Lock(s))
  <2>1. UNCHANGED mutexVars
    BY <1>3 DEF RequestStep, Begin, Pull, EnsureClean, Compare,
       ReadFails, Write, WriteFails, Build, Kubectl, ToolFails, Diff, AddDir, CommitIndex,
       Push, RmDir, CommandFails, Rollback, Read
  <2> QED
    BY <2>1
<1> QED
  BY <1>1, <1>2, <1>3

(* What depends on a request alone. *)
LEMMA OthersStay ==
  ASSUME UNCHANGED serverVars, NEW t \in Sessions, pc'[t] = pc[t]
  PROVE  /\ Name(t)' = Name(t) /\ Content(t)' = Content(t) /\ File(t)' = File(t)
         /\ Key(t)' = Key(t) /\ Locking(t)' = Locking(t)
         /\ Is(t, "apply")' = Is(t, "apply") /\ Is(t, "delete")' = Is(t, "delete")
         /\ Is(t, "get")' = Is(t, "get")
         /\ InSection(t)' = InSection(t) /\ InFlight(t)' = InFlight(t)
         /\ HasCommitted(t)' = HasCommitted(t)
  BY DEF serverVars, Name, Content, File, Key, Locking, Is, InSection, InFlight, HasCommitted

(* A request stays where its kind has business, and with its mutex.        *)
LEMMA RequestInPlace ==
  ASSUME GitTypeOK, MutexTypeOK, InPlace, NEW s \in Sessions, RequestStep(s)
  PROVE  InPlace'
<1> DEFINE At(t) ==
      /\ InFlight(t) => op[t].at \in up
      /\ pc[t] \notin {"unlock", "close", "done", "crashed"} => result[t] = "none"
      /\ pc[t] \in {"idle", "session", "lock", "wait", "pull"} => t \notin sound
      /\ InSection(t) => ~Is(t, "get")
      /\ pc[t] \in {"write", "diff", "add", "rollback"} => Is(t, "apply")
      /\ pc[t] = "rm" => Is(t, "delete")
      /\ pc[t] = "read" => Is(t, "get")
      /\ pc[t] \in {"session", "lock"} => Locking(t)
      /\ Locking(t) /\ (InSection(t) \/ pc[t] \in {"wait", "pull"}) => onLock[t] = Key(t)
      /\ Locking(t) /\ (InSection(t) \/ pc[t] = "pull") => mutex[t] = "held"
<1>0. UNCHANGED serverVars
  BY RequestsAreLocal
<1>1. ASSUME NEW t \in Sessions \ {s} PROVE At(t)'
  <2>1. /\ pc'[t] = pc[t] /\ result'[t] = result[t]
        /\ mutex'[t] = mutex[t] /\ onLock'[t] = onLock[t]
    BY RequestsAreLocal
  <2>2. t \in sound' => t \in sound
    BY RequestsAreLocal
  <2> QED
    BY <1>0, <2>1, <2>2 DEF InPlace, serverVars, InFlight, InSection, Is, Locking, Key
<1>2. At(s)'
  <2>0. /\ At(s) /\ pc \in [Sessions -> Steps]
        /\ Is(s, "apply") \/ Is(s, "delete") \/ Is(s, "get")
    BY RequestTypes DEF InPlace, GitTypeOK, Is
  <2>1. ASSUME UNCHANGED <<mutex, onLock>>, InFlight(s), NEW step, pc' = [pc EXCEPT ![s] = step],
               step \notin {"unlock", "close", "done", "crashed"} =>
                 result' = result /\ pc[s] \notin {"unlock", "close"},
               step \notin {"idle", "session", "lock", "wait", "pull"},
               Locking(s) /\ (InSection(s)' \/ step \in {"wait", "pull"}) =>
                 InSection(s) \/ pc[s] = "pull",
               InSection(s)' => ~Is(s, "get"),
               step \in {"write", "diff", "add", "rollback"} => Is(s, "apply"),
               step = "rm" => Is(s, "delete"),
               step = "read" => Is(s, "get"),
               step \in {"session", "lock"} => Locking(s)
        PROVE  At(s)'
    BY <1>0, <2>0, <2>1 DEF serverVars, InFlight, InSection, Is, Locking, Key
  <2> USE DEF Goto, Return, Leave, mutexVars
  <2>2. CASE Begin(s)
    BY <1>0, <2>0, <2>2 DEF Begin, historyVars, serverVars, InFlight, InSection, Is, Locking, Key
  <2>3. CASE OpenSession(s)
    BY <1>0, <2>0, <2>3 DEF OpenSession, historyVars, serverVars, InFlight, InSection, Is, Locking, Key
  <2>4. CASE Lock(s)
    <3>1. (pc'[s] = "pull" => mutex'[s] = "held") /\ (pc'[s] # "done" => onLock'[s] = Key(s))
      BY <2>0, <2>4 DEF Lock, LockTxn, MutexTypeOK
    <3>2. /\ pc[s] = "lock" /\ pc'[s] \in {"pull", "wait", "done"} /\ sound' = sound
          /\ pc'[s] # "done" => result' = result
      BY <2>0, <2>4 DEF Lock, historyVars
    <3> QED
      BY <1>0, <2>0, <3>1, <3>2 DEF serverVars, InFlight, InSection, Is, Locking, Key
  <2>5. CASE Wait(s)
    <3>1. pc'[s] = "pull" => mutex'[s] = "held"
      BY <2>0, <2>5 DEF Wait, WaitDone, MutexTypeOK
    <3>2. /\ pc[s] = "wait" /\ pc'[s] \in {"pull", "done"} /\ onLock'[s] = onLock[s]
          /\ sound' = sound
          /\ pc'[s] # "done" => result' = result
      BY <2>0, <2>5 DEF Wait, WaitDone, WaitFails, historyVars
    <3> QED
      BY <1>0, <2>0, <3>1, <3>2 DEF serverVars, InFlight, InSection, Is, Locking, Key
  <2>6. CASE Pull(s)
    BY <2>0, <2>1, <2>6 DEF Pull, Is, InSection, InFlight
  <2>7. CASE EnsureClean(s) \/ Compare(s) \/ ReadFails(s)
    BY <2>0, <2>1, <2>7 DEF EnsureClean, Compare, ReadFails, AfterClean, AfterCompare, Is,
       InSection, InFlight
  <2>8. CASE Write(s) \/ WriteFails(s)
    BY <2>0, <2>1, <2>8 DEF Write, WriteFails, Is, InSection, InFlight
  <2>9. CASE Build(s) \/ Kubectl(s) \/ ToolFails(s)
    BY <2>0, <2>1, <2>9 DEF Build, Kubectl, ToolFails, AfterTools, Is, InSection, InFlight
  <2>10. CASE Diff(s) \/ AddDir(s) \/ CommitIndex(s) \/ RmDir(s)
    BY <2>0, <2>1, <2>10 DEF Diff, AddDir, CommitIndex, RmDir, Is, InSection, InFlight
  <2>11. CASE Push(s) \/ CommandFails(s)
    BY <2>0, <2>1, <2>11 DEF Push, CommandFails, Is, InSection, InFlight
  <2>12. CASE Rollback(s) \/ Read(s)
    BY <2>0, <2>1, <2>12 DEF Rollback, Read, Is, InSection, InFlight
  <2>13. CASE Release(s) \/ Close(s)
    BY <1>0, <2>0, <2>13 DEF Release, Close, historyVars, serverVars, InFlight, InSection, Is, Locking, Key
  <2> QED
    BY <2>2, <2>3, <2>4, <2>5, <2>6, <2>7, <2>8, <2>9, <2>10, <2>11, <2>12, <2>13
       DEF RequestStep
<1> QED
  BY <1>1, <1>2 DEF InPlace

(* Only Pull brings a request into its section, and it notes who is there. *)
LEMMA RequestExposes ==
  ASSUME GitTypeOK, MutexTypeOK, InPlace, SharersAreExposed, NEW s \in Sessions, RequestStep(s)
  PROVE  SharersAreExposed'
<1>0. /\ UNCHANGED serverVars /\ exposed \subseteq exposed'
      /\ \A t \in Sessions \ {s} : pc'[t] = pc[t]
  BY RequestsAreLocal
<1>1. CASE InSection(s) \/ ~InSection(s)'
  BY <1>0, <1>1 DEF SharersAreExposed, InSection, serverVars
<1>2. CASE ~InSection(s) /\ InSection(s)'
  <2>1. Pull(s)
    BY <1>2 DEF RequestStep, Begin, OpenSession, Lock, Wait, EnsureClean, Compare,
       ReadFails, Write, WriteFails, Build, Kubectl, ToolFails, Diff, AddDir, CommitIndex,
       Push, RmDir, CommandFails, Rollback, Read, Release, Close, Goto, Leave, Return,
       InSection, GitTypeOK
  <2>2. ~Is(s, "get")
    BY <1>2, <2>1 DEF Pull, Goto, Leave, Is, InSection, GitTypeOK
  <2>3. Beside(s) \subseteq exposed' /\ (Beside(s) # {} => s \in exposed')
    BY <2>1, <2>2 DEF Pull
  <2>4. ASSUME NEW t \in Sessions, NEW u \in Sessions, t # u, op[t].at = op[u].at,
               InSection(t)', InSection(u)'
        PROVE  t \in exposed'
    <3>1. CASE t = s
      BY <1>0, <2>3, <2>4, <3>1 DEF Beside, InSection
    <3>2. CASE u = s
      BY <1>0, <2>3, <2>4, <3>2 DEF Beside, InSection
    <3>3. CASE t # s /\ u # s
      BY <1>0, <2>4, <3>3 DEF SharersAreExposed, InSection
    <3> QED
      BY <3>1, <3>2, <3>3
  <2> QED
    BY <1>0, <2>4 DEF SharersAreExposed, serverVars
<1> QED
  BY <1>1, <1>2

-----------------------------------------------------------------------------
(* Histories. *)

(* Once committed, always committed; and an answer that a request that has *)
(* committed succeeded is given with the push that moves the remote.       *)
LEMMA RequestCommitsOnce ==
  ASSUME GitTypeOK, MutexTypeOK, NEW s \in Sessions, RequestStep(s)
  PROVE  /\ \A t \in Sessions : HasCommitted(t) => HasCommitted(t)'
         /\ \A t \in Sessions : HasCommitted(t) /\ result'[t] = "ok" =>
              \/ result[t] = "ok"
              \/ t = s /\ pc[s] = "push" /\ remote' = Clone(s).head
<1>1. \A t \in Sessions \ {s} : pc'[t] = pc[t] /\ result'[t] = result[t]
  BY RequestsAreLocal
<1>2. /\ HasCommitted(s) => HasCommitted(s)'
      /\ HasCommitted(s) /\ result'[s] = "ok" =>
           result[s] = "ok" \/ (pc[s] = "push" /\ remote' = Clone(s).head)
  <2> SUFFICES ASSUME HasCommitted(s)
               PROVE  /\ HasCommitted(s)'
                      /\ result'[s] = "ok" =>
                           result[s] = "ok" \/ (pc[s] = "push" /\ remote' = Clone(s).head)
    OBVIOUS
  <2>1. CommandFails(s) \/ Push(s) \/ Rollback(s) \/ Release(s) \/ Close(s)
    BY DEF RequestStep, HasCommitted, Begin, OpenSession, Lock, Wait, Pull, EnsureClean, Compare,
       ReadFails, Write, WriteFails, Build, Kubectl, ToolFails, Diff, AddDir, CommitIndex,
       RmDir, Read
  <2> QED
    BY <2>1 DEF CommandFails, Push, Rollback, Release, Close, HasCommitted, Goto, Leave, GitTypeOK
<1> QED
  BY <1>1, <1>2 DEF HasCommitted

(* A clone and the remote, as far as commits go. *)
ClonePast(h) ==
  /\ \A s \in clone[h].head.past :
       HasCommitted(s) /\ (result[s] = "ok" => s \in remote.past)
  /\ \A i \in Replicas \ {h} :
       clone[h].head.past \cap clone[i].head.past \subseteq remote.past
  /\ clone[h].theirs # NoMerge => clone[h].theirs.past \subseteq remote.past
  /\ clone[h].theirs = NoMerge => clone[h].unmerged = {}
  /\ clone[h].head.past \subseteq remote.past => clone[h].base = clone[h].head.files
  /\ clone[h].head.past = remote.past => clone[h].head.files = remote.files

(* PastTellsFiles, clone by clone. *)
LEMMA PastByClone ==
  PastTellsFiles <=>
    /\ \A s \in remote.past : HasCommitted(s)
    /\ \A s \in Sessions : pc[s] = "push" => s \in Clone(s).head.past
    /\ \A h \in Replicas : ClonePast(h)
  BY DEF PastTellsFiles, ClonePast

(* A merge with the remote, or one that stops, tells nothing new: it adds  *)
(* what the remote has, and a clone that only follows the remote then      *)
(* holds what the remote holds.                                            *)
LEMMA MergeKeepsPasts ==
  ASSUME GitTypeOK, PastTellsFiles, NEW h \in Replicas,
         remote' = remote, \A i \in Replicas \ {h} : clone'[i] = clone[i],
         clone[h].theirs = NoMerge, clone[h].unmerged = {},
         \/ clone'[h] = Merged(clone[h], remote)
         \/ clone'[h] = Stopped(clone[h], remote)
         \/ clone'[h] = clone[h],
         \A t \in Sessions : HasCommitted(t) => HasCommitted(t)',
         \A t \in Sessions : HasCommitted(t) /\ result'[t] = "ok" =>
           result[t] = "ok" \/ t \in remote.past,
         \A t \in Sessions : pc'[t] = "push" => pc[t] = "push",
         UNCHANGED op
  PROVE  PastTellsFiles'
<1> DEFINE c == clone[h]
           d == clone'[h]
<1>0. c \in Clones /\ remote \in Commits /\ remote.past \subseteq Sessions
  BY GitAssumption DEF GitTypeOK, Commits
<1>1. /\ c.head.past \subseteq d.head.past
      /\ d.head.past \subseteq c.head.past \cup remote.past
  <2>1. CASE d = Merged(c, remote)
    BY <1>0, <2>1, MergedEffect
  <2>2. CASE d = Stopped(c, remote)
    BY <1>0, <2>2, StoppedEffect
  <2> QED
    BY <2>1, <2>2
<1>2. /\ d.theirs # NoMerge => d.theirs.past \subseteq remote.past
      /\ d.theirs = NoMerge => d.unmerged = {}
  BY <1>0, MergedEffect, StoppedEffect, GitTreeAssumption
<1>3. d.head.past \subseteq remote.past =>
        d.base = d.head.files /\ (d.head.past = remote.past => d.head.files = remote.files)
  <2>1. CASE d = Merged(c, remote) /\ d.head.past \subseteq remote.past
    <3>1. c.base = c.head.files
      BY <1>1, <2>1, PastByClone DEF ClonePast
    <3>2. \A p \in Paths : d.head.files[p] = remote.files[p]
      BY <1>0, <2>1, <3>1, MergedEffect DEF Incoming
    <3>3. d.head.files = remote.files /\ d.base = remote.files
      BY <1>0, <2>1, <3>2, MergedEffect, CloneFields, SameSnapshot DEF Commits
    <3> QED
      BY <3>3
  <2>2. CASE d = Stopped(c, remote)
    BY <1>0, <2>2, PastByClone, StoppedEffect DEF ClonePast
  <2>3. CASE d = c
    BY <2>3, PastByClone DEF ClonePast
  <2> QED
    BY <2>1, <2>2, <2>3
<1>4. ClonePast(h)'
  <2>1. \A t \in d.head.past :
          HasCommitted(t)' /\ (result'[t] = "ok" => t \in remote'.past)
    BY <1>0, <1>1, PastByClone, GitAssumption, CloneFields DEF ClonePast
  <2>2. \A i \in Replicas \ {h} : d.head.past \cap clone'[i].head.past \subseteq remote'.past
    BY <1>1, PastByClone DEF ClonePast
  <2> HIDE DEF c, d
  <2> QED
    BY <1>2, <1>3, <2>1, <2>2 DEF ClonePast, d
<1>5. ASSUME NEW i \in Replicas \ {h} PROVE ClonePast(i)'
  <2>0. clone[i] \in Clones /\ clone'[i] = clone[i] /\ clone[i].head.past \subseteq Sessions
    BY GitAssumption, CloneFields DEF GitTypeOK
  <2>1. \A t \in clone[i].head.past :
          HasCommitted(t)' /\ (result'[t] = "ok" => t \in remote'.past)
    BY <2>0, PastByClone DEF ClonePast
  <2>2. \A j \in Replicas \ {i} :
          clone[i].head.past \cap clone'[j].head.past \subseteq remote'.past
    BY <1>1, PastByClone DEF ClonePast
  <2>3. ClonePast(i)
    BY PastByClone
  <2> QED
    BY <2>0, <2>1, <2>2, <2>3 DEF ClonePast
<1>6. \A t \in remote'.past : HasCommitted(t)'
  BY <1>0, PastByClone
<1>7. \A i \in Replicas : ClonePast(i)'
  BY <1>4, <1>5
<1>8. \A t \in Sessions : pc'[t] = "push" => t \in Clone(t)'.head.past
  <2>1. ASSUME NEW t \in Sessions, pc'[t] = "push" PROVE t \in clone'[op[t].at].head.past
    <3>1. t \in clone[op[t].at].head.past /\ op[t].at \in Replicas
      BY <2>1, PastByClone, RequestTypes DEF Clone
    <3> QED
      BY <1>1, <3>1
  <2> QED
    BY <2>1 DEF Clone
<1> HIDE DEF c, d
<1> QED
  BY <1>6, <1>7, <1>8 DEF PastTellsFiles, ClonePast

(* Working on a clone is no matter for its commits.                        *)
LEMMA WorkKeepsPasts ==
  ASSUME GitTypeOK, MutexTypeOK, PastTellsFiles, NEW s \in Sessions, RequestStep(s),
         WorksOn(s, clone'[op[s].at])
  PROVE  PastTellsFiles'
<1>h. PICK h \in Replicas : h = op[s].at
  BY RequestTypes
<1> DEFINE d == clone'[h]
<1>0. /\ h = op[s].at /\ remote' = remote /\ UNCHANGED serverVars
      /\ \A i \in Replicas : clone'[i].head = clone[i].head /\ clone[i].head.past \subseteq Sessions
      /\ \A i \in Replicas : clone'[i].base = clone[i].base /\ clone'[i].theirs = clone[i].theirs
      /\ \A i \in Replicas : clone'[i].unmerged \subseteq clone[i].unmerged
  <2>1. /\ remote' = remote /\ UNCHANGED serverVars
        /\ d.head = clone[h].head /\ d.base = clone[h].base /\ d.theirs = clone[h].theirs
        /\ d.unmerged \subseteq clone[h].unmerged
    BY <1>h, RequestsAreLocal DEF WorksOn, SameCommits, Clone
  <2>2. \A i \in Replicas \ {h} : clone'[i] = clone[i]
    BY <1>h, RequestOnClones
  <2>3. \A i \in Replicas : clone[i].head.past \subseteq Sessions
    BY CloneFields, GitAssumption DEF GitTypeOK
  <2> HIDE DEF d
  <2> QED
    BY <1>h, <2>1, <2>2, <2>3 DEF d
<1>1. ASSUME NEW i \in Replicas, NEW t \in clone[i].head.past, result'[t] = "ok"
      PROVE  t \in remote.past
  <2>1. t \in Sessions /\ HasCommitted(t) /\ (result[t] = "ok" => t \in remote.past)
    BY <1>0, PastByClone DEF ClonePast
  <2>2. CASE t = s /\ pc[s] = "push" /\ remote' = Clone(s).head
    BY <1>0, <2>2, PastByClone
  <2> QED
    BY <1>1, <2>1, <2>2, RequestCommitsOnce
<1>2. \A t \in Sessions : pc'[t] = "push" => pc[t] = "push"
  BY RequestsAreLocal DEF WorksOn
<1>3. \A t \in Sessions : HasCommitted(t) => HasCommitted(t)'
  BY RequestCommitsOnce
<1>4. ASSUME NEW i \in Replicas PROVE ClonePast(i)'
  <2>1. ClonePast(i)
    BY PastByClone
  <2>2. \A t \in clone'[i].head.past :
          HasCommitted(t)' /\ (result'[t] = "ok" => t \in remote'.past)
    BY <1>0, <1>1, <1>3, <2>1 DEF ClonePast
  <2> QED
    BY <1>0, <2>1, <2>2 DEF ClonePast
<1>5. \A t \in remote'.past : HasCommitted(t)'
  BY <1>0, <1>3, PastByClone, GitAssumption DEF GitTypeOK, Commits
<1>6. \A t \in Sessions : pc'[t] = "push" => t \in Clone(t)'.head.past
  BY <1>0, <1>2, PastByClone, RequestTypes DEF Clone, serverVars
<1> QED
  BY <1>4, <1>5, <1>6 DEF PastTellsFiles, ClonePast

(* A commit is new to everybody. *)
LEMMA CommitKeepsPasts ==
  ASSUME GitTypeOK, MutexTypeOK, InPlace, PastTellsFiles, NEW s \in Sessions, RequestStep(s),
         CommitsTo(s, clone'[op[s].at])
  PROVE  PastTellsFiles'
<1>h. PICK h \in Replicas : h = op[s].at
  BY RequestTypes
<1> DEFINE c == clone[h]
           d == clone'[h]
<1>0. /\ h = op[s].at /\ remote' = remote /\ UNCHANGED serverVars
      /\ c \in Clones /\ s \in Committers /\ c = Clone(s)
      /\ \A i \in Replicas : clone[i].head.past \subseteq Sessions
      /\ remote.past \subseteq Sessions
      /\ \A i \in Replicas \ {h} : clone'[i] = clone[i]
      /\ pc[s] = "commit" /\ pc'[s] = "push"
  BY <1>h, RequestTypes, RequestOnClones, RequestsAreLocal, CloneFields, GitAssumption
     DEF CommitsTo, GitTypeOK, Commits, Clone
<1>1. ~HasCommitted(s) /\ HasCommitted(s)' /\ result'[s] # "ok"
  <2>1. CommitIndex(s)
    BY <1>0 DEF RequestStep, Begin, OpenSession, Lock, Wait, Pull, EnsureClean, Compare,
       ReadFails, Write, WriteFails, Build, Kubectl, ToolFails, Diff, AddDir,
       Push, RmDir, CommandFails, Rollback, Read, Release, Close, Goto, Leave, GitTypeOK
  <2> QED
    BY <1>0, <2>1 DEF CommitIndex, HasCommitted, InPlace, InFlight
<1>2. /\ s \notin remote.past
      /\ \A i \in Replicas : s \notin clone[i].head.past
  BY <1>1, PastByClone DEF ClonePast
<1>3. /\ \A t \in d.head.past : t \in c.head.past \/ t = s \/ t \in remote.past
      /\ c.head.past \subseteq d.head.past /\ s \in d.head.past
      /\ d.theirs = NoMerge /\ d.unmerged = {}
  <2>1. d = Commit(c, s) /\ CanCommit(c)
    BY <1>0 DEF CommitsTo
  <2>2. c.theirs # NoMerge => c.theirs.past \subseteq remote.past
    BY <1>0, PastByClone DEF ClonePast
  <2> QED
    BY <1>0, <2>1, <2>2, CommitEffect DEF CanCommit
<1>4. /\ \A t \in Sessions : HasCommitted(t) => HasCommitted(t)'
      /\ \A t \in Sessions : HasCommitted(t) /\ result'[t] = "ok" => result[t] = "ok"
  BY <1>0, RequestCommitsOnce
<1>5. ClonePast(h)'
  <2>1. \A t \in d.head.past : HasCommitted(t)' /\ (result'[t] = "ok" => t \in remote'.past)
    BY <1>0, <1>1, <1>3, <1>4, PastByClone DEF ClonePast
  <2>2. \A i \in Replicas \ {h} : d.head.past \cap clone'[i].head.past \subseteq remote'.past
    BY <1>0, <1>2, <1>3, PastByClone DEF ClonePast
  <2>3. ~(d.head.past \subseteq remote'.past)
    BY <1>0, <1>2, <1>3
  <2> HIDE DEF c, d
  <2> QED
    BY <1>3, <2>1, <2>2, <2>3 DEF ClonePast, d
<1>6. ASSUME NEW i \in Replicas \ {h} PROVE ClonePast(i)'
  <2>0. clone'[i] = clone[i] /\ ClonePast(i)
    BY <1>0, PastByClone
  <2>1. \A t \in clone[i].head.past :
          HasCommitted(t)' /\ (result'[t] = "ok" => t \in remote'.past)
    BY <1>0, <1>4, <2>0 DEF ClonePast
  <2>2. \A j \in Replicas \ {i} :
          clone[i].head.past \cap clone'[j].head.past \subseteq remote'.past
    BY <1>0, <1>2, <1>3, <2>0 DEF ClonePast
  <2> QED
    BY <1>0, <2>0, <2>1, <2>2 DEF ClonePast
<1>7. \A t \in remote'.past : HasCommitted(t)'
  BY <1>0, <1>4, PastByClone
<1>8. ASSUME NEW t \in Sessions, pc'[t] = "push" PROVE t \in Clone(t)'.head.past
  <2>1. CASE t = s
    BY <1>0, <1>3, <2>1 DEF Clone, serverVars
  <2>2. CASE t # s
    <3>1. pc[t] = "push" /\ op[t].at \in Replicas
      BY <1>8, <2>2, RequestsAreLocal, RequestTypes
    <3>2. t \in clone[op[t].at].head.past
      BY <3>1, PastByClone DEF Clone
    <3>3. t \in clone'[op[t].at].head.past
      BY <1>0, <1>3, <3>1, <3>2
    <3> QED
      BY <1>0, <3>3 DEF Clone, serverVars
  <2> QED
    BY <2>1, <2>2
<1>9. \A i \in Replicas : ClonePast(i)'
  BY <1>5, <1>6
<1> HIDE DEF c, d
<1> QED
  BY <1>7, <1>8, <1>9 DEF PastTellsFiles, ClonePast

(* A push: what becomes the remote's was in no other clone, unless the     *)
(* remote had it already.                                                  *)
LEMMA PushKeepsPasts ==
  ASSUME GitTypeOK, MutexTypeOK, PastTellsFiles, NEW s \in Sessions, RequestStep(s),
         PushesOut(s, clone'[op[s].at])
  PROVE  PastTellsFiles'
<1>h. PICK h \in Replicas : h = op[s].at
  BY RequestTypes
<1> DEFINE c == clone[h]
           d == clone'[h]
<1>0. /\ h = op[s].at /\ remote' = c.head /\ UNCHANGED serverVars
      /\ c \in Clones /\ c = Clone(s)
      /\ remote.past \subseteq c.head.past
      /\ \A i \in Replicas : clone[i].head.past \subseteq Sessions
      /\ \A i \in Replicas \ {h} : clone'[i] = clone[i]
      /\ pc[s] = "push" /\ pc'[s] # "push"
  BY <1>h, RequestTypes, RequestOnClones, RequestsAreLocal, CloneFields, GitAssumption
     DEF PushesOut, GitTypeOK, Commits, Clone, CanPush, HasCommitted
<1>1. d.head = c.head /\ d.base = c.head.files /\ d.theirs = c.theirs /\ d.unmerged = c.unmerged
  BY <1>h, <1>0, PushedEffect DEF PushesOut
<1>2. /\ \A t \in Sessions : HasCommitted(t) => HasCommitted(t)'
      /\ \A t \in Sessions : HasCommitted(t) /\ result'[t] = "ok" => result[t] = "ok" \/ t = s
      /\ s \in c.head.past
  BY <1>0, RequestCommitsOnce, PastByClone
<1>3. ClonePast(h)'
  <2>1. ClonePast(h)
    BY <1>0, PastByClone
  <2>2. \A t \in c.head.past : HasCommitted(t)'
    BY <1>0, <1>2, <2>1 DEF ClonePast
  <2>3. \A i \in Replicas \ {h} : c.head.past \cap clone'[i].head.past \subseteq remote'.past
    BY <1>0
  <2>4. c.theirs # NoMerge => c.theirs.past \subseteq remote'.past
    BY <1>0, <2>1 DEF ClonePast
  <2>5. c.theirs = NoMerge => c.unmerged = {}
    BY <2>1 DEF ClonePast
  <2> HIDE DEF c, d
  <2> QED
    BY <1>0, <1>1, <2>2, <2>3, <2>4, <2>5 DEF ClonePast, d
<1>4. ASSUME NEW i \in Replicas \ {h} PROVE ClonePast(i)'
  <2> DEFINE e == clone[i]
  <2>0. clone'[i] = e /\ ClonePast(i) /\ ClonePast(h) /\ i # h
    BY <1>0, PastByClone
  <2>1. \A t \in e.head.past :
          HasCommitted(t)' /\ (result'[t] = "ok" => t \in remote'.past)
    BY <1>0, <1>2, <2>0 DEF ClonePast
  <2>2. \A j \in Replicas \ {i} : e.head.past \cap clone'[j].head.past \subseteq remote'.past
    BY <1>0, <1>1, <2>0 DEF ClonePast
  <2>3. e.head.past \cap c.head.past \subseteq remote.past
    BY <1>0, <2>0 DEF ClonePast
  <2>4. e.head.past \subseteq remote'.past => e.base = e.head.files
    BY <1>0, <2>0, <2>3 DEF ClonePast
  <2>5. e.head.past = remote'.past => e.head.files = remote'.files
    <3>1. ASSUME e.head.past = c.head.past PROVE e.head.files = c.head.files
      <4>1. e.head.past = remote.past /\ c.head.past = remote.past
        BY <1>0, <2>3, <3>1
      <4> QED
        BY <2>0, <4>1 DEF ClonePast
    <3> QED
      BY <1>0, <3>1
  <2>6. /\ e.theirs # NoMerge => e.theirs.past \subseteq remote'.past
        /\ e.theirs = NoMerge => e.unmerged = {}
    BY <1>0, <2>0 DEF ClonePast
  <2> HIDE DEF c, d
  <2> QED
    BY <2>0, <2>1, <2>2, <2>4, <2>5, <2>6 DEF ClonePast
<1>5. \A t \in remote'.past : HasCommitted(t)'
  BY <1>0, <1>2, PastByClone DEF ClonePast
<1>6. ASSUME NEW t \in Sessions, pc'[t] = "push" PROVE t \in Clone(t)'.head.past
  <2>1. t # s /\ pc[t] = "push" /\ op[t].at \in Replicas
    BY <1>0, <1>6, RequestsAreLocal, RequestTypes
  <2>2. t \in clone[op[t].at].head.past
    BY <2>1, PastByClone DEF Clone
  <2>3. t \in clone'[op[t].at].head.past
    BY <1>0, <1>1, <2>1, <2>2
  <2> QED
    BY <1>0, <2>3 DEF Clone, serverVars
<1>7. \A i \in Replicas : ClonePast(i)'
  BY <1>3, <1>4
<1> HIDE DEF c, d
<1> QED
  BY <1>5, <1>6, <1>7 DEF PastTellsFiles, ClonePast

(* A step of a request makes at most one new commit, in its own clone, or  *)
(* brings there what the remote has, or the remote what is there.          *)
LEMMA RequestKeepsPasts ==
  ASSUME GitTypeOK, MutexTypeOK, InPlace, PastTellsFiles, NEW s \in Sessions, RequestStep(s)
  PROVE  PastTellsFiles'
<1> DEFINE d == clone'[op[s].at]
<1>1. CASE PullsInto(s, d)
  <2>1. ~HasCommitted(s) /\ pc[s] = "pull" /\ pc'[s] # "push"
    BY <1>1 DEF PullsInto, HasCommitted
  <2>2. /\ op[s].at \in Replicas /\ UNCHANGED op
        /\ \A t \in Sessions : pc'[t] = "push" => pc[t] = "push"
    BY <2>1, RequestTypes, RequestsAreLocal DEF serverVars
  <2>3. \A t \in Sessions : HasCommitted(t) /\ result'[t] = "ok" => result[t] = "ok"
    BY <2>1, RequestCommitsOnce
  <2> QED
    BY <1>1, <2>2, <2>3, RequestOnClones, RequestCommitsOnce, MergeKeepsPasts DEF PullsInto, Clone
<1> QED
  BY <1>1, RequestOnClones, WorkKeepsPasts, CommitKeepsPasts, PushKeepsPasts

-----------------------------------------------------------------------------
(* Requests that are alone in a clone that was level with the remote. *)

(* While t is not exposed nobody touches its clone. *)
LEMMA OthersKeepClone ==
  ASSUME GitTypeOK, MutexTypeOK, SharersAreExposed, NEW s \in Sessions, RequestStep(s),
         NEW t \in Sessions \ {s}, InSection(t), t \notin exposed'
  PROVE  /\ Clone(t)' = Clone(t)
         /\ t \in sound' => t \in sound
         /\ InSection(s) => op[t].at # op[s].at
<1>0. /\ t \notin exposed /\ UNCHANGED op /\ op[t].at \in Replicas
      /\ Clone(s) = clone[op[s].at] /\ Clone(t) = clone[op[t].at]
  BY RequestTypes, RequestsAreLocal DEF serverVars, Clone
<1>1. t \in sound' => t \in sound
  <2>1. CASE Pull(s)
    BY <2>1 DEF Pull
  <2>2. CASE ~Pull(s)
    BY <2>2 DEF RequestStep, Begin, OpenSession, Lock, Wait, EnsureClean, Compare,
       ReadFails, Write, WriteFails, Build, Kubectl, ToolFails, Diff, AddDir, CommitIndex,
       Push, RmDir, CommandFails, Rollback, Read, Release, Close, historyVars
  <2> QED
    BY <2>1, <2>2
<1>2. InSection(s) => op[t].at # op[s].at
  BY <1>0 DEF SharersAreExposed
<1>3. clone'[op[t].at] = clone[op[t].at]
  <2>1. CASE op[t].at # op[s].at
    BY <1>0, <2>1, RequestOnClones
  <2>2. CASE op[t].at = op[s].at /\ Pull(s)
    <3>1. t \in Beside(s)
      BY <2>2 DEF Beside
    <3>2. PICK out \in Pulls(Clone(s), remote) :
            /\ Becomes(s, out.clone)
            /\ out.clone # Clone(s) \/ ~Is(s, "get") => Beside(s) \subseteq exposed'
      BY <2>2 DEF Pull
    <3>3. out.clone = Clone(s)
      BY <3>1, <3>2
    <3> QED
      BY <1>0, <2>2, <3>2, <3>3 DEF Becomes, GitTypeOK
  <2>3. CASE op[t].at = op[s].at /\ ~Pull(s)
    <3>1. ~InSection(s)
      BY <1>2, <2>3
    <3>2. UNCHANGED clone
      BY <2>3, <3>1 DEF RequestStep, InSection, Begin, OpenSession, Lock, Wait, EnsureClean,
         Compare, ReadFails, Write, WriteFails, Build, Kubectl, ToolFails, Diff, AddDir,
         CommitIndex, Push, RmDir, CommandFails, Rollback, Read, Release, Close, gitVars
    <3> QED
      BY <3>2
  <2> QED
    BY <2>1, <2>2, <2>3
<1>4. Clone(t)' = Clone(t)
  BY <1>0, <1>3 DEF Clone
<1> QED
  BY <1>1, <1>2, <1>4

(* LevelClones and OwnChange, for one request and a clone c. *)
Asked(s, snap) == \A f \in Present(Content(s)) : snap[<<Name(s), f>>] = Content(s)[f]
Gone(s, snap)  == \A p \in Of(Name(s)) : snap[p] = Absent

Level(s, c) ==
  /\ c.theirs = NoMerge /\ c.unmerged = {}
  /\ CanPush(c, remote) => remote.files = c.base
  /\ \A p \in Paths \ Of(Name(s)) :
       c.index[p] = c.base[p] /\ c.head.files[p] = c.base[p]
  /\ pc[s] \in {"clean", "compare", "write", "tools", "kubectl", "diff", "rm"} =>
       c.index = c.base /\ c.head.files = c.base
  /\ pc[s] \notin {"clean", "compare", "rollback"} /\ op[s].old # NoOld =>
       c.base[File(s)] = op[s].old.yaml

Own(s, c) ==
  /\ pc[s] \notin {"push", "rollback"} => c.head.past \subseteq remote.past
  /\ pc[s] = "compare" => c.tree[File(s)] = c.base[File(s)]
  /\ Is(s, "delete") /\ pc[s] # "clean" => c.base[File(s)] # Absent
  /\ Is(s, "apply") =>
       /\ pc[s] \in {"tools", "kubectl", "diff", "add"} => Asked(s, c.tree)
       /\ pc[s] = "commit" => Asked(s, c.index)
       /\ pc[s] = "push" => Asked(s, c.head.files)
  /\ Is(s, "delete") =>
       /\ pc[s] = "commit" => Gone(s, c.index)
       /\ pc[s] = "push" => Gone(s, c.head.files)

(* LevelClones and OwnChange, request by request. *)
LEMMA AloneByRequest ==
  /\ LevelClones <=> \A s \in Sessions : InSection(s) /\ Alone(s) => Level(s, Clone(s))
  /\ OwnChange <=> \A s \in Sessions : InSection(s) /\ Alone(s) => Own(s, Clone(s))
  BY DEF LevelClones, OwnChange, Level, Own, Asked, Gone

(* The push of another cannot leave the remote open to t's push and yet    *)
(* have changed what it holds.                                             *)
LEMMA OthersKeepLevel ==
  ASSUME GitTypeOK, MutexTypeOK, SharersAreExposed, PastTellsFiles, LevelClones, OwnChange,
         NEW s \in Sessions, RequestStep(s),
         NEW t \in Sessions \ {s}, InSection(t)', Alone(t)'
  PROVE  Level(t, Clone(t))' /\ Own(t, Clone(t))'
<1>0. /\ UNCHANGED serverVars /\ pc'[t] = pc[t] /\ InSection(t)
      /\ exposed \subseteq exposed'
  BY RequestsAreLocal DEF InSection
<1>1. /\ Clone(t)' = Clone(t) /\ Alone(t)
      /\ InSection(s) => op[t].at # op[s].at
  BY <1>0, OthersKeepClone DEF Alone
<1> DEFINE c == Clone(t)
<1>2. Level(t, c) /\ Own(t, c)
  BY <1>0, <1>1, AloneByRequest
<1>3. /\ CanPush(c, remote') => remote'.files = c.base
      /\ remote.past \subseteq remote'.past
  <2>1. CASE remote' = remote
    BY <1>2, <2>1 DEF Level
  <2>2. CASE remote' # remote
    <3> DEFINE e == clone[op[s].at]
    <3>1. PushesOut(s, clone'[op[s].at])
      BY <2>2, RequestOnClones DEF WorksOn, PullsInto, CommitsTo
    <3>2. remote' = e.head /\ remote.past \subseteq e.head.past /\ InSection(s)
      BY <3>1 DEF PushesOut, CanPush, Clone, InSection
    <3>3. op[t].at \in Replicas /\ op[s].at \in Replicas /\ op[t].at # op[s].at
      BY <1>1, <3>2, RequestTypes
    <3>4. /\ c.head.past \cap e.head.past \subseteq remote.past
          /\ e.head.past = remote.past => e.head.files = remote.files
      BY <3>3, PastByClone DEF ClonePast, Clone
    <3>5. ASSUME CanPush(c, remote') PROVE remote'.files = c.base
      <4>1. e.head.past = remote.past /\ CanPush(c, remote)
        BY <3>2, <3>4, <3>5 DEF CanPush
      <4> QED
        BY <1>2, <3>2, <3>4, <4>1 DEF Level
    <3> QED
      BY <3>2, <3>5
  <2> QED
    BY <2>1, <2>2
<1>4. Level(t, Clone(t))'
  BY <1>0, <1>1, <1>2, <1>3, OthersStay DEF Level, serverVars
<1>5. Own(t, Clone(t))'
  BY <1>0, <1>1, <1>2, <1>3, OthersStay DEF Own, Asked, Gone, serverVars
<1> QED
  BY <1>4, <1>5

(* What was asked does not change. *)
LEMMA AskedStays ==
  ASSUME UNCHANGED serverVars, NEW t \in Sessions
  PROVE  /\ op'[t] = op[t]
         /\ Name(t)' = Name(t) /\ Content(t)' = Content(t) /\ File(t)' = File(t)
         /\ Is(t, "apply")' = Is(t, "apply") /\ Is(t, "delete")' = Is(t, "delete")
  BY DEF serverVars, Name, Content, File, Is

(* Only a pull makes a request sound, or takes it into its section. *)
LEMMA OnlyPullEnters ==
  ASSUME GitTypeOK, NEW s \in Sessions, RequestStep(s), ~Pull(s)
  PROVE  /\ UNCHANGED historyVars
         /\ InSection(s)' => InSection(s)
<1>1. UNCHANGED historyVars
  BY DEF RequestStep, Begin, OpenSession, Lock, Wait, EnsureClean, Compare,
     ReadFails, Write, WriteFails, Build, Kubectl, ToolFails, Diff, AddDir, CommitIndex,
     Push, RmDir, CommandFails, Rollback, Read, Release, Close
<1>2. InSection(s)' => InSection(s)
  BY DEF RequestStep, Begin, OpenSession, Lock, Wait, EnsureClean, Compare,
     ReadFails, Write, WriteFails, Build, Kubectl, ToolFails, Diff, AddDir, CommitIndex,
     Push, RmDir, CommandFails, Rollback, Read, Release, Close, Goto, Leave, Return,
     InSection, GitTypeOK
<1> QED
  BY <1>1, <1>2

(* A pull that leaves the clone as the remote is. *)
LEMMA PullIsLevel ==
  ASSUME GitTypeOK, MutexTypeOK, InPlace, PastTellsFiles', NEW s \in Sessions, Pull(s),
         InSection(s)', Alone(s)'
  PROVE  Level(s, Clone(s))' /\ Own(s, Clone(s))'
<1>h. PICK h \in Replicas : h = op[s].at
  BY RequestTypes
<1> DEFINE c == clone[h]
           d == clone'[h]
<1>0. /\ c \in Clones /\ c = Clone(s) /\ d = Clone(s)' /\ remote' = remote /\ remote \in Commits
      /\ pc[s] = "pull" /\ UNCHANGED serverVars
  BY <1>h, RequestTypes DEF Pull, Clone, serverVars, GitTypeOK
<1>1. PICK out \in Pulls(c, remote) :
        /\ Becomes(s, out.clone)
        /\ pc'[s] = "clean"
        /\ out.ok /\ ~Ahead(out.clone, remote) /\ out.clone.index = out.clone.head.files
  <2>1. s \notin sound
    BY <1>0 DEF InPlace
  <2> QED
    BY <1>0, <2>1 DEF Pull, Alone, Goto, Leave, InSection, GitTypeOK
<1>2. d = out.clone /\ out.clone \in Clones
  BY <1>0, <1>1, <1>h, PullOutcomes, BecomesEffect
<1>3. d.theirs = NoMerge /\ d.unmerged = {}
  BY <1>0, <1>1, <1>2, PullOutcomes, MergedEffect
<1>4. d.head.past \subseteq remote.past /\ d.index = d.head.files
  BY <1>1, <1>2 DEF Ahead
<1>5. /\ d.base = d.head.files
      /\ d.head.past = remote.past => d.head.files = remote.files
  BY <1>0, <1>4 DEF PastTellsFiles
<1>6. CanPush(d, remote) => remote.files = d.base
  BY <1>4, <1>5 DEF CanPush
<1> HIDE DEF c, d
<1>7. Level(s, Clone(s))'
  BY <1>0, <1>1, <1>3, <1>4, <1>5, <1>6 DEF Level
<1>8. Own(s, Clone(s))'
  BY <1>0, <1>1, <1>4 DEF Own
<1> QED
  BY <1>7, <1>8

(* Where neither diff nor listing finds anything, the tree is the index. *)
LEMMA CleanIsIndexed ==
  ASSUME NEW c \in Clones, NEW n \in Names, c.unmerged = {},
         ~Modified(c, n), ~Untracked(c, n), NEW p \in Of(n)
  PROVE  c.tree[p] = c.index[p]
  BY DEF Modified, Untracked

(* Steps that look at the clone and leave it alone. *)
LEMMA LookingKeepsLevel ==
  ASSUME GitTypeOK, InPlace, NEW s \in Sessions,
         \/ EnsureClean(s) \/ Compare(s) \/ Build(s) \/ Kubectl(s) \/ Diff(s),
         Level(s, Clone(s)), Own(s, Clone(s)), InSection(s)'
  PROVE  Level(s, Clone(s))' /\ Own(s, Clone(s))'
<1> DEFINE c == Clone(s)
<1>0. /\ c \in Clones /\ UNCHANGED serverVars /\ remote' = remote /\ Clone(s)' = c
      /\ File(s) \in Of(Name(s)) /\ Name(s) \in Names
      /\ Is(s, "apply") \/ Is(s, "delete") \/ Is(s, "get")
      /\ ~(Is(s, "apply") /\ Is(s, "delete"))
  BY RequestTypes DEF EnsureClean, Compare, Build, Kubectl, Diff, gitVars, serverVars, Clone, Is
<1>1. /\ op'[s] = op[s]
      /\ Name(s)' = Name(s) /\ Content(s)' = Content(s) /\ File(s)' = File(s)
      /\ Is(s, "apply")' = Is(s, "apply") /\ Is(s, "delete")' = Is(s, "delete")
  BY <1>0, AskedStays
<1> USE DEF Goto, Leave
<1> HIDE DEF c
<1>2. CASE EnsureClean(s)
  <2>1. /\ pc[s] = "clean" /\ pc'[s] = AfterClean(s)
        /\ Is(s, "delete") => c.tree[File(s)] # Absent
        /\ ~Modified(c, Name(s)) /\ ~Untracked(c, Name(s))
    BY <1>0, <1>2 DEF EnsureClean, GitTypeOK, InSection, c
  <2>2. c.tree[File(s)] = c.base[File(s)]
    BY <1>0, <2>1, CleanIsIndexed DEF Level, c
  <2>3. /\ pc'[s] \in {"compare", "write", "tools", "rm"}
        /\ pc'[s] # "compare" => op[s].old = NoOld
        /\ pc'[s] = "tools" => ~Is(s, "apply")
    BY <2>1 DEF AfterClean, AfterCompare
  <2> QED
    BY <1>0, <1>1, <2>1, <2>2, <2>3 DEF Level, Own, c
<1>3. CASE Compare(s)
  <2>1. /\ pc[s] = "compare" /\ pc'[s] = AfterCompare(s)
        /\ c.tree[File(s)] = op[s].old.yaml
    BY <1>0, <1>3 DEF Compare, GitTypeOK, InSection, c
  <2>2. /\ pc'[s] \in {"write", "tools", "rm"}
        /\ pc'[s] = "tools" => ~Is(s, "apply")
    BY <2>1 DEF AfterCompare
  <2> QED
    BY <1>0, <1>1, <2>1, <2>2 DEF Level, Own, c
<1>4. CASE Build(s) \/ Kubectl(s)
  <2>1. /\ pc[s] \in {"tools", "kubectl"} /\ pc'[s] \in {"kubectl", "diff", "rm"}
    BY <1>0, <1>4 DEF Build, Kubectl, AfterTools, GitTypeOK, c
  <2> QED
    BY <1>0, <1>1, <2>1 DEF Level, Own, Asked, c
<1>5. CASE Diff(s)
  <2>1. pc[s] = "diff" /\ pc'[s] = "add"
    BY <1>5 DEF Diff, GitTypeOK, InSection
  <2> QED
    BY <1>0, <1>1, <2>1 DEF Level, Own, Asked, c
<1> QED
  BY <1>2, <1>3, <1>4, <1>5

(* Steps that change the clone. *)
LEMMA WorkKeepsLevel ==
  ASSUME GitTypeOK, InPlace, PastTellsFiles, NEW s \in Sessions,
         Write(s) \/ AddDir(s) \/ RmDir(s) \/ CommitIndex(s) \/ CommandFails(s),
         Level(s, Clone(s)), Own(s, Clone(s)), InSection(s)'
  PROVE  Level(s, Clone(s))' /\ Own(s, Clone(s))'
<1>h. PICK h \in Replicas : h = op[s].at
  BY RequestTypes
<1> DEFINE c == clone[h]
           d == clone'[h]
<1>0. /\ c \in Clones /\ UNCHANGED serverVars /\ c = Clone(s) /\ d = Clone(s)'
      /\ File(s) \in Of(Name(s)) /\ Name(s) \in Names /\ File(s) \in Paths
      /\ Is(s, "apply") \/ Is(s, "delete") \/ Is(s, "get")
      /\ ~(Is(s, "apply") /\ Is(s, "delete")) /\ s \in Committers
      /\ Present(Content(s)) \in SUBSET AllFiles
  BY <1>h, RequestTypes
     DEF Write, AddDir, RmDir, CommitIndex, CommandFails, serverVars, Clone, Is
<1>1. /\ op'[s] = op[s]
      /\ Name(s)' = Name(s) /\ Content(s)' = Content(s) /\ File(s)' = File(s)
      /\ Is(s, "apply")' = Is(s, "apply") /\ Is(s, "delete")' = Is(s, "delete")
  BY <1>0, AskedStays
<1>2. Level(s, c) /\ Own(s, c)
  BY <1>0
<1>3. ASSUME NEW e \in Clones, Becomes(s, e) PROVE d = e
  BY <1>3, <1>h, BecomesEffect
<1>4. \A f \in AllFiles : <<Name(s), f>> \in Of(Name(s)) /\ <<Name(s), f>> \in Paths
  BY <1>0, PathsOfNames
<1> USE DEF Goto, Leave
<1> HIDE DEF c, d
<1>5. CASE Write(s)
  <2>1. /\ pc[s] = "write" /\ pc'[s] \in {"diff", "tools"} /\ remote' = remote
    BY <1>5 DEF Write, GitTypeOK
  <2>2. d = WithFiles(s, Present(Content(s)))
    BY <1>0, <1>3, <1>5, WrittenEffect DEF Write
  <2>3. /\ SameCommits(c, d) /\ d.index = c.index /\ d.unmerged = c.unmerged
        /\ Asked(s, d.tree)
    BY <1>0, <2>2, WrittenEffect DEF Asked
  <2>4. Level(s, Clone(s))'
    BY <1>0, <1>1, <1>2, <2>1, <2>3 DEF Level, SameCommits, CanPush
  <2>5. Own(s, Clone(s))'
    BY <1>0, <1>1, <1>2, <2>1, <2>3 DEF Own, SameCommits, Asked
  <2> QED
    BY <2>4, <2>5
<1>6. CASE AddDir(s)
  <2>1. /\ pc[s] = "add" /\ pc'[s] = "commit" /\ remote' = remote /\ Is(s, "apply")
    BY <1>6 DEF AddDir, GitTypeOK, InPlace
  <2>2. d = Add(c, Name(s))
    BY <1>0, <1>3, <1>6, AddEffect DEF AddDir
  <2>3. /\ SameCommits(c, d) /\ d.unmerged \subseteq c.unmerged
        /\ \A p \in Paths : d.index[p] = IF p \in Of(Name(s)) THEN c.tree[p] ELSE c.index[p]
    BY <1>0, <2>2, AddEffect
  <2>4. Asked(s, d.index)
    BY <1>0, <1>2, <1>4, <2>1, <2>3 DEF Asked, Own
  <2>5. Level(s, Clone(s))'
    BY <1>0, <1>1, <1>2, <2>1, <2>3 DEF Level, SameCommits, CanPush
  <2>6. Own(s, Clone(s))'
    BY <1>0, <1>1, <1>2, <2>1, <2>3, <2>4 DEF Own, SameCommits, Asked
  <2> QED
    BY <2>5, <2>6
<1>7. CASE RmDir(s)
  <2>1. /\ pc[s] = "rm" /\ pc'[s] = "commit" /\ remote' = remote /\ Is(s, "delete")
    BY <1>7 DEF RmDir, GitTypeOK, InPlace
  <2>2. d = Rm(c, Name(s))
    BY <1>0, <1>3, <1>7, RmEffect DEF RmDir
  <2>3. /\ SameCommits(c, d) /\ d.unmerged \subseteq c.unmerged
        /\ \A p \in Paths : p \notin Of(Name(s)) => d.index[p] = c.index[p]
        /\ \A p \in Paths : p \in Of(Name(s)) =>
             d.index[p] = IF p \in Tracked(c) THEN Absent ELSE c.index[p]
    BY <1>0, <2>2, RmEffect
  <2>4. Gone(s, d.index)
    BY <1>0, <2>3, PathsOfNames DEF Gone, Tracked
  <2>5. Level(s, Clone(s))'
    BY <1>0, <1>1, <1>2, <2>1, <2>3 DEF Level, SameCommits, CanPush
  <2>6. Own(s, Clone(s))'
    BY <1>0, <1>1, <1>2, <2>1, <2>3, <2>4 DEF Own, SameCommits, Gone
  <2> QED
    BY <2>5, <2>6
<1>8. CASE CommitIndex(s)
  <2>1. /\ pc[s] = "commit" /\ pc'[s] = "push" /\ remote' = remote
    BY <1>8 DEF CommitIndex, GitTypeOK
  <2>2. d = Commit(c, s)
    BY <1>0, <1>3, <1>8, CommitEffect DEF CommitIndex
  <2>3. /\ d.head.files = c.index /\ d.index = c.index /\ d.base = c.base
        /\ d.head.past = c.head.past \cup {s}
        /\ d.theirs = NoMerge /\ d.unmerged = {}
    BY <1>0, <1>2, <2>2, CommitEffect DEF Level
  <2>4. s \notin remote.past
    BY <2>1 DEF PastTellsFiles, HasCommitted
  <2>5. Level(s, Clone(s))'
    BY <1>0, <1>1, <1>2, <2>1, <2>3, <2>4 DEF Level, CanPush
  <2>6. Own(s, Clone(s))'
    BY <1>0, <1>1, <1>2, <2>1, <2>3 DEF Own, Asked, Gone
  <2> QED
    BY <2>5, <2>6
<1>9. CASE CommandFails(s)
  <2>1. /\ pc[s] \in {"add", "commit", "push"} /\ pc'[s] = "rollback" /\ Is(s, "apply")
    BY <1>0, <1>9 DEF CommandFails, GitTypeOK, InPlace, InSection
  <2>2. \/ d = c /\ remote' = remote
        \/ d = Pushed(c) /\ remote' = c.head
    BY <1>0, <1>3, <1>9, PushedEffect DEF CommandFails, gitVars, Clone, c, d, serverVars
  <2>3. CASE d = c /\ remote' = remote
    BY <1>0, <1>1, <1>2, <2>1, <2>3 DEF Level, Own
  <2>4. CASE d = Pushed(c) /\ remote' = c.head
    <3>1. /\ d.base = c.head.files /\ d.head = c.head /\ d.index = c.index
          /\ d.theirs = c.theirs /\ d.unmerged = c.unmerged
      BY <1>0, <2>4, PushedEffect
    <3> QED
      BY <1>0, <1>1, <1>2, <2>1, <2>4, <3>1 DEF Level, Own
  <2> QED
    BY <2>2, <2>3, <2>4
<1> QED
  BY <1>5, <1>6, <1>7, <1>8, <1>9

(* Of the requests at work, the one that steps moves on in its own change, *)
(* and whoever else has been alone in a clone finds that clone untouched.  *)
LEMMA RequestKeepsLevel ==
  ASSUME GitTypeOK, MutexTypeOK, InPlace, SharersAreExposed, PastTellsFiles, PastTellsFiles',
         LevelClones, OwnChange, NEW s \in Sessions, RequestStep(s)
  PROVE  LevelClones' /\ OwnChange'
<1>1. ASSUME NEW t \in Sessions, InSection(t)', Alone(t)'
      PROVE  Level(t, Clone(t))' /\ Own(t, Clone(t))'
  <2>1. CASE t # s
    BY <1>1, <2>1, OthersKeepLevel
  <2>2. CASE t = s /\ Pull(s)
    BY <1>1, <2>2, PullIsLevel
  <2>3. CASE t = s /\ ~Pull(s)
    <3>1. InSection(s) /\ Alone(s)
      BY <1>1, <2>3, OnlyPullEnters DEF Alone, historyVars
    <3>2. Level(s, Clone(s)) /\ Own(s, Clone(s))
      BY <3>1, AloneByRequest
    <3>3. \/ EnsureClean(s) \/ Compare(s) \/ Build(s) \/ Kubectl(s) \/ Diff(s)
          \/ Write(s) \/ AddDir(s) \/ RmDir(s) \/ CommitIndex(s) \/ CommandFails(s)
      BY <1>1, <2>3, <3>1 DEF RequestStep, Begin, OpenSession, Lock, Wait, ReadFails,
         WriteFails, ToolFails, Push, Rollback, Read, Release, Close, Goto, Leave, Return,
         InSection, GitTypeOK
    <3> QED
      BY <1>1, <2>3, <3>2, <3>3, LookingKeepsLevel, WorkKeepsLevel
  <2> QED
    BY <2>1, <2>2, <2>3
<1> QED
  BY <1>1 DEF LevelClones, OwnChange, Level, Own, Asked, Gone

-----------------------------------------------------------------------------
(* What is in trees and indexes. *)

(* A local command changes the instance's own files only, and when it does *)
(* the request has left a trace.                                           *)
LEMMA WorkLeavesTraces ==
  ASSUME GitTypeOK, InPlace, NEW s \in Sessions, RequestStep(s),
         WorksOn(s, clone'[op[s].at])
  PROVE  LET c == Clone(s)
             d == clone'[op[s].at]
         IN  \/ d = c
             \/ d = Pushed(c) /\ pc[s] = "push"
             \/ /\ pc'[s] \in {"tools", "diff", "commit", "unlock", "done"}
                /\ result'[s] \in {"none", "failed"}
                /\ ~Is(s, "get")
                /\ \A p \in Paths \ Of(Name(s)) : d.index[p] = c.index[p] /\ d.tree[p] = c.tree[p]
                /\ \A p \in Of(Name(s)) :
                     \/ d.index[p] \in {c.index[p], c.head.files[p], Absent}
                     \/ d.index[p] = c.tree[p] /\ pc[s] = "add"
                /\ Write(s) \/ WriteFails(s) \/ AddDir(s) \/ RmDir(s) \/ Rollback(s)
<1>h. PICK h \in Replicas : h = op[s].at
  BY RequestTypes
<1> DEFINE c == clone[h]
           d == clone'[h]
           Within(e) ==
             /\ \A p \in Paths \ Of(Name(s)) : e.index[p] = c.index[p] /\ e.tree[p] = c.tree[p]
             /\ \A p \in Of(Name(s)) :
                     \/ e.index[p] \in {c.index[p], c.head.files[p], Absent}
                     \/ e.index[p] = c.tree[p] /\ pc[s] = "add"
<1>0. /\ c \in Clones /\ c = Clone(s) /\ op[s].at = h
      /\ File(s) \in Of(Name(s)) /\ Name(s) \in Names /\ File(s) \in Paths
      /\ Of(Name(s)) \subseteq Paths
      /\ Is(s, "apply") \/ Is(s, "delete") \/ Is(s, "get")
      /\ \A e \in Clones : Becomes(s, e) => d = e
  BY <1>h, RequestTypes, PathsOfNames, BecomesEffect DEF Clone, Is
<1> HIDE DEF c, d
<1> SUFFICES \/ d = c
             \/ d = Pushed(c) /\ pc[s] = "push"
             \/ /\ pc'[s] \in {"tools", "diff", "commit", "unlock", "done"}
                /\ result'[s] \in {"none", "failed"}
                /\ ~Is(s, "get") /\ Within(d)
                /\ Write(s) \/ WriteFails(s) \/ AddDir(s) \/ RmDir(s) \/ Rollback(s)
  BY <1>0 DEF d
<1> USE DEF Goto, Leave
<1>1. CASE \/ Begin(s) \/ OpenSession(s) \/ Lock(s) \/ Wait(s)
           \/ EnsureClean(s) \/ Compare(s) \/ ReadFails(s)
           \/ Build(s) \/ Kubectl(s) \/ ToolFails(s) \/ Diff(s) \/ Read(s)
           \/ Release(s) \/ Close(s)
  <2>1. UNCHANGED gitVars
    BY <1>1 DEF Begin, OpenSession, Lock, Wait, EnsureClean, Compare, ReadFails, Build,
       Kubectl, ToolFails, Diff, Read, Release, Close
  <2> QED
    BY <2>1 DEF gitVars, c, d
<1>2. CASE Pull(s)
  <2>1. PICK out \in Pulls(c, remote) : Becomes(s, out.clone)
    BY <1>0, <1>2 DEF Pull
  <2>2. d = out.clone /\ out.clone \in Clones /\ remote \in Commits
    BY <1>0, <2>1, PullOutcomes DEF GitTypeOK
  <2>3. d.theirs = c.theirs /\ d.head = c.head /\ d.base = c.base
    BY <1>0 DEF WorksOn, SameCommits, d
  <2>4. \/ d = c
        \/ d = Merged(c, remote) /\ ~UpToDate(c, remote)
        \/ d = Stopped(c, remote) /\ c.theirs = NoMerge
    BY <1>0, <2>2, PullOutcomes
  <2>5. ASSUME d = Stopped(c, remote), c.theirs = NoMerge PROVE FALSE
    <3>1. d.theirs = remote
      BY <1>0, <2>2, <2>5, StoppedEffect
    <3> QED
      BY <2>2, <2>3, <2>5, <3>1, GitTreeAssumption
  <2>6. ASSUME d = Merged(c, remote), ~UpToDate(c, remote) PROVE FALSE
    <3>1. d.head.past = c.head.past \cup remote.past
      BY <1>0, <2>2, <2>6, MergedEffect
    <3> QED
      BY <2>3, <2>6, <3>1 DEF UpToDate
  <2> QED
    BY <2>4, <2>5, <2>6
<1>3. CASE Write(s)
  <2>1. /\ pc'[s] \in {"tools", "diff"} /\ result'[s] = "none" /\ ~Is(s, "get")
    BY <1>3 DEF Write, GitTypeOK, InPlace, InSection
  <2>2. d = WithFiles(s, Present(Content(s))) /\ Present(Content(s)) \in SUBSET AllFiles
    BY <1>0, <1>3, RequestTypes, WrittenEffect DEF Write
  <2>3. Within(d)
    BY <1>0, <2>2, WrittenEffect
  <2> QED
    BY <1>3, <2>1, <2>3
<1>4. CASE WriteFails(s)
  <2>1. /\ pc'[s] \in {"unlock", "done"} /\ result'[s] = "failed" /\ ~Is(s, "get")
    BY <1>4 DEF WriteFails, GitTypeOK, InPlace, InSection
  <2>2. PICK F \in SUBSET AllFiles :
          \/ Becomes(s, WithFiles(s, F))
          \/ \E f \in AllFiles :
               Becomes(s, [WithFiles(s, F) EXCEPT !.tree[<<Name(s), f>>] = Mangled])
    <3>1. Present(Content(s)) \subseteq AllFiles /\ Kustomization \in AllFiles
      BY RequestTypes DEF AllFiles
    <3> QED
      BY <1>4, <3>1 DEF WriteFails
  <2> DEFINE w == WithFiles(s, F)
  <2>3. w \in Clones /\ Within(w)
    BY <1>0, WrittenEffect
  <2>4. CASE Becomes(s, w)
    <3>1. d = w
      BY <1>0, <2>3, <2>4
    <3> QED
      BY <1>4, <2>1, <2>3, <3>1
  <2>5. ASSUME NEW f \in AllFiles, Becomes(s, [w EXCEPT !.tree[<<Name(s), f>>] = Mangled])
        PROVE  Within(d)
    <3> HIDE DEF w
    <3> DEFINE e == [w EXCEPT !.tree[<<Name(s), f>>] = Mangled]
    <3>1. /\ e \in Clones /\ e.index = w.index
          /\ \A p \in Paths : p \notin Of(Name(s)) => e.tree[p] = w.tree[p]
      BY <1>0, <2>3, MangledEffect
    <3>2. d = e
      BY <1>0, <2>5, <3>1
    <3> HIDE DEF e
    <3> QED
      BY <1>0, <2>3, <3>1, <3>2
  <2> QED
    BY <1>4, <2>1, <2>2, <2>4, <2>5
<1>5. CASE AddDir(s)
  <2>1. /\ pc[s] = "add" /\ pc'[s] = "commit" /\ result'[s] = "none" /\ ~Is(s, "get")
    BY <1>5 DEF AddDir, GitTypeOK, InPlace, InSection
  <2>2. d = Add(c, Name(s))
    BY <1>0, <1>5, AddEffect DEF AddDir
  <2>3. Within(d)
    BY <1>0, <2>1, <2>2, AddEffect
  <2> QED
    BY <1>5, <2>1, <2>3
<1>6. CASE RmDir(s)
  <2>1. /\ pc'[s] = "commit" /\ result'[s] = "none" /\ ~Is(s, "get")
    BY <1>6 DEF RmDir, GitTypeOK, InPlace, InSection
  <2>2. d = Rm(c, Name(s))
    BY <1>0, <1>6, RmEffect DEF RmDir
  <2>3. Within(d)
    BY <1>0, <2>2, RmEffect
  <2> QED
    BY <1>6, <2>1, <2>3
<1>7. CASE CommitIndex(s)
  <2>1. d = Commit(c, s) /\ d.head.past = c.head.past /\ pc[s] = "commit"
    BY <1>0, <1>7, RequestTypes, CommitEffect DEF CommitIndex, WorksOn, SameCommits, d
  <2>2. pc'[s] = "push"
    BY <1>7 DEF CommitIndex, GitTypeOK
  <2> QED
    BY <2>1, <2>2 DEF WorksOn
<1>8. CASE Push(s) \/ CommandFails(s)
  <2>1. d = c \/ (Becomes(s, Pushed(c)) /\ pc[s] = "push")
    BY <1>0, <1>8 DEF Push, CommandFails, gitVars, c, d
  <2> QED
    BY <1>0, <2>1, PushedEffect
<1>9. CASE Rollback(s)
  <2>1. /\ pc'[s] \in {"unlock", "done"} /\ result'[s] = "failed" /\ ~Is(s, "get")
    BY <1>9 DEF Rollback, GitTypeOK, InPlace, InSection
  <2> DEFINE reset == ResetFile(c, File(s))
  <2>2. \E e \in {c, reset, Checkout(reset, File(s))}
                 \cup {Unlink(c, P) : P \in {Of(Name(s)), {File(s)}}} : Becomes(s, e)
    BY <1>0, <1>9 DEF Rollback
  <2>3. reset \in Clones /\ Within(reset)
    BY <1>0, ResetFileEffect
  <2> HIDE DEF reset
  <2>4. Checkout(reset, File(s)) \in Clones /\ Within(Checkout(reset, File(s)))
    BY <1>0, <2>3, CheckoutEffect
  <2>5. \A P \in {Of(Name(s)), {File(s)}} : Unlink(c, P) \in Clones /\ Within(Unlink(c, P))
    BY <1>0, UnlinkEffect
  <2>6. ASSUME NEW e \in {c, reset, Checkout(reset, File(s))}
                         \cup {Unlink(c, P) : P \in {Of(Name(s)), {File(s)}}},
               Becomes(s, e)
        PROVE  d = c \/ Within(d)
    <3>1. e \in Clones /\ (e = c \/ Within(e))
      <4> HIDE DEF Within
      <4> QED
        BY <1>0, <2>3, <2>4, <2>5
    <3>2. d = e
      BY <1>0, <2>6, <3>1
    <3> QED
      BY <3>1, <3>2
  <2> QED
    BY <1>9, <2>1, <2>2, <2>6
<1> QED
  BY <1>1, <1>2, <1>3, <1>4, <1>5, <1>6, <1>7, <1>8, <1>9 DEF RequestStep

(* What the index of a clone may hold after a step. *)
LEMMA IndexEffect ==
  ASSUME GitTypeOK, InPlace, NEW s \in Sessions, RequestStep(s), NEW p \in Paths
  PROVE  LET c == Clone(s)
             d == clone'[op[s].at]
         IN  \/ d.index[p] \in {c.index[p], c.head.files[p], remote.files[p], Absent}
             \/ d.index[p] = c.tree[p] /\ pc[s] = "add" /\ p \in Of(Name(s))
<1> DEFINE c == Clone(s)
           d == clone'[op[s].at]
<1>0. c \in Clones /\ remote \in Commits /\ s \in Committers
  BY RequestTypes DEF GitTypeOK
<1>1. CASE WorksOn(s, d)
  BY <1>0, <1>1, WorkLeavesTraces, PushedEffect
<1>2. CASE PullsInto(s, d)
  <2>1. d = Merged(c, remote) \/ d = Stopped(c, remote)
    BY <1>2 DEF PullsInto
  <2> HIDE DEF c, d
  <2>2. CASE d = Merged(c, remote)
    <3>1. d.index[p] \in {c.index[p], remote.files[p]}
      BY <1>0, <2>2, MergedEffect
    <3> QED
      BY <3>1 DEF c, d
  <2>3. CASE d = Stopped(c, remote)
    <3>1. d.index[p] \in {c.index[p], remote.files[p]}
      BY <1>0, <2>3, StoppedEffect
    <3> QED
      BY <3>1 DEF c, d
  <2> QED
    BY <2>1, <2>2, <2>3
<1>3. CASE CommitsTo(s, d)
  BY <1>0, <1>3, CommitEffect DEF CommitsTo
<1>4. CASE PushesOut(s, d)
  BY <1>0, <1>4, PushedEffect DEF PushesOut
<1> QED
  BY <1>1, <1>2, <1>3, <1>4, RequestOnClones

(* ... and its last commit, and the remote. *)
LEMMA HeadEffect ==
  ASSUME GitTypeOK, NEW s \in Sessions, RequestStep(s)
  PROVE  LET c == Clone(s)
             d == clone'[op[s].at]
         IN  /\ \A p \in Paths :
                  d.head.files[p] \in {c.head.files[p], c.index[p], remote.files[p]}
             /\ remote' = remote \/ remote' = c.head
<1> DEFINE c == Clone(s)
           d == clone'[op[s].at]
<1>0. c \in Clones /\ remote \in Commits /\ s \in Committers
  BY RequestTypes DEF GitTypeOK
<1> SUFFICES /\ \A p \in Paths :
                  d.head.files[p] \in {c.head.files[p], c.index[p], remote.files[p]}
             /\ remote' = remote \/ remote' = c.head
  OBVIOUS
<1>1. CASE WorksOn(s, d)
  BY <1>1 DEF WorksOn, SameCommits
<1>2. CASE PullsInto(s, d)
  <2>1. (d = Merged(c, remote) \/ d = Stopped(c, remote)) /\ remote' = remote
    BY <1>2 DEF PullsInto
  <2> HIDE DEF c, d
  <2> QED
    BY <1>0, <2>1, MergedEffect, StoppedEffect
<1>3. CASE CommitsTo(s, d)
  BY <1>0, <1>3, CommitEffect DEF CommitsTo
<1>4. CASE PushesOut(s, d)
  BY <1>0, <1>4, PushedEffect DEF PushesOut
<1> QED
  BY <1>1, <1>2, <1>3, <1>4, RequestOnClones

(* While no two requests shared a clone, what the tools reject goes from   *)
(* the tree neither into an index nor into a commit: the directory that is *)
(* added is the one the tools have accepted.                               *)
LEMMA RequestKeepsRejectedOut ==
  ASSUME GitTypeOK, MutexTypeOK, InPlace, SharersAreExposed, RejectedStaysOut,
         IndexesAreAccepted, NEW s \in Sessions, RequestStep(s)
  PROVE  RejectedStaysOut' /\ IndexesAreAccepted'
<1> SUFFICES ASSUME Mode # "none", exposed' = {}
             PROVE  RejectedStaysOut' /\ IndexesAreAccepted'
  BY DEF RejectedStaysOut, IndexesAreAccepted
<1>h. PICK h \in Replicas : h = op[s].at
  BY RequestTypes
<1> DEFINE c == clone[h]
           d == clone'[h]
           Accepted(snap) == \A n \in Names : snap[<<n, Kustomization>>] \notin Rejected
<1>0. /\ exposed = {} /\ UNCHANGED serverVars /\ c = Clone(s) /\ Absent \notin Rejected
      /\ \A n \in Names : <<n, Kustomization>> \in Paths
      /\ Name(s) \in Names
      /\ \A i \in Replicas \ {h} : clone'[i] = clone[i]
  <2>1. exposed = {} /\ UNCHANGED serverVars
    BY RequestsAreLocal
  <2>2. \A i \in Replicas \ {h} : clone'[i] = clone[i]
    BY <1>h, RequestOnClones
  <2> QED
    BY <1>h, <2>1, <2>2, ContentTypes, PathsOfNames, RequestTypes DEF Clone
<1>1. /\ Accepted(remote.files)
      /\ \A i \in Replicas : Accepted(clone[i].head.files) /\ Accepted(clone[i].index)
      /\ \A t \in Sessions :
           pc[t] \in {"kubectl", "diff", "add"} => Clone(t).tree[File(t)] \notin Rejected
  BY <1>0 DEF RejectedStaysOut, IndexesAreAccepted
<1>2. Accepted(d.head.files)
  <2>1. \A p \in Paths :
          d.head.files[p] \in {c.head.files[p], c.index[p], remote.files[p]}
    BY <1>0, <1>h, HeadEffect
  <2> HIDE DEF d
  <2> QED
    BY <1>0, <1>1, <2>1
<1>3. Accepted(remote'.files)
  BY <1>0, <1>1, HeadEffect
<1>4. Accepted(d.index)
  <2> SUFFICES ASSUME NEW n \in Names PROVE d.index[<<n, Kustomization>>] \notin Rejected
    OBVIOUS
  <2>1. CASE d.index[<<n, Kustomization>>] = c.tree[<<n, Kustomization>>]
             /\ pc[s] = "add" /\ <<n, Kustomization>> \in Of(Name(s))
    <3>1. n = Name(s)
      BY <1>0, <2>1, PathsOfNames
    <3> QED
      BY <1>0, <1>1, <2>1, <3>1 DEF File
  <2>2. CASE d.index[<<n, Kustomization>>] \in
               {c.index[<<n, Kustomization>>], c.head.files[<<n, Kustomization>>],
                remote.files[<<n, Kustomization>>], Absent}
    BY <1>0, <1>1, <2>2
  <2>3. <<n, Kustomization>> \in Paths
    BY <1>0
  <2> HIDE DEF d
  <2>4. \/ d.index[<<n, Kustomization>>] \in
             {c.index[<<n, Kustomization>>], c.head.files[<<n, Kustomization>>],
              remote.files[<<n, Kustomization>>], Absent}
        \/ d.index[<<n, Kustomization>>] = c.tree[<<n, Kustomization>>]
           /\ pc[s] = "add" /\ <<n, Kustomization>> \in Of(Name(s))
    BY <1>0, <1>h, <2>3, IndexEffect DEF d
  <2> QED
    BY <2>1, <2>2, <2>4
<1>5. ASSUME NEW t \in Sessions, pc'[t] \in {"kubectl", "diff", "add"}
      PROVE  Clone(t)'.tree[File(t)'] \notin Rejected
  <2>1. CASE t # s
    <3>1. pc'[t] = pc[t] /\ InSection(t)
      BY <1>5, <2>1, RequestsAreLocal DEF InSection
    <3>2. Clone(t)' = Clone(t)
      BY <2>1, <3>1, OthersKeepClone
    <3> QED
      BY <1>0, <1>1, <1>5, <3>1, <3>2, AskedStays
  <2>2. CASE t = s
    <3> USE DEF Goto, Leave, Return
    <3>1. \/ Build(s) \/ (pc[s] \in {"kubectl", "diff"} /\ UNCHANGED clone)
      BY <1>5, <2>2 DEF RequestStep, Begin, OpenSession, Lock, Wait, Pull, EnsureClean, Compare,
         ReadFails, Write, WriteFails, Kubectl, ToolFails, Diff, AddDir, CommitIndex,
         Push, RmDir, CommandFails, Rollback, Read, Release, Close, AfterClean, AfterCompare,
         gitVars, GitTypeOK
    <3>2. Clone(s)' = Clone(s) /\ File(s)' = File(s)
      BY <1>0, <3>1, AskedStays DEF Build, gitVars, Clone, serverVars
    <3>3. CASE Build(s)
      <4>1. DirOf(Clone(s).tree, Name(s))[Kustomization] \notin Rejected
        BY <3>3 DEF Build, Builds
      <4>2. DirOf(Clone(s).tree, Name(s))[Kustomization] = Clone(s).tree[File(s)]
        BY DEF DirOf, File, AllFiles
      <4> QED
        BY <2>2, <3>2, <4>1, <4>2
    <3>4. CASE pc[s] \in {"kubectl", "diff"}
      BY <1>1, <2>2, <3>2, <3>4
    <3> QED
      BY <3>1, <3>3, <3>4
  <2> QED
    BY <2>1, <2>2
<1>6. \A i \in Replicas : Accepted(clone'[i].head.files) /\ Accepted(clone'[i].index)
  BY <1>0, <1>1, <1>2, <1>4
<1> HIDE DEF c, d
<1>7. RejectedStaysOut'
  BY <1>3, <1>6 DEF RejectedStaysOut
<1>8. IndexesAreAccepted'
  BY <1>5, <1>6 DEF IndexesAreAccepted
<1> QED
  BY <1>7, <1>8

(* A push makes nobody else's success one that the remote has.             *)
LEMMA TracesOfOthersStay ==
  ASSUME GitTypeOK, MutexTypeOK, PastTellsFiles, NEW s \in Sessions, RequestStep(s),
         NEW t \in Sessions \ {s}, LeftNoTrace(t)'
  PROVE  LeftNoTrace(t)
<1>1. pc'[t] = pc[t] /\ result'[t] = result[t]
  BY RequestsAreLocal
<1>2. t \in remote'.past /\ result[t] = "ok" => t \in remote.past
  <2>1. op[s].at \in Replicas
    BY RequestTypes
  <2> QED
    BY <2>1, HeadEffect DEF PastTellsFiles, Clone
<1> QED
  BY <1>1, <1>2 DEF LeftNoTrace

(* A trace of s goes away only with its push.                              *)
LEMMA TracesStay ==
  ASSUME GitTypeOK, MutexTypeOK, InPlace, PastTellsFiles, NEW s \in Sessions, RequestStep(s),
         ~Push(s), ~Is(s, "get"), LeftNoTrace(s)'
  PROVE  LeftNoTrace(s)
<1> DEFINE early == {"idle", "session", "lock", "wait", "pull", "clean", "compare", "write"}
           stopped == {"mismatch", "absent", "dirty", "differs"}
<1> USE DEF Goto, Leave, Return
<1>1. CASE pc[s] \in early
  BY <1>1 DEF LeftNoTrace
<1>2. CASE pc[s] \notin early
  <2>1. /\ pc'[s] \notin early
        /\ result'[s] \in stopped => result[s] \in stopped
    <3>1. CASE \/ Build(s) \/ Kubectl(s) \/ ToolFails(s) \/ Diff(s) \/ AddDir(s)
               \/ CommitIndex(s)
      BY <3>1 DEF Build, Kubectl, ToolFails, Diff, AddDir, CommitIndex, AfterTools, GitTypeOK
    <3>2. CASE RmDir(s) \/ CommandFails(s) \/ Rollback(s) \/ Release(s) \/ Close(s)
      BY <3>2 DEF RmDir, CommandFails, Rollback, Release, Close, GitTypeOK
    <3>3. ~Read(s)
      BY DEF Read, InPlace
    <3>4. CASE ReadFails(s)
      BY <1>2, <3>4 DEF ReadFails, InPlace
    <3>5. ~( \/ Begin(s) \/ OpenSession(s) \/ Lock(s) \/ Wait(s) \/ Pull(s)
             \/ EnsureClean(s) \/ Compare(s) \/ Write(s) \/ WriteFails(s))
      BY <1>2 DEF Begin, OpenSession, Lock, Wait, Pull, EnsureClean, Compare, Write, WriteFails
    <3> QED
      BY <3>1, <3>2, <3>3, <3>4, <3>5 DEF RequestStep
  <2>2. ASSUME s \in remote'.past, result'[s] = "ok"
        PROVE  s \in remote.past /\ result[s] = "ok"
    <3>0. op[s].at \in Replicas /\ (remote' = remote \/ remote' = Clone(s).head)
      BY RequestTypes, HeadEffect
    <3>1. HasCommitted(s)
      BY <2>2, <3>0 DEF PastTellsFiles, Clone
    <3>2. CASE result[s] = "ok"
      BY <2>2, <3>0, <3>2 DEF PastTellsFiles, Clone
    <3>3. CASE result[s] # "ok"
      <4>1. pc[s] = "push" /\ result[s] = "none"
        BY <2>2, <3>1, <3>3, RequestCommitsOnce DEF InPlace
      <4>2. CommandFails(s)
        BY <4>1 DEF RequestStep, Begin, OpenSession, Lock, Wait, Pull, EnsureClean, Compare,
           ReadFails, Write, WriteFails, Build, Kubectl, ToolFails, Diff, AddDir, CommitIndex,
           RmDir, Rollback, Read, Release, Close
      <4> QED
        BY <2>2, <4>1, <4>2 DEF CommandFails, GitTypeOK
    <3> QED
      BY <3>2, <3>3
  <2> QED
    BY <2>1, <2>2 DEF LeftNoTrace
<1> QED
  BY <1>1, <1>2

(* A merge brings what it brings into tree, index and commit alike.        *)
LEMMA MergeKeepsTrees ==
  ASSUME NEW c \in Clones, remote \in Commits, NEW p \in Paths,
         c.index[p] = c.tree[p], c.tree[p] = c.head.files[p]
  PROVE  LET d == Merged(c, remote)
         IN  d.index[p] = d.tree[p] /\ d.tree[p] = d.head.files[p]
<1> DEFINE d == Merged(c, remote)
<1>1. /\ d.head.files[p] =
           IF p \in Incoming(c, remote) THEN remote.files[p] ELSE c.head.files[p]
      /\ LET new == p \in Incoming(c, remote) /\ c.index[p] # remote.files[p]
         IN  /\ d.index[p] = IF new THEN remote.files[p] ELSE c.index[p]
             /\ d.tree[p] = IF new THEN remote.files[p] ELSE c.tree[p]
  BY MergedEffect
<1> HIDE DEF d
<1>2. d.index[p] = d.tree[p] /\ d.tree[p] = d.head.files[p]
  BY <1>1
<1> QED
  BY <1>2 DEF d

(* TreesAreCommitted, for a clone c and an instance, and for a request.    *)
Same(c, n) ==
  LET p == <<n, Kustomization>>
  IN  c.index[p] = c.tree[p] /\ c.tree[p] = c.head.files[p]

Follows(s, c) ==
  /\ c.theirs = NoMerge
  /\ Is(s, "delete") /\ pc[s] \in {"compare", "tools", "kubectl", "rm"} => File(s) \in Tracked(c)
  /\ pc[s] \in {"commit", "push"} => c.index[File(s)] = c.tree[File(s)]
  /\ pc[s] = "push" => c.tree[File(s)] = c.head.files[File(s)]

(* TreesAreCommitted, clone by clone and request by request. *)
LEMMA TreesByRequest ==
  ASSUME exposed = {}
  PROVE  TreesAreCommitted <=>
           /\ \A h \in Replicas, n \in Names :
                clone[h].theirs = NoMerge /\ NoTrace(n, h) => Same(clone[h], n)
           /\ \A s \in Sessions : InSection(s) => Follows(s, Clone(s))
  BY DEF TreesAreCommitted, Same, Follows

(* A request follows its file from the tree to the index to the commit.    *)
LEMMA RequestFollows ==
  ASSUME GitTypeOK, InPlace, PastTellsFiles, NEW s \in Sessions, RequestStep(s),
         InSection(s) => Follows(s, Clone(s)), InSection(s)'
  PROVE  Follows(s, Clone(s))'
<1>h. PICK h \in Replicas : h = op[s].at
  BY RequestTypes
<1> DEFINE c == clone[h]
           d == clone'[h]
<1>0. /\ c \in Clones /\ c = Clone(s) /\ op[s].at = h /\ s \in Committers /\ remote \in Commits
      /\ File(s) \in Of(Name(s)) /\ File(s) \in Paths /\ Name(s) \in Names
      /\ \A e \in Clones : Becomes(s, e) => d = e
      /\ Is(s, "apply") \/ Is(s, "delete") \/ Is(s, "get")
      /\ ~(Is(s, "apply") /\ Is(s, "delete"))
  BY <1>h, RequestTypes, BecomesEffect DEF Clone, Is, GitTypeOK
<1>1. UNCHANGED serverVars
  BY DEF RequestStep, Begin, OpenSession, Lock, Wait, Pull, EnsureClean, Compare,
     ReadFails, Write, WriteFails, Build, Kubectl, ToolFails, Diff, AddDir, CommitIndex,
     Push, RmDir, CommandFails, Rollback, Read, Release, Close
<1>2. /\ Clone(s)' = d /\ File(s)' = File(s) /\ Is(s, "delete")' = Is(s, "delete")
  BY <1>0, <1>1, AskedStays DEF Clone, serverVars
<1> HIDE DEF c, d
<1> USE DEF Goto, Leave, Return
<1>3. CASE Pull(s)
  <2>1. PICK out \in Pulls(c, remote) : Becomes(s, out.clone) /\ out.ok /\ pc'[s] = "clean"
    BY <1>0, <1>3 DEF Pull, InSection, GitTypeOK
  <2>2. d = out.clone
    BY <1>0, <2>1, PullOutcomes
  <2>3. d.theirs = NoMerge
    BY <1>0, <2>1, <2>2, PullOutcomes, MergedEffect
  <2> QED
    BY <1>2, <2>1, <2>3 DEF Follows
<1>4. CASE EnsureClean(s)
  <2>1. /\ pc[s] = "clean" /\ d = c /\ pc'[s] \in {"compare", "write", "tools", "rm"}
        /\ Is(s, "delete") => c.tree[File(s)] # Absent /\ ~Untracked(c, Name(s))
    BY <1>0, <1>4 DEF EnsureClean, AfterClean, AfterCompare, InSection, GitTypeOK, gitVars, c, d
  <2>2. c.theirs = NoMerge
    BY <1>0, <2>1 DEF Follows, InSection
  <2>3. Is(s, "delete") => File(s) \in Tracked(c)
    BY <1>0, <2>1 DEF Untracked, Tracked
  <2> QED
    BY <1>2, <2>1, <2>2, <2>3 DEF Follows
<1>5. CASE Compare(s) \/ Build(s) \/ Kubectl(s) \/ Diff(s)
  <2>1. /\ pc[s] \in {"compare", "tools", "kubectl", "diff"} /\ d = c
        /\ pc'[s] \in {"write", "tools", "kubectl", "diff", "rm", "add"}
        /\ Is(s, "delete") => pc[s] # "diff"
    BY <1>0, <1>5 DEF Compare, Build, Kubectl, Diff, AfterCompare, AfterTools, InSection,
       GitTypeOK, gitVars, InPlace, c, d
  <2> QED
    BY <1>0, <1>2, <2>1 DEF Follows, InSection
<1>6. CASE Write(s)
  <2>1. /\ pc[s] = "write" /\ ~Is(s, "delete") /\ pc'[s] \in {"diff", "tools"}
    BY <1>0, <1>6 DEF Write, GitTypeOK, InPlace
  <2>2. d.theirs = c.theirs
    BY <1>0, <1>6, RequestTypes, WrittenEffect DEF Write, SameCommits
  <2> QED
    BY <1>0, <1>2, <2>1, <2>2 DEF Follows, InSection
<1>7. CASE AddDir(s)
  <2>1. pc[s] = "add" /\ pc'[s] = "commit" /\ d = Add(c, Name(s))
    BY <1>0, <1>7, AddEffect DEF AddDir, GitTypeOK
  <2>2. d.theirs = c.theirs /\ d.index[File(s)] = d.tree[File(s)]
    BY <1>0, <2>1, AddEffect DEF SameCommits
  <2> QED
    BY <1>0, <1>2, <2>1, <2>2 DEF Follows, InSection
<1>8. CASE RmDir(s)
  <2>1. pc[s] = "rm" /\ pc'[s] = "commit" /\ d = Rm(c, Name(s)) /\ Is(s, "delete")
    BY <1>0, <1>8, RmEffect DEF RmDir, GitTypeOK, InPlace
  <2>2. c.theirs = NoMerge /\ File(s) \in Tracked(c)
    BY <1>0, <2>1 DEF Follows, InSection
  <2>3. d.theirs = c.theirs /\ d.index[File(s)] = d.tree[File(s)]
    BY <1>0, <2>1, <2>2, RmEffect DEF SameCommits
  <2> QED
    BY <1>2, <2>1, <2>2, <2>3 DEF Follows
<1>9. CASE CommitIndex(s)
  <2>1. pc[s] = "commit" /\ pc'[s] = "push" /\ d = Commit(c, s)
    BY <1>0, <1>9, CommitEffect DEF CommitIndex, GitTypeOK
  <2>2. /\ d.theirs = NoMerge /\ d.index = c.index /\ d.tree = c.tree
        /\ d.head.files = c.index
    BY <1>0, <2>1, CommitEffect
  <2> QED
    BY <1>0, <1>2, <2>1, <2>2 DEF Follows, InSection
<1>10. CASE CommandFails(s)
  <2>1. pc[s] \in {"add", "commit", "push", "rm"} /\ pc'[s] = "rollback"
    BY <1>0, <1>10 DEF CommandFails, GitTypeOK, InSection
  <2>2. d = c \/ d = Pushed(c)
    BY <1>0, <1>10, PushedEffect DEF CommandFails, gitVars, c, d
  <2> QED
    BY <1>0, <1>2, <2>1, <2>2, PushedEffect DEF Follows, InSection
<1> QED
  BY <1>3, <1>4, <1>5, <1>6, <1>7, <1>8, <1>9, <1>10 DEF RequestStep, Begin, OpenSession, Lock,
     Wait, ReadFails, WriteFails, ToolFails, Push, Rollback, Read, Release, Close,
     InSection, GitTypeOK

(* Requests keep an instance they have left no trace of as it is committed. *)
LEMMA RequestKeepsSame ==
  ASSUME GitTypeOK, MutexTypeOK, InPlace, PastTellsFiles, TreesAreCommitted, exposed = {},
         NEW s \in Sessions, RequestStep(s),
         NEW n \in Names, clone'[op[s].at].theirs = NoMerge, NoTrace(n, op[s].at)'
  PROVE  Same(clone'[op[s].at], n)
<1>h. PICK h \in Replicas : h = op[s].at
  BY RequestTypes
<1> DEFINE c == clone[h]
           d == clone'[h]
           p == <<n, Kustomization>>
<1>0. /\ c \in Clones /\ c = Clone(s) /\ s \in Committers /\ remote \in Commits
      /\ p \in Paths /\ File(s) \in Of(Name(s)) /\ op[s].at = h
      /\ n # Name(s) => p \notin Of(Name(s))
      /\ n = Name(s) => p = File(s)
      /\ UNCHANGED serverVars
  <2>1. UNCHANGED serverVars
    BY RequestsAreLocal
  <2> QED
    BY <1>h, <2>1, RequestTypes, PathsOfNames DEF Clone, File, GitTypeOK
<1>1. \A t \in Sessions : Name(t) = n /\ op[t].at = h /\ ~Is(t, "get") => LeftNoTrace(t)'
  BY <1>0 DEF NoTrace, serverVars, Name, Is
<1>2. InSection(s) => Follows(s, c)
  BY <1>0, TreesByRequest
<1>3. c.theirs = NoMerge /\ NoTrace(n, h) => Same(c, n)
  BY TreesByRequest
<1> HIDE DEF c, d, p
<1> SUFFICES Same(d, n)
  BY <1>0 DEF d
<1>4. ~Push(s) => NoTrace(n, h)
  BY <1>1, TracesStay, TracesOfOthersStay DEF NoTrace
<1>5. CASE Push(s)
  <2>1. d = Pushed(c) /\ InSection(s) /\ pc[s] = "push"
    BY <1>0, <1>5, BecomesEffect, PushedEffect DEF Push, InSection, d
  <2>2. Same(c, n)
    <3>1. CASE n = Name(s)
      BY <1>0, <1>2, <2>1, <3>1 DEF Follows, Same, p
    <3>2. CASE n # Name(s)
      <4>1. NoTrace(n, h)
        BY <1>1, <3>2, TracesOfOthersStay DEF NoTrace
      <4> QED
        BY <1>2, <1>3, <2>1, <4>1 DEF Follows
    <3> QED
      BY <3>1, <3>2
  <2> QED
    BY <1>0, <2>1, <2>2, PushedEffect DEF Same
<1>6. CASE ~Push(s) /\ WorksOn(s, d)
  <2>1. d.theirs = c.theirs /\ d.head = c.head /\ d.theirs = NoMerge
    BY <1>0, <1>6 DEF WorksOn, SameCommits, d
  <2>2. Same(c, n)
    BY <1>3, <1>4, <1>6, <2>1
  <2>3. CASE d = c \/ d = Pushed(c)
    BY <1>0, <2>2, <2>3, PushedEffect DEF Same
  <2>4. CASE /\ pc'[s] \in {"tools", "diff", "commit", "unlock", "done"}
             /\ result'[s] \in {"none", "failed"}
             /\ ~Is(s, "get")
             /\ \A q \in Paths \ Of(Name(s)) : d.index[q] = c.index[q] /\ d.tree[q] = c.tree[q]
    <3>1. n # Name(s)
      BY <1>0, <1>1, <2>4 DEF LeftNoTrace
    <3> QED
      BY <1>0, <2>1, <2>2, <2>4, <3>1 DEF Same, p
  <2> QED
    BY <1>0, <1>6, <2>3, <2>4, WorkLeavesTraces DEF d
<1>7. CASE ~Push(s) /\ PullsInto(s, d)
  <2>1. (d = Merged(c, remote) \/ d = Stopped(c, remote)) /\ c.theirs = NoMerge
    BY <1>0, <1>7 DEF PullsInto
  <2>2. d # Stopped(c, remote)
    BY <1>0, StoppedEffect, GitTreeAssumption DEF d
  <2>3. Same(c, n)
    BY <1>3, <1>4, <1>7, <2>1
  <2> QED
    BY <1>0, <2>1, <2>2, <2>3, MergeKeepsTrees DEF Same, p
<1>8. CASE CommitsTo(s, d)
  <2>1. /\ d = Commit(c, s) /\ pc[s] = "commit" /\ pc'[s] = "push" /\ InSection(s)
    BY <1>0, <1>8 DEF CommitsTo, InSection
  <2>2. ~Push(s) /\ CommitIndex(s)
    BY <2>1 DEF RequestStep, Begin, OpenSession, Lock, Wait, Pull, EnsureClean, Compare,
       ReadFails, Write, WriteFails, Build, Kubectl, ToolFails, Diff, AddDir,
       Push, RmDir, CommandFails, Rollback, Read, Release, Close, Goto, Leave, GitTypeOK
  <2>3. n # Name(s)
    <3>1. result'[s] = "none" /\ ~Is(s, "get")
      BY <2>1, <2>2 DEF CommitIndex, InPlace
    <3> QED
      BY <1>0, <1>1, <2>1, <3>1 DEF LeftNoTrace
  <2>4. Same(c, n)
    BY <1>2, <1>3, <1>4, <2>1, <2>2 DEF Follows
  <2> QED
    BY <1>0, <2>1, <2>4, CommitEffect DEF Same
<1>9. CASE ~Push(s) /\ PushesOut(s, d)
  <2>1. d = Pushed(c) /\ InSection(s)
    BY <1>0, <1>9 DEF PushesOut, InSection
  <2>2. Same(c, n)
    BY <1>2, <1>3, <1>4, <1>9, <2>1 DEF Follows
  <2> QED
    BY <1>0, <2>1, <2>2, PushedEffect DEF Same
<1> QED
  BY <1>0, <1>5, <1>6, <1>7, <1>8, <1>9, RequestOnClones DEF d

(* A step of a request changes the files of its own instance, and is then  *)
(* a trace of it, or commits them, or takes what the remote has.           *)
LEMMA RequestKeepsTrees ==
  ASSUME GitTypeOK, MutexTypeOK, InPlace, SharersAreExposed, PastTellsFiles, TreesAreCommitted,
         NEW s \in Sessions, RequestStep(s)
  PROVE  TreesAreCommitted'
<1> SUFFICES ASSUME exposed' = {} PROVE TreesAreCommitted'
  BY DEF TreesAreCommitted
<1>0. exposed = {} /\ UNCHANGED serverVars /\ op[s].at \in Replicas
  BY RequestsAreLocal, RequestTypes
<1>1. ASSUME NEW h \in Replicas, NEW n \in Names, clone'[h].theirs = NoMerge, NoTrace(n, h)'
      PROVE  Same(clone'[h], n)
  <2>1. CASE h = op[s].at
    <3>1. clone'[op[s].at].theirs = NoMerge /\ NoTrace(n, op[s].at)'
      BY <1>0, <1>1, <2>1 DEF NoTrace, serverVars
    <3>2. Same(clone'[op[s].at], n)
      BY <1>0, <3>1, RequestKeepsSame
    <3> QED
      BY <2>1, <3>2
  <2>2. CASE h # op[s].at
    <3>1. clone'[h] = clone[h]
      BY <2>2, RequestOnClones
    <3>2. \A t \in Sessions \ {s} : LeftNoTrace(t)' => LeftNoTrace(t)
      BY TracesOfOthersStay
    <3>3. NoTrace(n, h)
      BY <1>0, <1>1, <2>2, <3>2 DEF NoTrace, serverVars, Name, Is
    <3> QED
      BY <1>0, <1>1, <3>1, <3>3, TreesByRequest
  <2> QED
    BY <2>1, <2>2
<1>2. ASSUME NEW t \in Sessions, InSection(t)' PROVE Follows(t, Clone(t))'
  <2>1. \A u \in Sessions : InSection(u) => Follows(u, Clone(u))
    BY <1>0, TreesByRequest
  <2>2. CASE t = s
    BY <1>2, <2>1, <2>2, RequestFollows
  <2>3. CASE t # s
    <3>1. pc'[t] = pc[t] /\ InSection(t)
      BY <1>2, <2>3, RequestsAreLocal DEF InSection
    <3>2. Clone(t)' = Clone(t)
      BY <2>3, <3>1, OthersKeepClone
    <3>3. File(t)' = File(t) /\ Is(t, "delete")' = Is(t, "delete") /\ Follows(t, Clone(t))
      BY <1>0, <2>1, <3>1, AskedStays
    <3> QED
      BY <3>1, <3>2, <3>3 DEF Follows
  <2> QED
    BY <2>2, <2>3
<1> QED
  BY <1>1, <1>2 DEF TreesAreCommitted, Same, Follows

-----------------------------------------------------------------------------
(* The invariant. *)

(* A step of any request. *)
LEMMA RequestKeepsInv ==
  ASSUME GitInv, NEW s \in Sessions, RequestStep(s)
  PROVE  GitInv'
<1>0. /\ GitTypeOK /\ MutexInv /\ MutexTypeOK /\ InPlace /\ SharersAreExposed
      /\ PastTellsFiles /\ LevelClones /\ OwnChange /\ RejectedStaysOut
      /\ IndexesAreAccepted /\ TreesAreCommitted
  BY DEF GitInv, MutexInv
<1>1. GitTypeOK'
  BY <1>0, RequestTypeStep
<1>2. MutexInv'
  BY <1>0, RequestsUseLock, MutexInvStep
<1>3. InPlace'
  BY <1>0, RequestInPlace
<1>4. SharersAreExposed'
  BY <1>0, RequestExposes
<1>5. PastTellsFiles'
  BY <1>0, RequestKeepsPasts
<1>6. LevelClones' /\ OwnChange'
  BY <1>0, <1>5, RequestKeepsLevel
<1>7. RejectedStaysOut' /\ IndexesAreAccepted'
  BY <1>0, RequestKeepsRejectedOut
<1>8. TreesAreCommitted'
  BY <1>0, RequestKeepsTrees
<1> QED
  BY <1>1, <1>2, <1>3, <1>4, <1>5, <1>6, <1>7, <1>8 DEF GitInv

(* A step that touches no clone, and stops requests at most.               *)
LEMMA StoppingKeepsInv ==
  ASSUME GitInv, GitTypeOK', MutexInv', InPlace',
         UNCHANGED <<gitVars, gitKey, op, result, got, historyVars>>,
         \A t \in Sessions : pc'[t] = pc[t] \/ pc'[t] = "crashed"
  PROVE  GitInv'
<1> USE DEF GitInv, gitVars, historyVars
<1>0. \A t \in Sessions :
        /\ Clone(t)' = Clone(t) /\ Name(t)' = Name(t) /\ Content(t)' = Content(t)
        /\ File(t)' = File(t) /\ Is(t, "apply")' = Is(t, "apply")
        /\ Is(t, "delete")' = Is(t, "delete") /\ Is(t, "get")' = Is(t, "get")
        /\ Alone(t)' = Alone(t)
        /\ InSection(t)' => InSection(t) /\ pc'[t] = pc[t]
        /\ HasCommitted(t) => HasCommitted(t)'
        /\ LeftNoTrace(t)' => LeftNoTrace(t)
  BY DEF Clone, Name, Content, File, Is, Alone, InSection, HasCommitted, LeftNoTrace
<1>1. SharersAreExposed'
  BY <1>0 DEF SharersAreExposed
<1>2. PastTellsFiles'
  <2>1. \A h \in Replicas : clone[h].head.past \subseteq Sessions
    BY CloneFields, GitAssumption DEF GitTypeOK
  <2>2. remote.past \subseteq Sessions
    BY GitAssumption DEF GitTypeOK, Commits
  <2>3. ASSUME NEW h \in Replicas PROVE ClonePast(h)'
    BY <1>0, <2>1, <2>3, PastByClone DEF ClonePast
  <2>4. \A t \in Sessions : pc'[t] = "push" => t \in Clone(t)'.head.past
    BY <1>0, PastByClone
  <2>5. \A t \in remote'.past : HasCommitted(t)'
    BY <1>0, <2>2, PastByClone
  <2> QED
    BY <2>3, <2>4, <2>5 DEF PastTellsFiles, ClonePast
<1>3. LevelClones' /\ OwnChange'
  <2>1. ASSUME NEW t \in Sessions, InSection(t)', Alone(t)'
        PROVE  Level(t, Clone(t))' /\ Own(t, Clone(t))'
    <3>1. Level(t, Clone(t)) /\ Own(t, Clone(t)) /\ pc'[t] = pc[t]
      BY <1>0, <2>1, AloneByRequest
    <3>2. Level(t, Clone(t))'
      BY <1>0, <3>1 DEF Level
    <3>3. Own(t, Clone(t))'
      BY <1>0, <3>1 DEF Own, Asked, Gone
    <3> QED
      BY <3>2, <3>3
  <2> QED
    BY <2>1 DEF LevelClones, OwnChange, Level, Own, Asked, Gone
<1>4. RejectedStaysOut'
  BY DEF RejectedStaysOut
<1>5. IndexesAreAccepted'
  BY <1>0 DEF IndexesAreAccepted
<1>6. TreesAreCommitted'
  <2> SUFFICES ASSUME exposed = {} PROVE TreesAreCommitted'
    BY DEF TreesAreCommitted
  <2>1. ASSUME NEW h \in Replicas, NEW n \in Names, NoTrace(n, h)'
        PROVE  NoTrace(n, h)
    BY <1>0, <2>1 DEF NoTrace
  <2>2. \A h \in Replicas, n \in Names :
          clone'[h].theirs = NoMerge /\ NoTrace(n, h)' => Same(clone'[h], n)
    BY <2>1, TreesByRequest
  <2>3. ASSUME NEW t \in Sessions, InSection(t)' PROVE Follows(t, Clone(t))'
    <3>1. Follows(t, Clone(t)) /\ pc'[t] = pc[t]
      BY <1>0, <2>3, TreesByRequest
    <3> QED
      BY <1>0, <3>1 DEF Follows
  <2> QED
    BY <2>2, <2>3 DEF TreesAreCommitted, Same, Follows
<1> QED
  BY <1>1, <1>2, <1>3, <1>4, <1>5, <1>6

(* A lease runs out under a request, which does not notice. *)
LEMMA LeaseKeepsInv ==
  ASSUME GitInv, NEW s \in Sessions, LeaseStep(s)
  PROVE  GitInv'
<1>1. UNCHANGED <<mutex, onLock>>
  BY DEF LeaseStep, LoseKeepAlive, Expire
<1>2. MutexInv'
  BY MutexInvStep DEF LeaseStep, MutexNext, SessionStep, GitInv
<1>3. UNCHANGED <<gitVars, serverVars, pc, result, got, historyVars>>
  BY DEF LeaseStep
<1>4. GitTypeOK'
  BY <1>3 DEF GitInv, GitTypeOK, gitVars, serverVars, historyVars
<1>5. InPlace'
  BY <1>1, <1>3 DEF GitInv, InPlace, serverVars, historyVars, InFlight, InSection, Is, Locking, Key
<1> QED
  BY <1>2, <1>3, <1>4, <1>5, StoppingKeepsInv DEF serverVars

(* Requests die with their replica, in whatever state they leave its clone. *)
LEMMA CrashKeepsInv ==
  ASSUME GitInv, NEW h \in Replicas, Crash(h)
  PROVE  GitInv'
<1> DEFINE dying == {s \in Sessions : InFlight(s) /\ op[s].at = h}
<1>0. /\ up' = up \ {h}
      /\ pc' = [s \in Sessions |-> IF s \in dying THEN "crashed" ELSE pc[s]]
      /\ CrashSessions(dying)
      /\ UNCHANGED <<gitVars, gitKey, op, result, got, historyVars>>
  BY DEF Crash
<1>1. \A t \in Sessions : t \notin dying => pc'[t] = pc[t] /\ mutex'[t] = mutex[t]
  BY <1>0 DEF CrashSessions
<1>2. \A t \in dying : pc'[t] = "crashed"
  BY <1>0
<1>3. MutexInv'
  <2>1. dying \in SUBSET Sessions
    OBVIOUS
  <2> QED
    BY <1>0, <2>1, MutexInvStep DEF MutexNext, GitInv
<1>4. GitTypeOK'
  BY <1>0, <1>1, <1>2 DEF GitInv, GitTypeOK, gitVars, historyVars, Steps
<1>5. ASSUME NEW t \in Sessions \ dying, InFlight(t) PROVE op[t].at \in up'
  BY <1>0, <1>5 DEF GitInv, InPlace
<1>6. InPlace'
  <2>1. UNCHANGED <<onLock, gitKey, op, result, sound>>
    BY <1>0 DEF CrashSessions, historyVars
  <2> HIDE DEF dying
  <2> QED
    BY <1>1, <1>2, <1>5, <2>1 DEF GitInv, InPlace, InFlight, InSection, Is, Locking, Key
<1> QED
  BY <1>0, <1>1, <1>2, <1>3, <1>4, <1>6, StoppingKeepsInv

(* A replica that starts pulls into a clone in which nobody works.         *)
LEMMA RestartKeepsInv ==
  ASSUME GitInv, NEW h \in Replicas, Restart(h)
  PROVE  GitInv'
<1> DEFINE c == clone[h]
           d == clone'[h]
<1>0. /\ GitTypeOK /\ MutexInv /\ InPlace /\ SharersAreExposed /\ PastTellsFiles
      /\ LevelClones /\ OwnChange /\ RejectedStaysOut /\ IndexesAreAccepted
      /\ TreesAreCommitted /\ c \in Clones /\ remote \in Commits
  BY DEF GitInv, GitTypeOK
<1>1. /\ h \notin up /\ up \subseteq up' /\ up' \subseteq Replicas
      /\ UNCHANGED <<mutexVars, remote, gitKey, op, pc, result, got, historyVars>>
      /\ \A i \in Replicas \ {h} : clone'[i] = clone[i]
      /\ clone' \in [Replicas -> Clones] /\ c.unmerged = {}
      /\ \/ d = c
         \/ d = Merged(c, remote) /\ c.theirs = NoMerge
         \/ d = Stopped(c, remote) /\ c.theirs = NoMerge
  <2>1. PICK out \in Pulls(c, remote) :
          /\ clone' = [clone EXCEPT ![h] = out.clone]
          /\ up' = IF out.ok THEN up \cup {h} ELSE up
    BY DEF Restart
  <2>2. d = out.clone
    BY <1>0, <2>1 DEF GitTypeOK
  <2>3. /\ out.clone \in Clones
        /\ \/ out.clone = c
           \/ out.clone = Merged(c, remote) /\ c.theirs = NoMerge
           \/ out.clone = Stopped(c, remote) /\ c.theirs = NoMerge
    BY <1>0, PullOutcomes
  <2> HIDE DEF d
  <2> QED
    BY <1>0, <2>1, <2>2, <2>3 DEF Restart, GitTypeOK
<1>2. \A t \in Sessions :
        /\ InFlight(t) => op[t].at # h /\ Clone(t)' = Clone(t)
        /\ Name(t)' = Name(t) /\ Content(t)' = Content(t)
        /\ File(t)' = File(t) /\ Is(t, "apply")' = Is(t, "apply")
        /\ Is(t, "delete")' = Is(t, "delete") /\ Is(t, "get")' = Is(t, "get")
        /\ Alone(t)' = Alone(t) /\ InSection(t)' = InSection(t)
        /\ InSection(t) => InFlight(t)
        /\ HasCommitted(t)' = HasCommitted(t)
        /\ LeftNoTrace(t)' = LeftNoTrace(t)
  <2>1. ASSUME NEW t \in Sessions, InFlight(t) PROVE op[t].at # h /\ Clone(t)' = Clone(t)
    <3>1. op[t].at # h
      BY <1>0, <1>1, <2>1 DEF InPlace
    <3>2. op[t].at \in Replicas
      BY <1>0, RequestTypes
    <3> QED
      BY <1>1, <3>1, <3>2 DEF Clone
  <2> QED
    BY <1>1, <2>1 DEF Name, Content, File, Is, Alone, InSection, InFlight,
       HasCommitted, LeftNoTrace, historyVars
<1> HIDE DEF c, d
<1>3. MutexInv'
  BY <1>0, <1>1, MutexInvStep
<1>4. GitTypeOK'
  BY <1>0, <1>1 DEF GitTypeOK, historyVars
<1>5. InPlace'
  BY <1>0, <1>1 DEF InPlace, InFlight, InSection, Is, Locking, Key, historyVars, mutexVars
<1>6. SharersAreExposed'
  BY <1>0, <1>1, <1>2 DEF SharersAreExposed, historyVars
<1>7. PastTellsFiles'
  <2>1. CASE d = c
    <3>1. clone' = clone
      <4>1. \A i \in Replicas : clone'[i] = clone[i]
        BY <1>1, <2>1 DEF c, d
      <4> QED
        BY <1>0, <1>1, <4>1 DEF GitTypeOK
    <3>2. remote.past \subseteq Sessions /\ \A i \in Replicas : clone[i].head.past \subseteq Sessions
      BY <1>0, CloneFields, GitAssumption DEF GitTypeOK, Commits
    <3>3. \A i \in Replicas : ClonePast(i)'
      BY <1>0, <1>1, <1>2, <3>1, <3>2, PastByClone DEF ClonePast
    <3>4. \A t \in Sessions : pc'[t] = "push" => t \in Clone(t)'.head.past
      BY <1>0, <1>1, <1>2, <3>1, PastByClone DEF Clone
    <3> QED
      BY <1>0, <1>1, <1>2, <3>2, <3>3, <3>4 DEF PastTellsFiles, ClonePast
  <2>2. CASE c.theirs = NoMerge
    BY <1>0, <1>1, <1>2, <2>2, MergeKeepsPasts DEF c, d
  <2> QED
    BY <1>1, <2>1, <2>2
<1>8. LevelClones' /\ OwnChange'
  <2>1. ASSUME NEW t \in Sessions, InSection(t)', Alone(t)'
        PROVE  Level(t, Clone(t))' /\ Own(t, Clone(t))'
    <3>1. /\ Level(t, Clone(t)) /\ Own(t, Clone(t)) /\ Clone(t)' = Clone(t)
          /\ pc'[t] = pc[t] /\ op'[t] = op[t] /\ remote' = remote
      BY <1>0, <1>1, <1>2, <2>1, AloneByRequest
    <3>2. Level(t, Clone(t))'
      BY <1>2, <3>1 DEF Level
    <3>3. Own(t, Clone(t))'
      BY <1>2, <3>1 DEF Own, Asked, Gone
    <3> QED
      BY <3>2, <3>3
  <2> QED
    BY <2>1 DEF LevelClones, OwnChange, Level, Own, Asked, Gone
<1>9. RejectedStaysOut' /\ IndexesAreAccepted'
  <2> SUFFICES ASSUME Mode # "none", exposed = {}
               PROVE  RejectedStaysOut' /\ IndexesAreAccepted'
    BY <1>1 DEF RejectedStaysOut, IndexesAreAccepted, historyVars
  <2> DEFINE Accepted(snap) == \A n \in Names : snap[<<n, Kustomization>>] \notin Rejected
  <2>1. /\ Accepted(remote.files)
        /\ \A i \in Replicas : Accepted(clone[i].head.files) /\ Accepted(clone[i].index)
        /\ \A t \in Sessions :
             pc[t] \in {"kubectl", "diff", "add"} => Clone(t).tree[File(t)] \notin Rejected
    BY <1>0 DEF RejectedStaysOut, IndexesAreAccepted
  <2>2. \A p \in Paths : /\ d.index[p] \in {c.index[p], remote.files[p]}
                         /\ d.head.files[p] \in {c.head.files[p], remote.files[p]}
    <3>1. CASE d = c
      BY <3>1
    <3>2. CASE d = Merged(c, remote)
      BY <1>0, <3>2, MergedEffect
    <3>3. CASE d = Stopped(c, remote)
      BY <1>0, <3>3, StoppedEffect
    <3> QED
      BY <1>1, <3>1, <3>2, <3>3
  <2>3. Accepted(d.index) /\ Accepted(d.head.files)
    <3>1. \A n \in Names : <<n, Kustomization>> \in Paths
      BY PathsOfNames
    <3> QED
      BY <2>1, <2>2, <3>1 DEF c
  <2>4. \A i \in Replicas : Accepted(clone'[i].head.files) /\ Accepted(clone'[i].index)
    BY <1>1, <2>1, <2>3 DEF d
  <2>5. ASSUME NEW t \in Sessions, pc'[t] \in {"kubectl", "diff", "add"}
        PROVE  Clone(t)'.tree[File(t)'] \notin Rejected
    BY <1>1, <1>2, <2>1, <2>5 DEF InFlight
  <2>6. RejectedStaysOut'
    BY <1>1, <2>1, <2>4 DEF RejectedStaysOut
  <2>7. IndexesAreAccepted'
    BY <2>4, <2>5 DEF IndexesAreAccepted
  <2> QED
    BY <2>6, <2>7
<1>10. TreesAreCommitted'
  <2> SUFFICES ASSUME exposed = {} PROVE TreesAreCommitted'
    BY <1>1 DEF TreesAreCommitted, historyVars
  <2>1. ASSUME NEW i \in Replicas, NEW n \in Names, clone'[i].theirs = NoMerge, NoTrace(n, i)'
        PROVE  Same(clone'[i], n)
    <3>1. NoTrace(n, i)
      BY <1>1, <1>2, <2>1 DEF NoTrace
    <3>2. CASE i # h
      BY <1>0, <1>1, <2>1, <3>1, <3>2, TreesByRequest
    <3>3. CASE i = h
      <4>1. d # Stopped(c, remote) \/ d = c
        BY <1>0, <2>1, <3>3, StoppedEffect, GitTreeAssumption DEF d
      <4>2. c.theirs = NoMerge => Same(c, n)
        BY <1>0, <3>1, <3>3, TreesByRequest DEF c
      <4>3. CASE d = c
        BY <2>1, <3>3, <4>2, <4>3 DEF d
      <4>4. CASE d = Merged(c, remote) /\ c.theirs = NoMerge
        <5>1. <<n, Kustomization>> \in Paths
          BY PathsOfNames
        <5> QED
          BY <1>0, <3>3, <4>2, <4>4, <5>1, MergeKeepsTrees DEF Same, d
      <4> QED
        BY <1>1, <4>1, <4>3, <4>4
    <3> QED
      BY <3>2, <3>3
  <2>2. ASSUME NEW t \in Sessions, InSection(t)' PROVE Follows(t, Clone(t))'
    <3>1. Follows(t, Clone(t)) /\ Clone(t)' = Clone(t) /\ pc'[t] = pc[t]
      BY <1>0, <1>1, <1>2, <2>2, TreesByRequest
    <3> QED
      BY <1>2, <3>1 DEF Follows
  <2> QED
    BY <2>1, <2>2 DEF TreesAreCommitted, Same, Follows
<1> QED
  BY <1>3, <1>4, <1>5, <1>6, <1>7, <1>8, <1>9, <1>10 DEF GitInv

(* At first all clones are as the remote is, and nobody has begun.         *)
LEMMA GitInitInv == GitInit => GitInv
<1> SUFFICES ASSUME GitInit PROVE GitInv
  OBVIOUS
<1>1. PICK start \in Starts : remote = [past |-> {}, files |-> start]
  BY DEF GitInit
<1>2. /\ remote \in Commits /\ remote.past = {} /\ remote.files = start
      /\ \A h \in Replicas : clone[h] = Fresh(remote)
      /\ clone \in [Replicas -> Clones]
      /\ \A n \in Names : start[<<n, Kustomization>>] \notin Rejected
  <2>1. remote \in Commits /\ remote.past = {} /\ remote.files = start
    BY <1>1, GitAssumption DEF Commits
  <2>2. clone = [h \in Replicas |-> Fresh(remote)] /\ Fresh(remote) \in Clones
    BY <2>1, FreshTypes DEF GitInit
  <2> QED
    BY <2>1, <2>2, GitAssumption
<1>3. \A h \in Replicas :
        LET c == clone[h]
        IN  /\ c.head = remote /\ c.base = start /\ c.index = start /\ c.tree = start
            /\ c.theirs = NoMerge /\ c.unmerged = {}
  BY <1>2 DEF Fresh
<1>4. \A s \in Sessions : pc[s] = "idle" /\ result[s] = "none"
  BY DEF GitInit
<1>5. GitTypeOK
  BY <1>2, GitAssumption, ContentTypes DEF GitInit, GitTypeOK, Steps, Results
<1>6. MutexInv
  BY MutexInitInv DEF GitInit
<1>7. InPlace
  BY <1>4, <1>5, RequestTypes DEF GitInit, InPlace, InFlight, InSection
<1>8. SharersAreExposed /\ LevelClones /\ OwnChange
  BY <1>4 DEF SharersAreExposed, LevelClones, OwnChange, InSection
<1>9. PastTellsFiles
  <2>1. ASSUME NEW h \in Replicas PROVE ClonePast(h)
    BY <1>2, <1>3, <2>1 DEF ClonePast
  <2> QED
    BY <1>2, <1>4, <2>1, PastByClone
<1>10. RejectedStaysOut /\ IndexesAreAccepted
  BY <1>2, <1>3, <1>4 DEF RejectedStaysOut, IndexesAreAccepted
<1>11. TreesAreCommitted
  BY <1>2, <1>3, <1>4 DEF TreesAreCommitted, InSection
<1> QED
  BY <1>5, <1>6, <1>7, <1>8, <1>9, <1>10, <1>11 DEF GitInv

(* Every step preserves the whole invariant.                               *)
LEMMA GitInvStep == GitInv /\ [GitNext]_vars => GitInv'
<1> SUFFICES ASSUME GitInv, [GitNext]_vars PROVE GitInv'
  OBVIOUS
<1>1. CASE UNCHANGED vars
  <2>1. UNCHANGED <<gitVars, serverVars, pc, result, got, historyVars, mutexVars>>
    BY <1>1 DEF vars
  <2>2. MutexInv'
    BY <2>1, MutexInvStep DEF GitInv
  <2>3. GitTypeOK'
    BY <2>1 DEF GitInv, GitTypeOK, gitVars, serverVars, historyVars
  <2>4. InPlace'
    BY <2>1 DEF GitInv, InPlace, serverVars, historyVars, mutexVars, InFlight, InSection, Is,
       Locking, Key
  <2> QED
    BY <2>1, <2>2, <2>3, <2>4, StoppingKeepsInv DEF serverVars
<1> QED
  BY <1>1, RequestKeepsInv, LeaseKeepsInv, CrashKeepsInv, RestartKeepsInv DEF GitNext

(* In every reachable state: two requests at work in one clone are both    *)
(* exposed, clones share no unpushed commit, a clone in which one request  *)
(* works alone is level with the remote but for that request's change, and *)
(* an instance nobody has left a trace of is in tree and index as it is    *)
(* committed; whatever fails, crashes, expires or is left behind.          *)
THEOREM GitInvariance == GitSpec => []GitInv
<1>1. GitInit => GitInv
  BY GitInitInv
<1>2. GitInv /\ [GitNext]_vars => GitInv'
  BY GitInvStep
<1> QED
  BY <1>1, <1>2, PTL DEF GitSpec

-----------------------------------------------------------------------------
(* What follows. *)

(* Requests that took one lock, and still have their keys, are in their    *)
(* sections one at a time.                                                 *)
THEOREM GitLockedSections == GitSpec => []LockedSections
<1>1. GitInv => LockedSections
  BY InvExcludes DEF GitInv, InPlace, LockedSections, Exclusion, Holds
<1> QED
  BY <1>1, GitInvariance, PTL

(* What the tools reject is in no commit, as long as no two requests were  *)
(* at work in one clone.                                                   *)
THEOREM GitRejectedStaysOut == GitSpec => []RejectedStaysOut
<1>1. GitInv => RejectedStaysOut
  BY DEF GitInv
<1> QED
  BY <1>1, GitInvariance, PTL

(* A request is answered, and moves the remote, by its own steps only.     *)
LEMMA OwnStep ==
  ASSUME GitInv, [GitNext]_vars, NEW s \in Sessions,
         result'[s] # result[s] \/ (pc'[s] # pc[s] /\ remote' # remote)
  PROVE  RequestStep(s)
<1>0. GitTypeOK /\ MutexTypeOK
  BY DEF GitInv, MutexInv
<1>1. ASSUME NEW t \in Sessions, RequestStep(t), t # s PROVE FALSE
  BY <1>0, <1>1, RequestsAreLocal
<1>2. ASSUME NEW t \in Sessions, LeaseStep(t) PROVE FALSE
  BY <1>2 DEF LeaseStep, gitVars
<1>3. ASSUME NEW h \in Replicas, Crash(h) PROVE FALSE
  BY <1>3 DEF Crash, gitVars
<1>4. ASSUME NEW h \in Replicas, Restart(h) PROVE FALSE
  BY <1>4 DEF Restart
<1>5. ~UNCHANGED vars
  BY DEF vars, gitVars
<1> QED
  BY <1>1, <1>2, <1>3, <1>4, <1>5 DEF GitNext

(* The push of a request that is alone in a clone that was level with the  *)
(* remote is a compare-and-set of its own instance.                        *)
THEOREM GitReplacesOwn == GitSpec => ReplacesOwn
<1>1. ASSUME GitInv, [GitNext]_vars, NEW s \in Sessions, Pushes(s), Alone(s)
      PROVE  /\ op[s].old # NoOld => remote.files[File(s)] = op[s].old.yaml
             /\ Is(s, "delete") => remote.files[File(s)] # Absent
             /\ \A p \in Paths \ Of(Name(s)) : remote'.files[p] = remote.files[p]
  <2>0. GitTypeOK /\ LevelClones /\ OwnChange
    BY <1>1 DEF GitInv
  <2>1. RequestStep(s) /\ pc[s] = "push" /\ remote' # remote /\ InSection(s)
    BY <1>1, OwnStep DEF Pushes, InSection
  <2>2. CanPush(Clone(s), remote) /\ remote' = Clone(s).head
    BY <2>0, <2>1, RequestOnClones DEF WorksOn, PullsInto, CommitsTo, PushesOut
  <2>3. Level(s, Clone(s)) /\ Own(s, Clone(s))
    BY <1>1, <2>0, <2>1, AloneByRequest
  <2> QED
    BY <2>1, <2>2, <2>3 DEF Level, Own
<1>2. GitInv /\ [GitNext]_vars =>
        [\A s \in Sessions :
           Pushes(s) /\ Alone(s) =>
             /\ op[s].old # NoOld => remote.files[File(s)] = op[s].old.yaml
             /\ Is(s, "delete") => remote.files[File(s)] # Absent
             /\ \A p \in Paths \ Of(Name(s)) : remote'.files[p] = remote.files[p]]_vars
  BY <1>1
<1> QED
  BY <1>2, GitInvariance, PTL DEF GitSpec, ReplacesOwn

(* Such a request is told it succeeded only when the remote has what it    *)
(* asked for.                                                              *)
THEOREM GitOkIsPushed == GitSpec => OkIsPushed
<1> DEFINE Stored(s) ==
      LET c == clone'[op[s].at]
      IN  /\ c.head.past \subseteq remote'.past
          /\ IF Is(s, "apply")
               THEN \A f \in Present(Content(s)) :
                      <<Name(s), f>> \in Tracked(c) =>
                        c.head.files[<<Name(s), f>>] = Content(s)[f]
               ELSE \A p \in Of(Name(s)) : c.head.files[p] = Absent
<1>1. ASSUME GitInv, [GitNext]_vars, NEW s \in Sessions,
             result[s] = "none", result'[s] = "ok", pc[s] \in {"diff", "push"}, Alone(s)
      PROVE  Stored(s)
  <2> DEFINE c == Clone(s)
             d == clone'[op[s].at]
  <2>0. /\ GitTypeOK /\ LevelClones /\ OwnChange /\ InSection(s) /\ c \in Clones
        /\ Is(s, "apply") \/ Is(s, "delete") \/ Is(s, "get")
        /\ ~Is(s, "get") /\ (pc[s] = "diff" => Is(s, "apply"))
    BY <1>1, RequestTypes DEF GitInv, InSection, InPlace, Is
  <2>1. Level(s, c) /\ Own(s, c)
    BY <1>1, <2>0, AloneByRequest
  <2>2. Diff(s) \/ Push(s)
    BY <1>1, <2>0, OwnStep DEF RequestStep, Begin, OpenSession, Lock, Wait, Pull, EnsureClean,
       Compare, ReadFails, Write, WriteFails, Build, Kubectl, ToolFails, AddDir, CommitIndex,
       RmDir, CommandFails, Rollback, Read, Release, Close, Goto, Leave, Return, GitTypeOK
  <2>3. CASE Diff(s)
    <3>1. ~Changed(c) /\ d = c /\ remote' = remote /\ pc[s] = "diff"
      BY <1>1, <2>3 DEF Diff, gitVars, Clone
    <3>2. c.head.past \subseteq remote.past /\ Asked(s, c.tree) /\ Is(s, "apply")
      BY <2>0, <2>1, <3>1 DEF Own
    <3>3. ASSUME NEW f \in Present(Content(s)), <<Name(s), f>> \in Tracked(c)
          PROVE  c.head.files[<<Name(s), f>>] = Content(s)[f]
      <4>1. c.tree[<<Name(s), f>>] = c.head.files[<<Name(s), f>>]
        BY <2>1, <3>1, <3>3 DEF Level, Changed, Tracked
      <4> QED
        BY <3>2, <4>1 DEF Asked
    <3> QED
      BY <3>1, <3>2, <3>3
  <2>4. CASE Push(s)
    <3>1. /\ d = Pushed(c) /\ remote' = c.head /\ pc[s] = "push"
      BY <2>0, <2>4, PushedEffect, BecomesEffect DEF Push
    <3>2. d.head = c.head
      BY <2>0, <3>1, PushedEffect
    <3> QED
      BY <2>0, <2>1, <3>1, <3>2 DEF Own, Asked, Gone
  <2> QED
    BY <2>2, <2>3, <2>4
<1>2. GitInv /\ [GitNext]_vars =>
        [\A s \in Sessions :
           result[s] = "none" /\ result'[s] = "ok" /\ pc[s] \in {"diff", "push"} /\ Alone(s) =>
             Stored(s)]_vars
  BY <1>1
<1> QED
  BY <1>2, GitInvariance, PTL DEF GitSpec, OkIsPushed

(* What a Get returns has been committed, unless somebody has left a trace *)
(* of that instance in the clone, or it is in the middle of a merge.       *)
THEOREM GitGetsWhatIsCommitted == GitSpec => GetsWhatIsCommitted
<1> DEFINE Getting(s) ==
      /\ pc[s] = "read" /\ result'[s] \in {"ok", "absent"}
      /\ exposed = {} /\ Clone(s).theirs = NoMerge
      /\ NoTrace(Name(s), op[s].at)
<1>1. ASSUME GitInv, [GitNext]_vars, NEW s \in Sessions, Getting(s)
      PROVE  got'[s] = Clone(s).head.files[File(s)]
  <2>0. GitTypeOK /\ TreesAreCommitted /\ result[s] = "none" /\ exposed = {}
    BY <1>1 DEF GitInv, InPlace
  <2>1. Name(s) \in Names /\ op[s].at \in Replicas
    BY <2>0, RequestTypes
  <2>2. Same(Clone(s), Name(s))
    BY <1>1, <2>0, <2>1, TreesByRequest DEF Clone
  <2>3. RequestStep(s)
    BY <1>1, <2>0, OwnStep
  <2>4. Read(s)
    BY <1>1, <2>0, <2>3 DEF RequestStep, Begin, OpenSession, Lock, Wait, Pull, EnsureClean,
       Compare, ReadFails, Write, WriteFails, Build, Kubectl, ToolFails, Diff, AddDir,
       CommitIndex, Push, RmDir, CommandFails, Rollback, Release, Close, Goto, Leave, Return,
       GitTypeOK
  <2> QED
    BY <2>0, <2>2, <2>4 DEF Read, Same, File, GitTypeOK
<1>2. GitInv /\ [GitNext]_vars =>
        [\A s \in Sessions : Getting(s) => got'[s] = Clone(s).head.files[File(s)]]_vars
  BY <1>1
<1> QED
  BY <1>2, GitInvariance, PTL DEF GitSpec, GetsWhatIsCommitted

(* With the lock, a request that is at work is exposed only by the pull of *)
(* a Get, or of a request beside which one of the two keys has gone.       *)
THEOREM GitLockKeepsAlone == GitSpec => LockKeepsAlone
<1> DEFINE Excuse(s, t) ==
             /\ op[t].at = op[s].at
             /\ \/ Is(t, "get") /\ pc[t] = "pull" /\ pc'[t] # "pull"
                \/ (InSection(t) \/ pc[t] = "pull") /\ ~(HasKey(s) /\ HasKey(t))
<1>1. ASSUME GitInv, NEW s \in Sessions, NEW t \in Sessions, s # t, op[s].at = op[t].at,
             InSection(s), pc[t] = "pull", ~Is(t, "get"), Locking(s), HasKey(s), HasKey(t)
      PROVE  FALSE
  <2>1. Key(s) = Key(t) /\ Locking(t)
    BY <1>1 DEF Key, Locking
  <2>2. onLock[s] = onLock[t] /\ mutex[s] = "held" /\ mutex[t] = "held"
    BY <1>1, <2>1 DEF GitInv, InPlace
  <2> QED
    BY <1>1, <2>2, InvExcludes DEF GitInv, Exclusion, Holds
<1>2. ASSUME GitInv, NEW t \in Sessions, Pull(t),
             NEW s \in Sessions, s \in exposed' \ exposed, Locking(s)
      PROVE  \E u \in Sessions \ {s} : Excuse(s, u)
  <2>1. pc[t] = "pull" /\ pc'[t] # "pull"
    BY <1>2 DEF GitInv, GitTypeOK, Pull, Goto, Leave
  <2>2. s \in Beside(t) \/ (s = t /\ Beside(t) # {} /\ ~Is(t, "get"))
    BY <1>2 DEF Pull
  <2>3. CASE s \in Beside(t)
    <3>1. InSection(s) /\ s # t /\ op[s].at = op[t].at
      BY <2>3 DEF Beside
    <3>2. Is(t, "get") \/ ~(HasKey(s) /\ HasKey(t))
      BY <1>1, <1>2, <2>1, <3>1
    <3> QED
      BY <2>1, <3>1, <3>2
  <2>4. CASE s = t /\ Beside(t) # {} /\ ~Is(t, "get")
    <3>1. PICK u \in Beside(t) : TRUE
      BY <2>4
    <3>2. u \in Sessions /\ u # s /\ InSection(u) /\ op[u].at = op[s].at
      BY <2>4, <3>1 DEF Beside
    <3>3. Locking(u)
      <4>1. ~Is(u, "get")
        BY <1>2, <3>2 DEF GitInv, InPlace
      <4> QED
        BY <1>2, <3>2, <4>1 DEF Locking, Key
    <3>4. ~(HasKey(s) /\ HasKey(u))
      BY <1>1, <1>2, <2>1, <2>4, <3>2, <3>3
    <3> QED
      BY <3>2, <3>4
  <2> QED
    BY <2>2, <2>3, <2>4
<1>3. ASSUME GitInv, [GitNext]_vars, NEW s \in exposed' \ exposed, Locking(s)
      PROVE  \E t \in Sessions \ {s} : Excuse(s, t)
  <2>1. PICK t \in Sessions : Pull(t)
    <3>1. exposed' # exposed
      BY <1>3
    <3>2. PICK t \in Sessions : RequestStep(t)
      BY <1>3, <3>1 DEF GitNext, LeaseStep, Crash, Restart, vars, historyVars
    <3>3. Pull(t)
      BY <3>1, <3>2 DEF RequestStep, Begin, OpenSession, Lock, Wait, EnsureClean, Compare,
         ReadFails, Write, WriteFails, Build, Kubectl, ToolFails, Diff, AddDir, CommitIndex,
         Push, RmDir, CommandFails, Rollback, Read, Release, Close, historyVars
    <3> QED
      BY <3>3
  <2>2. s \in Sessions
    <3>1. GitTypeOK'
      BY <1>3, GitInvStep DEF GitInv
    <3> QED
      BY <1>3, <3>1 DEF GitTypeOK
  <2> HIDE DEF Excuse
  <2> QED
    BY <1>2, <1>3, <2>1, <2>2
<1>4. GitInv /\ [GitNext]_vars =>
        [\A s \in exposed' \ exposed :
           Locking(s) =>
             \E t \in Sessions \ {s} :
               /\ op[t].at = op[s].at
               /\ \/ Is(t, "get") /\ pc[t] = "pull" /\ pc'[t] # "pull"
                  \/ (InSection(t) \/ pc[t] = "pull") /\ ~(HasKey(s) /\ HasKey(t))]_vars
  BY <1>3
<1> QED
  BY <1>4, GitInvariance, PTL DEF GitSpec, LockKeepsAlone
=============================================================================
