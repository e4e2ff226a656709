# A TLA+ development of hambone

hambone is a gRPC server that applies kustomize configurations ("Instances") to
Kubernetes with `kustomize build | kubectl apply` and keeps them in a State
Store, etcd or git. Its promise is that two clients, on any replicas, cannot
overwrite each other's work, and that what Kubernetes or kustomize rejects does
not end up in the store. This directory models the parts that promise rests on,
checks them with TLC on small instances and proves every safety property so
checked with TLAPS.

Paths below are relative to the repository's root.

## 1. The system

| Component | Code | State it keeps | Operations |
|---|---|---|---|
| Instance requests | `pkg/instances/instances.go`, `server.go` | the request itself; `apiObjects`, `statuses` | `Apply`, `Get`, `Delete`, `KustomizeBuild`, `PipeKustomizeToKubectl`, `LoadStatuses`, `NamesEquate` |
| etcd State Store adapter | `pkg/state/etcd/etcd.go` | keys `hambone_instance_<name>` and `hambone_instance_<name>/<file>`; a client, session, mutex and cleanup list per request | `Init`, `Cancel`, `Commit`, `RunCleanupFuncs` of updater and deleter; `Run` of the getter |
| etcd lock | `GetSessionAndMutex`; `vendor/go.etcd.io/etcd/clientv3/concurrency` | a lease and one key `hambone_instance_<name>-lock/<lease>` per request | `NewSession`, `Lock`, `Unlock`, `Close`; expiry in etcd |
| git State Store adapter | `pkg/state/git/git.go` | per replica one clone: last commit, index, working tree; the remote; optionally one etcd lock for all instances | `Init` (lock, pull, ensure clean, compare, write), `Cancel`, `Commit` (diff, add, commit, push; git rm for a delete), `rollback`; getter (pull, read the tree) |
| Helpers | `pkg/helpers/helpers.go` | the instances directory | `MkdirFile`, `ConvertStartStopToSliceIndexes`, formatting |
| kustomize, kubectl | external programs | the cluster | build, apply, delete, get |
| Server, engines, main | `main.go`, `server.go`, `pkg/state/state.go` | flags, engine choice | start-up, dispatch |
| Templates getters | both adapters | none | the etcd one is a TODO, the git one reads files |

**Interactions.** Each RPC is a goroutine. `Apply` runs `NamesEquate`, the
updater's `Init` (lock, compare `old_instance`, write files), the tools, then
`Commit` and the cleanup functions; a tool's failure calls `Cancel`. `Delete`
does the same with the deleter. Goroutines of one replica share its instances
directory (and, with git, its clone); replicas share etcd and the cluster. The
only communication between requests is through these three, and the lock is all
that keeps them apart.

**What is hard.** The lock rests on a lease renewed under a 30 s context while
the tools have no timeout; every etcd call may fail with or without effect;
commits consist of several calls without a transaction; kubectl cannot be undone;
a process may die anywhere and the server has no shutdown; directories keep the
files of earlier requests; Delete is by prefix. With git, requests of one replica
share an index and a working tree and run their commands in each other's midst;
a failed request leaves changes there, or a commit that was not pushed; replicas'
clones diverge, merge and conflict. PROJECT.json lists each hazard at its line.

**What makes each component correct.** The lock: mutual exclusion for keyed
holders and no waiter stuck behind a dead or hung holder. A request: nobody else
between its comparison and its Commit; it builds its own files; an "ok" is true
of etcd and of the cluster; where the two differ somebody was not told ok; a refusal had its
reason; rejected configurations stay out. Paging: a walk misses and repeats no more than changes under it explain.
The git adapter: a push replaces only what its request has looked at, in its own
instance; an "ok" has reached the remote; what a request leaves behind in a clone
neither gets into another's commit nor into a Get; nobody is stuck behind a pull
or a push that hangs.

## 2. Modules

| Module | What it is | Corresponds to |
|---|---|---|
| `EtcdMutex` | leases, lock keys with revisions, sessions | `GetSessionAndMutex`; concurrency `session.go`, `mutex.go`, `key.go` |
| `Kustomize` | directories, and when kustomize builds them | `kustomize build` as `KustomizeBuild` and `PipeKustomizeToKubectl` use it |
| `EtcdAdapter` | EXTENDS both: Apply and Delete, one action per step or call | `instances.go` `Apply`, `Delete`; `etcdUpdater`, `etcdDeleter`; `MkdirFile` |
| `InstanceStore` | the abstract promise: compare and set per instance | `state.go`; proto `old_instance` |
| `EtcdStore` | the refinement mapping from `EtcdAdapter` to `InstanceStore` | |
| `GitTree` | a clone and what git's commands do to it, as operators | `git.go`'s commands; git itself, as they use it |
| `GitAdapter` | EXTENDS `EtcdMutex` and `GitTree`: Apply, Delete and Get on clones of one remote | `instances.go`; `gitUpdater`, `gitDeleter`, `gitGetter`, `rollback` |
| `Paging` | index arithmetic of a page, and a client walking pages | `ConvertStartStopToSliceIndexes`, end of `etcdGetter.Run` |
| `EtcdMutexProofs`, `EtcdAdapterProofs`, `EtcdFilesProofs`, `EtcdStoreProofs` | theorems about the lock and the etcd adapter | |
| `GitTreeProofs`, `GitAdapterProofs` | lemmas about git's commands, theorems about the git adapter | |
| `PagingProofs` | ranks in a list, theorems about walks | |
| `MCEtcdAdapter`, `MCGitAdapter`, `MCPaging` | values for TLC | |

### EtcdMutex

State in etcd: `rev` (newest create revision), `keyRev[s]` (the revision of the
session's key, 0 without one), `lease[s]`. State at the client: `mutex[s]` (how
far it is), `myRev[s]`, `onLock[s]`, and `kept[s]`: the lease is being renewed.
`LockTxn` is the transaction of `Mutex.Lock` (put the key, read the oldest);
`WaitDone` is the end of `waitDeletes`, which looks for *older* keys and never at
its own; `Unlock` and `CloseSession` are the cleanup functions, each of which
may fail and leave its work to the lease. `LoseKeepAlive` is the session's
context running out: `GetSessionAndMutex` hands `NewSession` a context with
`lockTimeout`, so renewal ends 30 s after it began; nobody watches
`Session.Done()`. `Expire` is the lessor, `CrashSessions` a process dying,
`DropKeys` a deletion of keys by another client, which the adapter performs.

The Mutex takes every key under its prefix for a lock key. `ahead[s]` holds those
that are none: storage keys that lay there when `s` put its key, and are in its way
until they are deleted. (One put later is newer than the key of `s`, and one
deleted and put again too.)

Each waiter's loop over older keys is one step, enabled when there are none
left: the loop waits on one key at a time, but keys older than its own can only
disappear, so its end has the same condition.

### EtcdAdapter

`pc[s]` follows the request's goroutine:

    idle -> (precheck) -> session -> lock -> (wait) -> (exists -> compare)
         -> (load) -> write -> (tools -> kubectl) -> commit -> unlock -> close -> done

`precheck` and `load` belong to Delete, `exists` and `compare` to requests with an
`old_instance`, `tools` to the modes with kustomize, `kubectl` to `Mode =
"kubectl"` (`--enable-kubectl`; `"build"` is `--enable-kustomize-build` alone).
Each action is one call: `CheckExists` and `Compare` are the two reads of
`oldInstanceEqualsCurrentInstanceIfSet`, `WriteFile` one `MkdirFile`, `CommitPut`
one `Put`. `Leave` is every early return once the lock is registered for
cleanup, `Return` every one before. `ReadFails`, `WriteFails`, `ToolFails`,
`CommitPutFails`, `CommitDeleteFails` are the error paths; those that touch etcd,
the disk or the cluster choose whether the effect happened. `Cancel` of this
adapter does nothing, so it is no action. `Crash(h)` kills a replica with its
requests; it returns with its directory or with an empty one (a container's).

`todo[s]` holds the files the current loop has left; kustomization.yaml goes first,
the others in any order. Delete's `Load` overwrites the request's
kustomization.yaml by the stored one, as the code does, and leaves its files.
`built[s]` is the build's output in the pipe's buffer.

Abstractions, and why they do not matter to the properties:
- Content is a member of `Values`; of a kustomization.yaml the model knows whether
  kustomize rejects it (`Rejected`), whether kubectl or Kubernetes rejects an object
  it builds (`Invalid`), and the files it names (`Needs`). What kustomize rejects fails
  in `Build`; what kubectl rejects builds, is piped to kubectl and fails there
  (`Kubectl` has no step for it, `ToolFails` has), which may have applied some of it.
  `Refused` is what the tools the server was started with reject. A whole
  Instance is compared by its kustomization.yaml, as the code compares
  (`etcd.go:487`).
- The cluster runs one kustomization.yaml per instance, or none; the objects of one
  keep their names between versions. A part of one counts as the whole: `cluster[n] = v`
  after a failed kubectl means that some or all objects of `v` were applied.
- A call that fails at its client has taken effect by then or never will. A Put
  that etcd executes after the client gave up is therefore not modelled.
- The names of etcd keys are not strings; what the code gets from them is which
  begins which: `Prefixed` (the key of one instance and that of another),
  `LockPrefixed` (the key of one and the lock keys of another) and `LockNamed` (an
  instance named `x-lock`, whose files lie where the lock keys of `x` do).
- `exposed` is a history variable, not code: the instances whose lock some
  request lost while it relied on it (its lease ran out, or a Delete removed its
  key), or which a Delete of another instance emptied. The code does nothing
  about either. Properties that need the lock are stated *up to exposure*, and
  the violation runs show what exposure brings.

### GitTree

A clone is a record: the last commit `head`, the `index`, the working `tree`, the
merge under way (`theirs`, the commit it merges, and the paths `unmerged`), and
`base`, the last of the remote's states that is in `head`. A path is an instance and
a file; a commit is what it holds and the set of requests whose commits are in its
past, so that "is an ancestor of" is set inclusion. One operator per command:
`Changed` is `git diff --exit-code HEAD`, `Modified` and `Untracked` are the two
commands of `ensureCleanFile`, `Add`, `Commit`, `Rm`, `ResetFile`, `Checkout`, and
`Pulls(c, remote)`, the set of what can come of a `git pull`: it may fail to reach the
remote, refuse (in the middle of a merge, or where it would overwrite changes:
`InTheWay`), fast-forward, merge, or stop at conflicts.

Git is not part of the repository; what it does was written down from how `git.go`
uses it, and the operators agree with git 2 on sequences of these commands.
Two changes of one file always conflict: git merges lines, and two
kustomization.yaml versions may merge or not; taking them to conflict leaves out
merges *within* a file, which no property is about.

### GitAdapter

    idle -> (session -> lock -> (wait)) -> pull -> clean -> (compare)
         -> write -> (tools -> (kubectl)) -> diff -> add -> commit -> push    Apply
         -> (tools -> kubectl) -> rm -> commit -> push                        Delete
         -> (rollback) -> (unlock -> close) -> done
    idle -> pull -> read -> done                                              Get

A git command is an action; between two commands of a request any other request of
the replica may run its own. `gitKey[h]` is the lock named by the replica's
`-etcd_locks_with_git_key`, or `NoLock`: the flag is per process, and two replicas
may have been given different names (the runs take one name for all, or none; the
proofs any). It is one lock for all instances. `Locking(s)`: the request's replica
has one and it is not a Get. `Leave` runs the cleanup
functions, `CommandFails` is any git command that returns an error: an Apply goes
on to `Rollback`, a Delete just returns. A push that fails at its client may have
moved the remote. `Rollback` follows `rollback`'s branches and may end after each of
its commands. `WriteFails` leaves any of the files written and one cut short.
`ToolFails` is `Cancel`: the updater's hands on the error, the deleter's returns nil.
`Crash(h)` kills a replica's requests and leaves its clone; `Restart` is `Engine.Init`,
which needs a checkout and a pull to succeed. `Read` is the end of `gitGetter.Run`: a
directory without a kustomization.yaml is an error, a missing one an empty list.

Abstractions:
- `Init` writes the files in one action: other requests of the replica cannot tell,
  except by an `add`, a `diff` or a build in the middle of it, which then take part of
  the files. `WriteFails` leaves the same partial trees behind.
- The two commands of `ensureCleanFile` are one action, and so are the commands of
  one rollback, though it may stop after any.
- Values are compared up to surrounding white space (`TrimSpace`), and of the
  instance's content only the kustomization.yaml, as the code does.
- The cluster is left out: `PipeKustomizeToKubectl` is the same for both adapters,
  and what it does to the cluster is in `EtcdAdapter`. Whether kubectl accepts what
  was built is left open; `RejectedStaysOut` is about what kustomize rejects.
- Whether a directory with no files in it exists is not kept; a `Read` there may
  find it or not.
- `skipCommit` is always false (`instances.go`). `Branch` is taken to be master. The
  directory argument of `git diff` is taken to resolve; where it does not, the diff
  fails, which `Diff` has: an error is taken for changes.
- `sound` and `exposed` are history variables. `sound`: requests whose pull ended with
  their clone exactly at the remote, nothing staged, no commit of its own. `exposed`:
  requests whose clone another request has touched since. The code checks neither.
  What the lock does for the second is `LockKeepsAlone`: requests that take it expose
  each other only once one of them has lost its key; a Get still can.
  Properties are stated for requests that are `Alone`: sound and not exposed.
- `Mangled` stands for what a stopped merge or a write cut short leaves in a file. The
  proofs let it be anything, also something the tools accept; the runs take it to be
  rejected.

## 3. The runs

| Run | Shows |
|---|---|
| `adapter_lock` | `SectionExclusive`, `CheckStillHolds`, `AdapterInv`: one request of an instance between comparison and Commit; what it compared still holds then |
| `adapter_tools` | with kubectl: `BuildsOwnFiles`; `RejectedStaysOut` (what either tool rejects is not stored, what kustomize rejects is not applied either); `OkIsTrue` (an ok is true of etcd and of the cluster); `DriftIsTold` (where the cluster differs from etcd, some request of the instance was answered an error, died, or is still at it); and `ImplementsStore`: requests refine an atomic compare-and-set |
| `adapter_prefix` | `Exclusion`, `MutexInv`, `ImplementsStore` and `RejectedStaysOut` with two instances named like `x` and `x-lock`, kustomize alone, and the second's file there or not; and, with kustomize free to hang, `HungToolsHoldUpNobody`: a request comes to its end unless its own tools hang, or it waits for a file it takes for a lock |
| `git_requests` | without the lock: `OkIsPushed` (an ok of a request that was alone is in the last commit and at the remote), `ReplacesOwn` (its push is a compare-and-set of its instance at the remote), `RejectedStaysOut` (a rejected version left in the tree gets into nobody's commit), `GetsWhatIsCommitted`, and `GitInv`, the inductive invariant of their proofs |
| `git_locked` | under the lock: `LockedSections` (one request at a time over all replicas and instances, while keys last), `LockKeepsAlone` (only a Get, or a lost key, lets another request into the clone of one at work), `GitInv` with the lock in it, `HangsHoldUpNobody` (nobody is stuck behind a hanging pull, push or tool) |
| `paging_walk` | `MissesNoMoreThanLost`, `RepeatsNoMoreThanGained`: each key removed during a client's walk makes it miss at most one entry, each key put repeats at most one; only a removal can crash the server; `PagingInv`, the invariant this is proved by |

Runs that find a documented promise broken (their counterexamples are the
findings in PROJECT.json):

| Run | The promise, and what happens |
|---|---|
| `old_matches_at_commit` | "at this point, OldInstance matches if present, we have a lock" (`etcd.go:251`): kubectl takes longer than the lease; another request commits; the first overwrites it |
| `concurrency_safe` | "the server is concurrency safe" (`README.md:27`): a Delete by prefix removes the lock keys of all waiters, each of which then sees no older key; two enter with their leases renewed all along |
| `lock_collides` | "do not allow lock key to collide with a storage key!" (`etcd.go:442`): the files of an instance `x-lock` have keys under the prefix of the lock of `x`; a request of `x` takes the oldest for the owner and waits for it, until its timeout, every time |
| `stored_builds` | "safely rejects any configs which are rejected by those tools" (`README.md:16`): a file left on disk by a failed Apply lets one through that does not build from what is stored |
| `git_applied_stored` | "Commit is expected to add/update the Instance in the state store" (`git.go:301`): the files of an instance the repository does not have yet are untracked, `git diff` does not see them, and Commit returns without adding, committing or pushing. (Starting `FromV1`, and one request after the other, TLC finds the other way to break it: the same Apply again after a failed push finds nothing to commit, the TODO of `README.md:117`.) |
| `git_failed_stays_out` | "commits the changes, rolling back as necessary" (`server.go:23`): after a failed push the rollback resets to the commit that was not pushed; the next request's push takes it along |

Met while modelling, and not given a run:
- Deleting `x` deletes `x-1` too, since the prefix is the bare key; and deleting
  `x-lock` deletes the lock keys of `x`.
- A Put that fails after kubectl apply leaves the cluster running what is not
  stored; "rolling back as necessary" says `server.go:23`. `DriftIsTold` is what is
  left: somebody got an error, or no answer.
- kubectl applies the objects of a stream one by one, and may have applied some when
  it fails at one that Kubernetes rejects (`instances.go:324`); the Apply then stores
  nothing, and takes nothing back. "the server safely rejects any configs which are
  rejected by those tools or by Kubernetes", says `README.md:16`. `RejectedStaysOut`
  holds of such a configuration in the store, not in the cluster: with `Refused` for
  `Rejected` in its cluster conjunct TLC shows `ToolFails` breaking it.
- A Get of all lists every key under the prefix as an Instance, lock keys and
  file keys included (`etcd.go:108`), and a page that starts beyond the list's
  end panics (`etcd.go:126`); `MissesNoMoreThanLost` shows when a walk is safe from
  that: while nothing is removed, so while no request ends.
- `old_instance` is "ignored if Instance does not exist" says
  `protos/hambone.proto:45`; `etcd.go:473` returns `InstanceNoExistError`. The
  model follows the code, and so does `InstanceStore`.
- A Delete writes the stored kustomization.yaml but only the files that come with
  the request, so on a replica that never served the instance its build fails
  although what is stored builds (`etcd.go:369`).
- `gitDeleter.Cancel` returns nil (`git.go:423`): a Delete whose tools fail is
  answered as a success.
- `main.go` sets no `Branch`, so that `Engine.Init` runs `git checkout ""`, which
  fails: a server with the git adapter does not start.
- After an Apply of a new instance its files stay untracked, and the next Apply or
  Delete of it is refused with `UnTrackedUncommittedChangesError`; a cancelled or
  half-failed Apply leaves its instance modified, and the next is refused with
  `TrackedUncommittedChangesError`.
- A pull that stops at a conflict leaves the clone in the middle of a merge; every
  later pull of the replica fails, and so does `git checkout` at its next start.
- A Get pulls without the lock. It can move the clone under an update that has
  compared `old_instance` and not yet committed: the update's push is then
  accepted over a version its client never saw. This is why `ReplacesOwn` is about
  requests nobody else touched the clone of; the lock does not help, Gets take none.

### Bounds

Three sessions is the least number with an owner and two waiters, which is what
wrong queueing needs; the second lock of `adapter_prefix` shows that queues do not
mix, and a Delete of one reach into the other. `adapter_lock`
has three requests, two kinds and one instance, so that every pair of kinds
competes and a third comes between. `adapter_tools` has two requests on two
replicas with one file, a content kustomize rejects and one that only kubectl
rejects, so that a mixture of two requests' files, a rejected and an accepted version, and a Delete where the
files are not on disk all occur; the store starts empty or with the instance.
Values: the stored one, one other, and (with prefixes) a rejected one. `Paging`
has six keys, pages of two and at most `MaxChanges` = 4 keys put or removed: three
pages, the last full or short, changes before each and several at once. Sessions
are symmetric in the safety runs; no symmetry is used in liveness runs. Every
request ends, so the runs of finite request sets stop: deadlock is not checked.

`git_requests` has three requests, two instances and two clones: a request that
fails and leaves something, one on the same clone that could pick it up, and one
on the other clone that makes them diverge. Its requests are a guarded update on
one clone and, on the other, an update with a file that the tools reject, an update
of another instance, a guarded delete and a Get; with three sessions each of them
also meets itself. Nothing goes on while both replicas are down (`OneDown`): their
clones share nothing but the remote; nor while one is that was idle when it died
(`DiesAtWork`): no request is lost with it, and its start pulls, as a Get does. That a merge stops at conflicts, a push is
rejected, staged files are left behind, a Get's pull moves another's clone and a
push goes out after that was confirmed by asking TLC for such states.
`git_locked` has two requests on one replica, with kubectl, an update, a delete or a
Get each: the lock's queue is that of `adapter_lock`, and what is new, the pull and
the push that may hang in it, needs a holder and a waiter, and a Get beside a holder.

### Fairness

`AdapterFairness`: calls to etcd and to the disk return: most calls to etcd have
`requestTimeout`, the reads of whether a key exists (`etcd.go:311`, `etcd.go:466`) and
`Unlock` (`context.TODO()`) have none, and etcd is taken to answer those; a watch that has fired wakes its waiter; renewal ends
with its 30 s context (`etcd.go:445`), and a lease that is not renewed expires. It
does not assume that a tool returns, that a client sends its request, that anybody
unlocks, or that a wait is cut off by `lockTimeout` although the code would do so.
`GitFairness` is the same with git's local commands in place of the store's calls;
`git pull`, `git push` and the tools are run without a timeout and may hang (`Hangs`).

## 4. The proofs

All for any constants that satisfy the named assumptions (`NoLockAssumption`,
`KustomizeAssumption`, `AdapterAssumption`; `GitTreeAssumption`, `GitAssumption`;
`PagingAssumption`): any number of requests, instances, replicas, files and values,
any prefix relation, any locks the replicas are started with, pages of any size.
The assumptions say what kind of thing each constant is, that a request carries a
kustomization.yaml, and that neither etcd nor the git repository holds one the tools
reject at first.

`EtcdMutexProofs`: `MutexInv` is inductive (`MutexInitInv`, `MutexInvStep`), so
`MutexInvariance`; `InvExcludes` gives `MutualExclusion`. `Exclusion` alone is not
inductive: a newcomer's transaction must not find itself the owner beside a
holder, which needs that a holder's key is the oldest of its lock
(`HolderIsOldest`), that keys are distinct, are bounded by `rev`, and are the ones
their clients remember, and that they hang on live leases.

`EtcdAdapterProofs`: `AdapterUsesLock` shows that every step of the adapter is a
step of `EtcdMutex` or leaves it alone, so that `MutexInv` carries over instead of
being proved again. `AdapterInv` adds: `InStep` (where a goroutine is determines
how far its mutex is), `ReliedKeysExist` (a request that waits or is in its
section asked for its own instance's lock and, up to exposure, has its key) and
`CheckStillHolds`. `KeysExclude` derives `SectionExclusive` from the first three;
it is needed *inside* the induction, because a Put of one request would otherwise
falsify what another one compared. Theorems: `AdapterInvariance`,
`SectionExclusion`, `CheckStability`. Each step has one lemma per conjunct
(`RequestTypeStep`, `RequestInStep`, `RequestReliedKeys`, `RequestChecks`), and
`LeaseInv` and `CrashInv` treat the lessor and the crash.

`EtcdFilesProofs` follows a request's files. `FilesInv` is inductive relative to
`AdapterInv`: each loop begins with all files of the request (`LoopsBegin`), what it
no longer has to do is on disk (`WrittenSoFar`) or in etcd and the cluster
(`PutSoFar`), and what kubectl or Commit gets has been built (`PassedTools`).
`SectionIsAlone` is the lemma that uses the lock: while a request is in its
section, no other changes its directory, its keys or its cluster objects.
`RejectedStaysOut` rests on both tools in turn: what kustomize rejects never gets to
kubectl, and what kubectl rejects gets past it only by `ToolFails`, never to Commit.
Theorems: `FilesInvariance`, `OwnFilesAreBuilt`, `RejectedNeverStored` and, for the
action property `OkIsTrue`, `OkIsNeverALie`.

`EtcdStoreProofs` proves the refinement, `AdapterImplementsStore`: `AdapterSpec =>
ImplementsStore`. Lemmas `OneAnswer` to `StoreFinishes` restate the abstract actions
in the adapter's state; `EarlyMaps`, `PutMaps`, `DeleteMaps`, `ReleaseMaps` and
`CrashMaps` map each step. A Put of the kustomization.yaml is the effect because
`CheckStillHolds` says that what was compared is still stored; a Delete is,
because what it loaded is still there and not absent. `AnswersInStep` says where
a request has an answer. `DriftIsAlwaysTold` comes last, since it needs answers, too:
only kubectl and Commit set cluster and store apart, the request that takes such a
step has its build (`BuiltOnce`) and no answer yet, and by `OkMeansDone` it cannot be
answered ok while they differ.

`GitTreeProofs` says of every command of `GitTree` that it maps clones to clones and
what it leaves as it was: `AddEffect` and its like are cited wherever a step runs the
command. A merge is the long one: what a pull brings into tree, index and commit.

`GitAdapterProofs` proves `GitInvariance`: `GitInv` is inductive. The lock's part,
`MutexInv`, carries over as it does in the etcd adapter (`RequestsUseLock`). The other
parts, each needed by those after it:
- `InPlace`: where a goroutine is says what kind of request it is, that it has no
  answer yet, and that under the lock its mutex is held.
- `SharersAreExposed`: two requests at work in one clone are both noted. Its use is
  the converse (`OthersKeepClone`): nobody touches the clone of one that is not.
- `PastTellsFiles`: two clones have no commit in common that the remote does not have.
  So when one clone's push moves the remote, another's clone either had nothing of
  its own, and its next push would be refused, or the remote holds what it held.
  Without this `LevelClones` is not inductive: another replica's push could leave the
  remote open to this one and yet have changed what it holds (`OthersKeepLevel`).
- `LevelClones`: the clone of a request that is alone differs from what it last had
  in common with the remote in its own instance only, and that is what the remote
  holds if it would take the push. A push is then a compare-and-set.
- `OwnChange`: what such a request asked for is in the tree, then in the index, then
  in the last commit, so that an ok tells the truth.
- `IndexesAreAccepted`, under `RejectedStaysOut`: no index holds a rejected
  kustomization.yaml; a tree may, after a cancelled Apply. What keeps it out is that
  the directory that is added is the one the tools have just accepted, which nobody
  has changed since (`RequestKeepsRejectedOut`).
- `TreesAreCommitted`: an instance nobody has left a trace of (`LeftNoTrace`) is in the
  tree and in the index as it is committed, also after a merge.

`RequestOnClones` reduces the 23 actions of a request to four effects on its clone
(work on index and tree, a pull, a commit, a push), and the lemmas `...Keeps...` treat
each conjunct by effect; `LeaseKeepsInv`, `CrashKeepsInv` and `RestartKeepsInv` are the
steps that are not a request's. From `GitInv` follow, in a step each,
`GitLockedSections`, `GitRejectedStaysOut`, and the action properties
`GitLockKeepsAlone`, `GitReplacesOwn`, `GitOkIsPushed` and `GitGetsWhatIsCommitted`.

`PagingProofs` begins with ranks: the keys of ranks a + 1 to b are at most b - a, and
exactly so many within the list (`StretchIsBounded`, `StretchIsFull`), a Put moves
those above it by one, a removal moves nobody by more than it takes. `PagingInv`
counts ahead: `PassedOver` are the steady keys a removal has moved to the front of
the next page, at most `lost`; `ToRepeat` the entries already got that a Put has moved
behind its start, so that repeats so far and to come are at most `gained`. Neither
property is inductive without these: the debt of a removal falls due pages later.
Theorems: `PagingInvariance`, `WalkMisses`, `WalkRepeats`; and, of a single Get with
any start and stop, not only those a walk sends, `WhenAGetPanics` and
`WhatAGetReturns`: what the two conversions of the indexes come to, and the three
cases they let through to the slice expression.

With this every invariant and every action property of the passing runs is proved.
Only model-checked: `HungToolsHoldUpNobody` and `HangsHoldUpNobody`, since liveness
under fairness is beyond the prover. The violation runs are counterexamples and need
no proof.

## 5. Not modelled, and the plan

Not modelled: generated code, the example client, the vendored libraries other
than clientv3/concurrency, flag parsing and dispatch, TLS, the text of statuses.
The git Templates getter pulls and reads like a Get, in another directory; the
etcd one is a TODO. `LoadStatuses` reads the local directory and the cluster and
changes nothing; it builds from whatever an earlier request left on this replica's
disk, without the lock, and nothing in the repository says what its answer is to
agree with. A Get by name with the etcd adapter is one read.

An instance whose name contains a slash could put a storage key of its own under
another's lock or file keys; names are taken to be names of one directory.

The git adapter is not shown to implement `InstanceStore`, and does not: a
request that is answered with an error can take effect later, with the push of
another (`git_failed_stays_out`), and a Delete that is answered ok may not have
taken effect. What is left of the promise is `ReplacesOwn`.

Done: all modules of section 2 and the theorems of section 4. What is left, in order:

1. The lock as an abstract specification of its own (who holds it, who gives it up or
   loses it) that `EtcdMutex` implements, so that both adapters' proofs cite it.
2. An abstract specification of the remote, in which the pushes of requests that are
   alone are atomic and all others are disturbances, that `GitAdapter` implements:
   `ReplacesOwn` and `OkIsPushed` as one refinement.
