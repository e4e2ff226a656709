------------------------------- MODULE GitTree -------------------------------
(***************************************************************************)
(* The clone of a git repository, and the git commands the git State Store *)
(* adapter runs in it (pkg/state/git/git.go): what each needs, does to the *)
(* last commit, the index and the working tree, and when it refuses.  One  *)
(* branch, and one remote it tracks.                                       *)
(*                                                                         *)
(* A commit is what it holds and the set of requests whose commits lie in  *)
(* its past.  Two changes of one file never merge by themselves.           *)
(***************************************************************************)
EXTENDS Kustomize

CONSTANTS
  Names,       \* names of instances
  Committers,  \* those who commit, at most once each
  Mangled,     \* what a failed merge writes into a file
  NoMerge      \* no merge is under way

Paths     == Names \X AllFiles
Snapshots == [Paths -> Contents]
Commits   == [past : SUBSET Committers, files : Snapshots]

ASSUME GitTreeAssumption == Mangled \in Values /\ NoMerge \notin Commits

Clones == [head     : Commits,                  \* the last commit
           base     : Snapshots,                \* last of the remote's in it
           index    : Snapshots,
           tree     : Snapshots,                \* the files themselves
           theirs   : Commits \cup {NoMerge},   \* MERGE_HEAD
           unmerged : SUBSET Paths]             \* conflicts in the index

Fresh(remote) ==
  [head |-> remote, base |-> remote.files, index |-> remote.files,
   tree |-> remote.files, theirs |-> NoMerge, unmerged |-> {}]

Of(n)         == {n} \X AllFiles
DirOf(snap, n) == [f \in AllFiles |-> snap[<<n, f>>]]

(* The snapshot with the paths P as they are in another. *)
Take(snap, P, other) == [p \in Paths |-> IF p \in P THEN other[p] ELSE snap[p]]

-----------------------------------------------------------------------------
(* git diff --exit-code HEAD, which does not see untracked files. *)
Changed(c) ==
  \E p \in Paths :
    \/ p \in c.unmerged
    \/ (IF c.index[p] = Absent THEN Absent ELSE c.tree[p]) # c.head.files[p]

(* git diff --exit-code -- dir, against the index. *)
Modified(c, n) ==
  \E p \in Of(n) :
    p \in c.unmerged \/ (c.index[p] # Absent /\ c.tree[p] # c.index[p])

(* git ls-files --others dir. *)
Untracked(c, n) ==
  \E p \in Of(n) \ c.unmerged : c.index[p] = Absent /\ c.tree[p] # Absent

(* git ls-files --error-unmatch. *)
Tracked(c) == {p \in Paths : p \in c.unmerged \/ c.index[p] # Absent}

-----------------------------------------------------------------------------
(* Faulty form: git add --all. *)
Add_All(c, n) == [c EXCEPT !.index = c.tree, !.unmerged = {}]

(* git add dir: everything under it, deletions included. *)
Add(c, n) ==
  [c EXCEPT !.index = Take(c.index, Of(n), c.tree), !.unmerged = @ \ Of(n)]

(* git commit needs something staged, or a merge with no conflict left. *)
CanCommit(c) ==
  c.unmerged = {} /\ (c.theirs = NoMerge => c.index # c.head.files)

(* Faulty form: git commit --all. *)
Commit_All(c, s) ==
  LET all == Take(c.index, Tracked(c), c.tree)
  IN  [c EXCEPT !.head = [past |-> c.head.past \cup {s}, files |-> all], !.index = all]

(* git commit: the whole index, and the end of a merge. *)
Commit(c, s) ==
  LET others == IF c.theirs = NoMerge THEN {} ELSE c.theirs.past
  IN  [c EXCEPT !.head = [past |-> c.head.past \cup {s} \cup others, files |-> c.index],
                !.base = IF c.theirs = NoMerge THEN @ ELSE c.theirs.files,
                !.theirs = NoMerge]

(* Faulty form: git push --force. *)
CanPush_Force(c, remote) == TRUE

(* git push: the remote takes it if it descends from what the remote has. *)
CanPush(c, remote) == remote.past \subseteq c.head.past

Pushed(c) == [c EXCEPT !.base = c.head.files]

(* Faulty form: git rm -r --cached. *)
Rm_Cached(c, n) ==
  LET gone == Of(n) \cap Tracked(c)
  IN  [c EXCEPT !.index = Take(@, gone, [p \in Paths |-> Absent]), !.unmerged = @ \ gone]

(* git rm -rf dir; git reset HEAD file; git checkout file; rm -rf files.   *)
Rm(c, n) ==
  LET gone == Of(n) \cap Tracked(c)
      None == [p \in Paths |-> Absent]
  IN  [c EXCEPT !.index = Take(@, gone, None), !.tree = Take(@, gone, None),
                !.unmerged = @ \ gone]

ResetFile(c, p) == [c EXCEPT !.index[p] = c.head.files[p], !.unmerged = @ \ {p}]

CanCheckout(c, p) == p \notin c.unmerged /\ c.index[p] # Absent

Checkout(c, p) == [c EXCEPT !.tree[p] = c.index[p]]

Unlink(c, P) == [c EXCEPT !.tree = Take(@, P, [p \in Paths |-> Absent])]

-----------------------------------------------------------------------------
(* git pull: fetch and merge.  What the remote changed since the last      *)
(* common commit comes in; what the clone changed too conflicts.           *)
UpToDate(c, remote) == remote.past \subseteq c.head.past
Ahead(c, remote)    == ~(c.head.past \subseteq remote.past)

Incoming(c, remote) ==
  {p \in Paths : remote.files[p] \notin {c.base[p], c.head.files[p]}}

Conflicts(c, remote) ==
  {p \in Incoming(c, remote) : c.head.files[p] # c.base[p]}

(* Changes in the index or the tree that the merge would overwrite.  A     *)
(* file that is only missing from the tree is not one, nor is one whose    *)
(* index already is what a fast-forward brings, nor one edited in the tree *)
(* when the merge can only report that the remote has deleted it.          *)
InTheWay(c, remote, p) ==
  LET staged == c.index[p] # c.head.files[p]
  IN  /\ staged \/ (c.tree[p] # c.index[p]
                    /\ ~(c.tree[p] = Absent /\ c.index[p] # Absent))
      /\ ~(~Ahead(c, remote) /\ c.index[p] = remote.files[p])
      /\ ~(p \in Conflicts(c, remote) /\ remote.files[p] = Absent /\ ~staged)

Refuses(c, remote) ==
  \/ c.theirs # NoMerge \/ c.unmerged # {}
  \/ /\ ~UpToDate(c, remote)
     /\ \/ \E p \in Incoming(c, remote) : InTheWay(c, remote, p)
        \/ Ahead(c, remote) /\ c.index # c.head.files

(* The clone after a fast-forward or a merge ...                           *)
Merged(c, remote) ==
  LET new == {p \in Incoming(c, remote) : c.index[p] # remote.files[p]}
  IN  [c EXCEPT !.head = [past |-> c.head.past \cup remote.past,
                          files |-> Take(c.head.files, Incoming(c, remote), remote.files)],
                !.base = remote.files,
                !.index = Take(@, new, remote.files),
                !.tree = Take(@, new, remote.files)]

(* ... and after a merge that stopped at conflicts. *)
Stopped(c, remote) ==
  LET clash == Conflicts(c, remote)
      clean == Incoming(c, remote) \ clash
      Torn(p) == CASE c.head.files[p] = Absent -> remote.files[p]
                   [] remote.files[p] = Absent -> c.tree[p]
                   [] OTHER -> Mangled
  IN  [c EXCEPT !.theirs = remote, !.unmerged = clash,
                !.index = Take(@, clean, remote.files),
                !.tree = [p \in Paths |-> IF p \in clash THEN Torn(p)
                                          ELSE IF p \in clean THEN remote.files[p]
                                          ELSE c.tree[p]]]

(* What can come of a pull; it may always fail to reach the remote. *)
Pulls(c, remote) ==
  {[ok |-> FALSE, clone |-> c]} \cup
    IF Refuses(c, remote) THEN {}
    ELSE IF UpToDate(c, remote) THEN {[ok |-> TRUE, clone |-> c]}
    ELSE IF Conflicts(c, remote) = {} THEN {[ok |-> TRUE, clone |-> Merged(c, remote)]}
    ELSE {[ok |-> FALSE, clone |-> Stopped(c, remote)]}
=============================================================================
