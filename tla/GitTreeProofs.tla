---------------------------- MODULE GitTreeProofs ----------------------------
(* What git's commands make of a clone, for any clone and any commits: the *)
(* facts the proofs about requests use instead of the definitions.         *)
EXTENDS GitTree, TLAPS

(* The paths of an instance, and nobody else's. *)
LEMMA PathsOfNames ==
  ASSUME NEW n \in Names
  PROVE  /\ Of(n) \subseteq Paths
         /\ \A f \in AllFiles : <<n, f>> \in Of(n)
         /\ \A p \in Of(n) : p = <<n, p[2]>> /\ p[2] \in AllFiles
         /\ \A m \in Names, f \in AllFiles : m # n => <<m, f>> \notin Of(n)
         /\ Kustomization \in AllFiles
  BY DEF Of, Paths, AllFiles

(* What a file may hold. *)
LEMMA ContentTypes == Mangled \in Contents /\ Absent \in Contents /\ Absent \notin Rejected
  BY GitTreeAssumption, KustomizeAssumption DEF Contents

(* A snapshot with some paths of another. *)
LEMMA TakeTypes ==
  ASSUME NEW snap \in Snapshots, NEW P, NEW other \in Snapshots
  PROVE  /\ Take(snap, P, other) \in Snapshots
         /\ \A p \in Paths : Take(snap, P, other)[p] = IF p \in P THEN other[p] ELSE snap[p]
  BY DEF Take, Snapshots

(* The empty repository. *)
LEMMA NothingTypes == [p \in Paths |-> Absent] \in Snapshots
  BY ContentTypes DEF Snapshots

(* Two snapshots are the same if they agree on every path. *)
LEMMA SameSnapshot ==
  ASSUME NEW a \in Snapshots, NEW b \in Snapshots, \A p \in Paths : a[p] = b[p]
  PROVE  a = b
  BY DEF Snapshots

(* What a clone is made of. *)
LEMMA CloneFields ==
  ASSUME NEW c \in Clones
  PROVE  /\ c.head \in Commits /\ c.base \in Snapshots /\ c.index \in Snapshots
         /\ c.tree \in Snapshots /\ c.theirs \in Commits \cup {NoMerge}
         /\ c.unmerged \subseteq Paths
         /\ c.head.past \subseteq Committers /\ c.head.files \in Snapshots
  BY DEF Clones, Commits

(* A new clone. *)
LEMMA FreshTypes ==
  ASSUME NEW remote \in Commits
  PROVE  Fresh(remote) \in Clones
  BY DEF Fresh, Clones, Commits

-----------------------------------------------------------------------------
(* A command that changes the index or the tree only. *)
SameCommits(c, d) == d.head = c.head /\ d.base = c.base /\ d.theirs = c.theirs

(* git add. *)
LEMMA AddEffect ==
  ASSUME NEW c \in Clones, NEW n \in Names
  PROVE  /\ Add(c, n) \in Clones
         /\ SameCommits(c, Add(c, n))
         /\ Add(c, n).tree = c.tree
         /\ Add(c, n).unmerged = c.unmerged \ Of(n)
         /\ \A p \in Paths : Add(c, n).index[p] = IF p \in Of(n) THEN c.tree[p] ELSE c.index[p]
<1>1. Take(c.index, Of(n), c.tree) \in Snapshots
  BY CloneFields, TakeTypes
<1>2. \A p \in Paths : Take(c.index, Of(n), c.tree)[p] = IF p \in Of(n) THEN c.tree[p] ELSE c.index[p]
  BY CloneFields, TakeTypes
<1> QED
  BY <1>1, <1>2 DEF Add, Clones, SameCommits

(* git commit. *)
LEMMA CommitEffect ==
  ASSUME NEW c \in Clones, NEW s \in Committers
  PROVE  /\ Commit(c, s) \in Clones
         /\ Commit(c, s).head.files = c.index
         /\ Commit(c, s).head.past = c.head.past \cup {s}
              \cup (IF c.theirs = NoMerge THEN {} ELSE c.theirs.past)
         /\ Commit(c, s).theirs = NoMerge
         /\ Commit(c, s).index = c.index
         /\ Commit(c, s).tree = c.tree
         /\ Commit(c, s).unmerged = c.unmerged
         /\ c.theirs = NoMerge => Commit(c, s).base = c.base
<1> DEFINE others == IF c.theirs = NoMerge THEN {} ELSE c.theirs.past
           past   == c.head.past \cup {s} \cup others
           base   == IF c.theirs = NoMerge THEN c.base ELSE c.theirs.files
<1>1. others \subseteq Committers /\ base \in Snapshots
  BY DEF Clones, Commits
<1>2. [past |-> past, files |-> c.index] \in Commits
  BY <1>1, CloneFields DEF Commits
<1>3. Commit(c, s) = [c EXCEPT !.head = [past |-> past, files |-> c.index],
                               !.base = base, !.theirs = NoMerge]
  BY DEF Commit
<1> HIDE DEF past, base
<1>4. /\ Commit(c, s) \in Clones
      /\ Commit(c, s).head = [past |-> past, files |-> c.index]
      /\ Commit(c, s).base = base
      /\ Commit(c, s).theirs = NoMerge
      /\ Commit(c, s).index = c.index
      /\ Commit(c, s).tree = c.tree
      /\ Commit(c, s).unmerged = c.unmerged
  BY <1>1, <1>2, <1>3 DEF Clones
<1> QED
  BY <1>4 DEF past, base

(* git push, in the clone. *)
LEMMA PushedEffect ==
  ASSUME NEW c \in Clones
  PROVE  /\ Pushed(c) \in Clones
         /\ Pushed(c).base = c.head.files
         /\ Pushed(c).head = c.head
         /\ Pushed(c).theirs = c.theirs
         /\ Pushed(c).index = c.index
         /\ Pushed(c).tree = c.tree
         /\ Pushed(c).unmerged = c.unmerged
  BY CloneFields DEF Pushed, Clones

(* git rm. *)
LEMMA RmEffect ==
  ASSUME NEW c \in Clones, NEW n \in Names
  PROVE  /\ Rm(c, n) \in Clones
         /\ SameCommits(c, Rm(c, n))
         /\ Rm(c, n).unmerged \subseteq c.unmerged
         /\ \A p \in Paths :
              LET gone == p \in Of(n) /\ p \in Tracked(c)
              IN  /\ Rm(c, n).index[p] = IF gone THEN Absent ELSE c.index[p]
                  /\ Rm(c, n).tree[p] = IF gone THEN Absent ELSE c.tree[p]
<1> DEFINE gone == Of(n) \cap Tracked(c)
           None == [p \in Paths |-> Absent]
           index == Take(c.index, gone, None)
           tree  == Take(c.tree, gone, None)
<1>1. None \in Snapshots /\ \A p \in Paths : None[p] = Absent
  BY NothingTypes
<1> HIDE DEF gone, None
<1>2. /\ index \in Snapshots /\ tree \in Snapshots
      /\ \A p \in Paths : /\ index[p] = IF p \in gone THEN Absent ELSE c.index[p]
                          /\ tree[p] = IF p \in gone THEN Absent ELSE c.tree[p]
  BY <1>1, CloneFields, TakeTypes
<1>3. Rm(c, n) = [c EXCEPT !.index = index, !.tree = tree, !.unmerged = @ \ gone]
  BY DEF Rm, gone, None
<1> HIDE DEF index, tree
<1>4. /\ Rm(c, n) \in Clones
      /\ SameCommits(c, Rm(c, n))
      /\ Rm(c, n).unmerged \subseteq c.unmerged
      /\ Rm(c, n).index = index /\ Rm(c, n).tree = tree
  BY <1>2, <1>3 DEF Clones, SameCommits
<1> QED
  BY <1>2, <1>4 DEF gone

(* git reset HEAD file. *)
LEMMA ResetFileEffect ==
  ASSUME NEW c \in Clones, NEW p \in Paths
  PROVE  /\ ResetFile(c, p) \in Clones
         /\ SameCommits(c, ResetFile(c, p))
         /\ ResetFile(c, p).tree = c.tree
         /\ ResetFile(c, p).unmerged = c.unmerged \ {p}
         /\ \A q \in Paths :
              ResetFile(c, p).index[q] = IF q = p THEN c.head.files[p] ELSE c.index[q]
<1>1. [c.index EXCEPT ![p] = c.head.files[p]] \in Snapshots
  BY CloneFields DEF Snapshots
<1>2. ResetFile(c, p).index = [c.index EXCEPT ![p] = c.head.files[p]]
  BY DEF ResetFile, Clones
<1>3. \A q \in Paths : ResetFile(c, p).index[q] = IF q = p THEN c.head.files[p] ELSE c.index[q]
  BY <1>2, CloneFields DEF Snapshots
<1> QED
  BY <1>1, <1>2, <1>3 DEF ResetFile, Clones, SameCommits

(* git checkout file. *)
LEMMA CheckoutEffect ==
  ASSUME NEW c \in Clones, NEW p \in Paths
  PROVE  /\ Checkout(c, p) \in Clones
         /\ SameCommits(c, Checkout(c, p))
         /\ Checkout(c, p).index = c.index
         /\ Checkout(c, p).unmerged = c.unmerged
         /\ \A q \in Paths : Checkout(c, p).tree[q] = IF q = p THEN c.index[p] ELSE c.tree[q]
<1>1. [c.tree EXCEPT ![p] = c.index[p]] \in Snapshots
  BY CloneFields DEF Snapshots
<1>2. Checkout(c, p).tree = [c.tree EXCEPT ![p] = c.index[p]]
  BY DEF Checkout, Clones
<1>3. \A q \in Paths : Checkout(c, p).tree[q] = IF q = p THEN c.index[p] ELSE c.tree[q]
  BY <1>2, CloneFields DEF Snapshots
<1> QED
  BY <1>1, <1>2, <1>3 DEF Checkout, Clones, SameCommits

(* rm. *)
LEMMA UnlinkEffect ==
  ASSUME NEW c \in Clones, NEW P
  PROVE  /\ Unlink(c, P) \in Clones
         /\ SameCommits(c, Unlink(c, P))
         /\ Unlink(c, P).index = c.index
         /\ Unlink(c, P).unmerged = c.unmerged
         /\ \A q \in Paths : Unlink(c, P).tree[q] = IF q \in P THEN Absent ELSE c.tree[q]
<1> DEFINE None == [p \in Paths |-> Absent]
<1>1. None \in Snapshots /\ \A p \in Paths : None[p] = Absent
  BY NothingTypes
<1> HIDE DEF None
<1>2. /\ Take(c.tree, P, None) \in Snapshots
      /\ \A q \in Paths : Take(c.tree, P, None)[q] = IF q \in P THEN Absent ELSE c.tree[q]
  BY <1>1, CloneFields, TakeTypes
<1>3. Unlink(c, P) = [c EXCEPT !.tree = Take(c.tree, P, None)]
  BY DEF Unlink, None, Clones
<1> QED
  BY <1>2, <1>3 DEF Clones, SameCommits

-----------------------------------------------------------------------------
(* git pull that succeeds in bringing something in. *)
LEMMA MergedEffect ==
  ASSUME NEW c \in Clones, NEW remote \in Commits
  PROVE  LET d == Merged(c, remote)
         IN  /\ d \in Clones
             /\ d.head.past = c.head.past \cup remote.past
             /\ \A p \in Paths : d.head.files[p] =
                  IF p \in Incoming(c, remote) THEN remote.files[p] ELSE c.head.files[p]
             /\ d.base = remote.files
             /\ \A p \in Paths :
                  LET new == p \in Incoming(c, remote) /\ c.index[p] # remote.files[p]
                  IN  /\ d.index[p] = IF new THEN remote.files[p] ELSE c.index[p]
                      /\ d.tree[p] = IF new THEN remote.files[p] ELSE c.tree[p]
             /\ d.theirs = c.theirs
             /\ d.unmerged = c.unmerged
<1> DEFINE new   == {p \in Incoming(c, remote) : c.index[p] # remote.files[p]}
           files == Take(c.head.files, Incoming(c, remote), remote.files)
           past  == c.head.past \cup remote.past
           index == Take(c.index, new, remote.files)
           tree  == Take(c.tree, new, remote.files)
           head  == [past |-> past, files |-> files]
<1>1. remote.files \in Snapshots /\ remote.past \subseteq Committers
  BY DEF Commits
<1>2. /\ files \in Snapshots
      /\ \A p \in Paths : files[p] =
           IF p \in Incoming(c, remote) THEN remote.files[p] ELSE c.head.files[p]
  BY <1>1, CloneFields, TakeTypes
<1>3. /\ index \in Snapshots
      /\ \A p \in Paths : index[p] = IF p \in new THEN remote.files[p] ELSE c.index[p]
  <2> HIDE DEF new
  <2> QED
    BY <1>1, CloneFields, TakeTypes
<1>4. /\ tree \in Snapshots
      /\ \A p \in Paths : tree[p] = IF p \in new THEN remote.files[p] ELSE c.tree[p]
  <2> HIDE DEF new
  <2> QED
    BY <1>1, CloneFields, TakeTypes
<1>5. head \in Commits
  <2> HIDE DEF files
  <2> QED
    BY <1>1, <1>2, CloneFields DEF Commits
<1>6. Merged(c, remote) = [c EXCEPT !.head = head, !.base = remote.files,
                                    !.index = index, !.tree = tree]
  BY DEF Merged, Clones
<1>7. head.past = past /\ head.files = files
  OBVIOUS
<1> HIDE DEF head, index, tree, files
<1>8. /\ Merged(c, remote) \in Clones
      /\ Merged(c, remote).head = head
      /\ Merged(c, remote).base = remote.files
      /\ Merged(c, remote).index = index
      /\ Merged(c, remote).tree = tree
      /\ Merged(c, remote).theirs = c.theirs
      /\ Merged(c, remote).unmerged = c.unmerged
  BY <1>1, <1>3, <1>4, <1>5, <1>6 DEF Clones
<1> QED
  BY <1>2, <1>3, <1>4, <1>7, <1>8

(* git pull that stops at conflicts. *)
LEMMA StoppedEffect ==
  ASSUME NEW c \in Clones, NEW remote \in Commits
  PROVE  LET d == Stopped(c, remote)
         IN  /\ d \in Clones
             /\ d.head = c.head
             /\ d.base = c.base
             /\ d.theirs = remote
             /\ \A p \in Paths : d.index[p] \in {c.index[p], remote.files[p]}
<1> DEFINE clash == Conflicts(c, remote)
           clean == Incoming(c, remote) \ clash
           Torn(p) == CASE c.head.files[p] = Absent -> remote.files[p]
                        [] remote.files[p] = Absent -> c.tree[p]
                        [] OTHER -> Mangled
           index == Take(c.index, clean, remote.files)
           tree  == [p \in Paths |-> IF p \in clash THEN Torn(p)
                                     ELSE IF p \in clean THEN remote.files[p]
                                     ELSE c.tree[p]]
<1>1. remote.files \in Snapshots /\ remote.past \subseteq Committers
  BY DEF Commits
<1>2. clash \subseteq Paths
  BY DEF Conflicts, Incoming
<1>3. /\ index \in Snapshots
      /\ \A p \in Paths : index[p] = IF p \in clean THEN remote.files[p] ELSE c.index[p]
  <2> HIDE DEF clean
  <2> QED
    BY <1>1, CloneFields, TakeTypes
<1>4. tree \in Snapshots
  <2>1. ASSUME NEW p \in Paths
        PROVE  Torn(p) \in Contents /\ remote.files[p] \in Contents /\ c.tree[p] \in Contents
    BY <1>1, CloneFields, ContentTypes DEF Snapshots
  <2> HIDE DEF clash, clean, Torn
  <2> QED
    BY <2>1 DEF Snapshots
<1>5. Stopped(c, remote) = [c EXCEPT !.theirs = remote, !.unmerged = clash,
                                     !.index = index, !.tree = tree]
  BY DEF Stopped, Clones
<1> HIDE DEF clash, index, tree
<1>6. /\ Stopped(c, remote) \in Clones
      /\ Stopped(c, remote).head = c.head
      /\ Stopped(c, remote).base = c.base
      /\ Stopped(c, remote).theirs = remote
      /\ Stopped(c, remote).index = index
  BY <1>1, <1>2, <1>3, <1>4, <1>5 DEF Clones
<1> QED
  BY <1>3, <1>6

(* What can come of a pull. *)
LEMMA PullOutcomes ==
  ASSUME NEW c \in Clones, NEW remote \in Commits, NEW out \in Pulls(c, remote)
  PROVE  /\ out.clone \in Clones
         /\ \/ out.clone = c
            \/ /\ out.clone = Merged(c, remote)
               /\ c.theirs = NoMerge /\ c.unmerged = {}
               /\ ~UpToDate(c, remote)
            \/ out.clone = Stopped(c, remote) /\ c.theirs = NoMerge /\ ~out.ok
         /\ out.ok =>
              /\ c.theirs = NoMerge /\ c.unmerged = {}
              /\ out.clone # c => out.clone = Merged(c, remote)
              /\ out.clone = c \/ ~UpToDate(c, remote)
              /\ out.clone = c => UpToDate(c, remote) \/ Merged(c, remote) = c
<1>1. \/ out = [ok |-> FALSE, clone |-> c]
      \/ /\ ~Refuses(c, remote)
         /\ \/ out = [ok |-> TRUE, clone |-> c] /\ UpToDate(c, remote)
            \/ out = [ok |-> TRUE, clone |-> Merged(c, remote)] /\ ~UpToDate(c, remote)
            \/ out = [ok |-> FALSE, clone |-> Stopped(c, remote)]
  BY DEF Pulls
<1>2. ~Refuses(c, remote) => c.theirs = NoMerge /\ c.unmerged = {}
  BY DEF Refuses
<1> QED
  BY <1>1, <1>2, MergedEffect, StoppedEffect
=============================================================================
