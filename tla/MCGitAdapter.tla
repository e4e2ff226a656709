---------------------------- MODULE MCGitAdapter ----------------------------
(* The requests of the runs of GitAdapter. *)
EXTENDS GitAdapter, TLC

CONSTANTS n1, n2, v1, v2, v3, h1, h2, f1

Yaml(v)     == [f \in AllFiles |-> IF f = Kustomization THEN v ELSE Absent]
WithFile(v) == [f \in AllFiles |-> IF f = Kustomization THEN v ELSE v1]

Apply(n, c, o, h)  == [kind |-> "apply", name |-> n, content |-> c, old |-> o, at |-> h]
Delete(n, c, o, h) == [kind |-> "delete", name |-> n, content |-> c, old |-> o, at |-> h]
Get(n, h)          == [kind |-> "get", name |-> n, content |-> Yaml(v1), old |-> NoOld, at |-> h]
OldOf(n, v)        == [name |-> n, yaml |-> v]

NoNeeds  == [v \in Values |-> {}]

(* Two instances; v3 is rejected by the tools, and comes with a file.      *)
GitAsks == {Apply(n1, Yaml(v2), OldOf(n1, v1), h2),
            Apply(n1, WithFile(v3), NoOld, h1),
            Apply(n2, Yaml(v2), NoOld, h1),
            Delete(n1, Yaml(v1), OldOf(n1, v1), h1),
            Get(n1, h1)}

(* Under the lock: a guarded update and a deletion; and a Get.             *)
LockAsks == {Apply(n1, Yaml(v2), OldOf(n1, v1), h1),
             Delete(n1, Yaml(v1), NoOld, h1),
             Get(n1, h1)}

(* What the documentation promises of one request after another.           *)
RetryAsks  == {Apply(n1, Yaml(v2), NoOld, h1), Apply(n2, Yaml(v2), NoOld, h1)}

AllV1      == [p \in Paths |-> IF p[2] = Kustomization THEN v1 ELSE Absent]
FromV1     == {AllV1}
FromEither == {AllV1, [p \in Paths |-> Absent]}

Unkeyed  == {[h \in Replicas |-> NoLock]}
AllKeyed == [Replicas -> Locks]

(* Bounds of git_requests: nothing goes on while more than one replica is  *)
(* down, or one that was idle when it died: its start is a pull, as a      *)
(* Get's is.                                                               *)
OneDown    == \A g, h \in Replicas \ up : g = h
DiesAtWork == \A h \in Replicas \ up : \E s \in Sessions : op[s].at = h /\ pc[s] = "crashed"

Symmetry == Permutations(Sessions)
=============================================================================
