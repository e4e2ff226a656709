---------------------------- MODULE MCEtcdAdapter ----------------------------
(* The requests of the runs of EtcdAdapter. *)
EXTENDS EtcdStore, TLC

CONSTANTS n1, n2, v1, v2, v3, h1, h2, f1

Yaml(v)     == [f \in AllFiles |-> IF f = Kustomization THEN v ELSE Absent]
WithFile(v) == [f \in AllFiles |-> IF f = Kustomization THEN v ELSE v1]

Apply(n, c, o, h)  == [kind |-> "apply", name |-> n, content |-> c, old |-> o, at |-> h]
Delete(n, c, o, h) == [kind |-> "delete", name |-> n, content |-> c, old |-> o, at |-> h]
OldOf(n, v)        == [name |-> n, yaml |-> v]

NoNeeds  == [v \in Values |-> {}]
V1NeedsF == [v \in Values |-> IF v = v1 THEN {f1} ELSE {}]

(* One instance, no files: a guarded update and a deletion. *)
LockAsks == {Apply(n1, Yaml(v2), OldOf(n1, v1), h1),
             Delete(n1, Yaml(v1), NoOld, h1)}

(* One instance, v1 coming with a file, v2 rejected by kustomize and v3 by *)
(* kubectl; deletes on both replicas, one with its file and one without.   *)
ToolAsks == {Apply(n1, WithFile(v1), NoOld, h1),
             Apply(n1, Yaml(v2), NoOld, h1),
             Apply(n1, Yaml(v3), NoOld, h1),
             Delete(n1, WithFile(v1), OldOf(n1, v1), h1),
             Delete(n1, Yaml(v1), NoOld, h2),
             Delete(n1, Yaml(v1), OldOf(n2, v1), h2)}

(* v1 with the file it names, and without. *)
LeftoverAsks == {Apply(n1, WithFile(v1), NoOld, h1), Apply(n1, Yaml(v1), NoOld, h1)}

(* Two instances, the name of n2 being that of n1 with "-lock" appended;   *)
(* n2 may have a file, and kustomize rejects v3.                           *)
PrefixAsks == {Delete(n1, Yaml(v1), NoOld, h1),
               Apply(n1, Yaml(v2), OldOf(n1, v1), h1),
               Apply(n2, Yaml(v3), NoOld, h1),
               Delete(n2, Yaml(v1), OldOf(n2, v1), h1)}
CollisionAsks == {Apply(n1, Yaml(v2), NoOld, h1), Apply(n2, WithFile(v2), NoOld, h1)}

Nothing    == [n \in Names |-> EmptyDir]
AllV1      == [n \in Names |-> Yaml(v1)]
AllV1File  == [n \in Names |-> WithFile(v1)]
N2WithFile == [AllV1 EXCEPT ![n2] = WithFile(v1)]
V1OrFile   == {AllV1, N2WithFile}
FromV1     == {AllV1}
EmptyOrV1File == {Nothing, AllV1File}

Itself  == {<<n, n>> : n \in Names}
FileKeys == Names \X Files
Anyone   == Names \X Names
N2LockOfN1 == {<<n2, n1>>}
N1ofN2  == Itself \cup {<<n1, n2>>}

Symmetry == Permutations(Sessions)
=============================================================================
