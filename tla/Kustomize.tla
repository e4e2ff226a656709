------------------------------ MODULE Kustomize ------------------------------
(***************************************************************************)
(* The content of an instance directory, and what `kustomize build` makes  *)
(* of it (pkg/instances/instances.go KustomizeBuild, and the first half of *)
(* PipeKustomizeToKubectl).  An instance is a kustomization.yaml and the   *)
(* files that ride along with it; a file's contents is a member of Values, *)
(* and of a kustomization.yaml only two things matter here: whether        *)
(* kustomize rejects it, and which other files it names.  What kubectl     *)
(* makes of the objects that come out is not kustomize's business.         *)
(***************************************************************************)
CONSTANTS
  Values,          \* contents of files
  Rejected,        \* the kustomization.yaml contents `kustomize build` rejects
  Files,           \* names of files other than kustomization.yaml
  Kustomization,   \* the name of kustomization.yaml
  Absent           \* no file, no key, no object

ASSUME KustomizeAssumption ==
  /\ Rejected \subseteq Values
  /\ Absent \notin Values
  /\ Kustomization \notin Files

AllFiles == Files \cup {Kustomization}

Contents == Values \cup {Absent}

(* A directory, or the part of the store, that belongs to one instance. *)
Directories == [AllFiles -> Contents]

EmptyDir == [f \in AllFiles |-> Absent]

Present(dir) == {f \in AllFiles : dir[f] # Absent}

(* `kustomize build` prints something and exits 0: the kustomization.yaml   *)
(* is there, is not one kustomize rejects, and the files that it names     *)
(* (needs) are all there.                                                  *)
Builds(dir, needs) ==
  /\ dir[Kustomization] \in Values \ Rejected
  /\ \A f \in needs[dir[Kustomization]] : dir[f] # Absent
=============================================================================
