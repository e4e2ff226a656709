------------------------------ MODULE EtcdStore ------------------------------
(***************************************************************************)
(* EtcdAdapter implements InstanceStore.  A request takes effect with the  *)
(* first Put of an Apply, or the Delete; it is refused at the read that    *)
(* refuses it.  Requests cut short by a crash stay open, or, with their    *)
(* kustomization.yaml already put, taken.                                  *)
(***************************************************************************)
EXTENDS EtcdAdapter

Asked(s) ==
  [kind |-> op[s].kind, name |-> Name(s), old |-> op[s].old,
   yaml |-> IF IsApply(s) THEN Content(s)[Kustomization] ELSE Absent]

Told(s) ==
  IF result[s] # "none" THEN result[s]
  ELSE IF HalfPut(s) \/ pc[s] = "torn" THEN "taken" ELSE "open"

Store == INSTANCE InstanceStore WITH
  Clients <- Sessions,
  store   <- [n \in Names |-> kv[n][Kustomization]],
  asked   <- [s \in Sessions |-> Asked(s)],
  answer  <- [s \in Sessions |-> Told(s)]

(* Up to exposure, each Apply and Delete behaves as one compare-and-set of *)
(* its instance: no stored version is overwritten by a request that names  *)
(* another as its old_instance, no delete removes what was not there, and  *)
(* a refusal has a reason that was true when it was given.                 *)
ImplementsStore == Store!StoreSpec

(* Why: a request is answered where it leaves, and what only a delete or   *)
(* only a guarded request does is done by no other.                        *)
AnswersInStep ==
  \A s \in Sessions :
    /\ pc[s] \notin {"unlock", "close", "done", "crashed"} => result[s] = "none"
    /\ pc[s] \in {"precheck", "load"} => ~IsApply(s)
    /\ pc[s] \in {"exists", "compare"} => op[s].old # NoOld
=============================================================================
