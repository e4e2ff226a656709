---------------------------- MODULE InstanceStore ----------------------------
(***************************************************************************)
(* What Apply and Delete promise of the State Store: each request looks at *)
(* the stored kustomization.yaml of its instance and replaces it in one    *)
(* step, and only if the old_instance it came with is the stored one.  A   *)
(* request that fails may or may not have taken effect; one that is        *)
(* refused has not, and saw a reason.  For an exposed instance, whose lock *)
(* has stopped protecting it, nothing is promised.                         *)
(***************************************************************************)
CONSTANTS Clients, Names, Values, Absent, NoOld

VARIABLES
  store,     \* the kustomization.yaml of each instance
  asked,     \* what each client asks
  answer,    \* what it is told; "open" before, "taken" between effect and answer
  exposed    \* instances nothing is promised about

storeVars == <<store, asked, answer, exposed>>

IsDelete(c) == asked[c].kind = "delete"
Target(c)   == asked[c].name
Wanted(c)   == IF IsDelete(c) THEN Absent ELSE asked[c].yaml

(* The stored kustomization.yaml is one the request may replace. *)
Expected(c) ==
  /\ IsDelete(c) => store[Target(c)] # Absent
  /\ asked[c].old # NoOld => store[Target(c)] = asked[c].old.yaml

Tell(c, a) == answer' = [answer EXCEPT ![c] = a]

StoreInit ==
  /\ store \in [Names -> Values \cup {Absent}]
  /\ asked \in [Clients -> [kind : {"apply", "delete"}, name : Names,
                            yaml : Values \cup {Absent},
                            old : [name : Names, yaml : Values] \cup {NoOld}]]
  /\ answer = [c \in Clients |-> "open"]
  /\ exposed = {}

(* Compare and set, of the one instance. *)
Effect(c) ==
  /\ answer[c] = "open"
  /\ Target(c) \notin exposed => Expected(c) /\ store'[Target(c)] = Wanted(c)
  /\ \A n \in Names \ (exposed' \cup {Target(c)}) : store'[n] = store[n]
  /\ exposed \subseteq exposed'
  /\ UNCHANGED asked

Take(c) == \E a \in {"taken", "ok", "failed"} : Effect(c) /\ Tell(c, a)

Finish(c) ==
  /\ answer[c] = "taken"
  /\ \E a \in {"ok", "failed"} : Tell(c, a)
  /\ UNCHANGED <<store, asked, exposed>>

Refuse(c) ==
  /\ answer[c] = "open"
  /\ \/ /\ asked[c].old # NoOld /\ asked[c].old.name # Target(c)
        /\ Tell(c, "mismatch")
     \/ /\ store[Target(c)] = Absent
        /\ IsDelete(c) \/ asked[c].old # NoOld
        /\ Tell(c, "absent")
     \/ /\ asked[c].old # NoOld /\ asked[c].old.yaml # store[Target(c)]
        /\ Tell(c, "differs")
     \/ Tell(c, "failed")
  /\ UNCHANGED <<store, asked, exposed>>

Expose ==
  /\ exposed \subseteq exposed'
  /\ UNCHANGED <<store, asked, answer>>

StoreNext == (\E c \in Clients : Take(c) \/ Finish(c) \/ Refuse(c)) \/ Expose

StoreSpec == StoreInit /\ [][StoreNext]_storeVars
=============================================================================
