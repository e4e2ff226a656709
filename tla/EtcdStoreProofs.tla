--------------------------- MODULE EtcdStoreProofs ---------------------------
(***************************************************************************)
(* Apply and Delete, as the etcd adapter does them, are compare-and-sets   *)
(* of their instance: every step of EtcdAdapter is, through the mapping of *)
(* EtcdStore, a step of InstanceStore or none.                             *)
(***************************************************************************)
EXTENDS EtcdStore, EtcdFilesProofs

(* A request has an answer once it leaves, and not before.                 *)
LEMMA RequestAnswers ==
  ASSUME AdapterTypeOK, AnswersInStep, NEW s \in Sessions, RequestStep(s)
  PROVE  /\ pc'[s] \notin {"unlock", "close", "done", "crashed"} => result'[s] = "none"
         /\ pc'[s] \in {"precheck", "load"} => ~IsApply(s)
         /\ pc'[s] \in {"exists", "compare"} => op[s].old # NoOld
         /\ \A t \in Sessions \ {s} : result'[t] = result[t]
<1> USE DEF AdapterTypeOK, Goto, Answer, Return, Leave, AnswersInStep, AfterLock,
            AfterCheck
<1>1. CASE OpenSession(s)
  BY <1>1 DEF OpenSession
<1>2. CASE Lock(s) \/ Wait(s)
  BY <1>2 DEF Lock, Wait
<1>3. CASE Begin(s) \/ PreCheck(s) \/ PreCheckFails(s)
  BY <1>3 DEF Begin, PreCheck, PreCheckFails
<1>4. CASE CheckExists(s) \/ Compare(s) \/ ReadFails(s)
  BY <1>4 DEF CheckExists, Compare, ReadFails
<1>5. CASE Load(s)
  BY <1>5 DEF Load
<1>6. CASE WriteFile(s) \/ WriteFails(s)
  BY <1>6 DEF WriteFile, WriteFails, AfterWrite
<1>7. CASE Build(s) \/ Kubectl(s) \/ ToolFails(s)
  BY <1>7 DEF Build, Kubectl, ToolFails
<1>8. CASE CommitPut(s) \/ CommitPutFails(s)
  BY <1>8 DEF CommitPut, CommitPutFails
<1>9. CASE CommitDelete(s) \/ CommitDeleteFails(s)
  BY <1>9 DEF CommitDelete, CommitDeleteFails
<1>10. CASE Release(s) \/ Close(s)
  BY <1>10 DEF Release, Close
<1> QED
  BY <1>1, <1>2, <1>3, <1>4, <1>5, <1>6, <1>7, <1>8, <1>9, <1>10 DEF RequestStep

LEMMA AnswersStep ==
  AdapterTypeOK /\ MutexTypeOK /\ AnswersInStep /\ [AdapterNext]_vars => AnswersInStep'
<1> SUFFICES ASSUME AdapterTypeOK, MutexTypeOK, AnswersInStep, [AdapterNext]_vars
             PROVE  AnswersInStep'
  OBVIOUS
<1>1. ASSUME NEW s \in Sessions, RequestStep(s) PROVE AnswersInStep'
  <2>1. ASSUME NEW t \in Sessions
        PROVE  /\ IsApply(t)' = IsApply(t) /\ op'[t].old = op[t].old
               /\ t # s => pc'[t] = pc[t] /\ result'[t] = result[t]
    BY <1>1, RequestsAreKept, RequestsAreLocal, RequestAnswers
  <2> QED
    BY <1>1, <2>1, RequestAnswers DEF AnswersInStep
<1>2. ASSUME NEW s \in Sessions, LeaseStep(s) PROVE AnswersInStep'
  BY <1>2 DEF LeaseStep, KeepAliveEnds, LeaseExpires, adapterVars, requestVars,
     AnswersInStep, IsApply
<1>3. ASSUME NEW h \in Replicas, Crash(h) PROVE AnswersInStep'
  <2>1. UNCHANGED <<op, result>>
    BY <1>3 DEF Crash, requestVars
  <2>2. ASSUME NEW t \in Sessions
        PROVE  \/ pc'[t] = pc[t]
               \/ pc'[t] = "crashed"
               \/ pc'[t] = "torn" /\ pc[t] = "commit"
    BY <1>3 DEF Crash, HalfPut
  <2> QED
    BY <2>1, <2>2 DEF AnswersInStep, IsApply
<1>4. CASE UNCHANGED vars
  BY <1>4 DEF vars, adapterVars, AnswersInStep, IsApply
<1> QED
  BY <1>1, <1>2, <1>3, <1>4 DEF AdapterNext

-----------------------------------------------------------------------------
(* What a request asks does not change.                                    *)
LEMMA AskedIsKept ==
  ASSUME AdapterTypeOK, AnswersInStep, NEW s \in Sessions, RequestStep(s),
         NEW t \in Sessions
  PROVE  Asked(t)' = Asked(t)
<1>1. /\ Name(t)' = Name(t) /\ IsApply(t)' = IsApply(t) /\ op'[t].old = op[t].old
      /\ pc[t] # "load" => op'[t] = op[t]
  BY RequestsAreKept
<1>2. op[t].kind \in {"apply", "delete"} /\ op'[t].kind \in {"apply", "delete"}
  BY RequestTypes, RequestTypeStep, RequestTypes DEF AdapterTypeOK, Requests
<1>3. op'[t].kind = op[t].kind
  BY <1>1, <1>2 DEF IsApply
<1>4. IsApply(t) => op'[t] = op[t]
  BY <1>1 DEF AnswersInStep
<1> QED
  BY <1>1, <1>3, <1>4 DEF Asked, Content

(* The steps of InstanceStore in terms of the adapter's state.             *)
LEMMA OneAnswer ==
  ASSUME NEW s \in Sessions, \A t \in Sessions \ {s} : Told(t)' = Told(t)
  PROVE  Store!Tell(s, Told(s)')
BY DEF Store!Tell

LEMMA StoreStutters ==
  ASSUME UNCHANGED exposed,
         \A n \in Names : kv'[n][Kustomization] = kv[n][Kustomization],
         \A t \in Sessions : Asked(t)' = Asked(t) /\ Told(t)' = Told(t)
  PROVE  UNCHANGED Store!storeVars
BY DEF Store!storeVars

LEMMA StoreExposes ==
  ASSUME exposed \subseteq exposed', UNCHANGED kv,
         \A t \in Sessions : Asked(t)' = Asked(t) /\ Told(t)' = Told(t)
  PROVE  Store!Expose
BY DEF Store!Expose

LEMMA StoreRefuses ==
  ASSUME AdapterTypeOK, NEW s \in Sessions, UNCHANGED <<kv, exposed>>,
         \A t \in Sessions : Asked(t)' = Asked(t),
         \A t \in Sessions \ {s} : Told(t)' = Told(t),
         Told(s) = "open",
         \/ Told(s)' = "failed"
         \/ /\ Told(s)' = "mismatch"
            /\ op[s].old # NoOld /\ op[s].old.name # Name(s)
         \/ /\ Told(s)' = "absent"
            /\ Stored(s) = Absent
            /\ op[s].kind = "delete" \/ op[s].old # NoOld
         \/ /\ Told(s)' = "differs"
            /\ op[s].old # NoOld /\ op[s].old.yaml # Stored(s)
  PROVE  Store!Refuse(s)
<1>1. Store!Tell(s, Told(s)')
  BY OneAnswer
<1>2. Name(s) \in Names
  BY RequestTypes
<1> QED
  BY <1>1, <1>2 DEF Store!Refuse, Store!Target, Store!IsDelete, Asked, Stored

LEMMA StoreTakes ==
  ASSUME AdapterTypeOK, NEW s \in Sessions, exposed \subseteq exposed',
         \A t \in Sessions : Asked(t)' = Asked(t),
         \A t \in Sessions \ {s} : Told(t)' = Told(t),
         Told(s) = "open", Told(s)' \in {"taken", "ok", "failed"},
         \A n \in Names \ {Name(s)} :
           n \in exposed' \/ kv'[n][Kustomization] = kv[n][Kustomization],
         Name(s) \notin exposed =>
           /\ op[s].kind = "delete" => Stored(s) # Absent
           /\ op[s].old # NoOld => Stored(s) = op[s].old.yaml
           /\ kv'[Name(s)][Kustomization] = Asked(s).yaml,
         op[s].kind = "delete" => Asked(s).yaml = Absent
  PROVE  Store!Take(s)
<1>1. Store!Tell(s, Told(s)')
  BY OneAnswer
<1>2. Name(s) \in Names
  BY RequestTypes
<1>3. Store!Target(s) = Name(s)
  BY DEF Store!Target, Asked
<1>4. Name(s) \notin exposed =>
        /\ Store!Expected(s)
        /\ [n \in Names |-> kv[n][Kustomization]]'[Name(s)] = Store!Wanted(s)
  BY <1>2, <1>3 DEF Store!Expected, Store!Wanted, Store!IsDelete, Asked, Stored
<1>5. Store!Effect(s)
  BY <1>2, <1>3, <1>4 DEF Store!Effect
<1> QED
  BY <1>1, <1>5 DEF Store!Take

LEMMA StoreFinishes ==
  ASSUME NEW s \in Sessions, UNCHANGED exposed,
         \A n \in Names : kv'[n][Kustomization] = kv[n][Kustomization],
         \A t \in Sessions : Asked(t)' = Asked(t),
         \A t \in Sessions \ {s} : Told(t)' = Told(t),
         Told(s) = "taken", Told(s)' \in {"ok", "failed"}
  PROVE  Store!Finish(s)
<1>1. Store!Tell(s, Told(s)')
  BY OneAnswer
<1> QED
  BY <1>1 DEF Store!Finish

-----------------------------------------------------------------------------
LEMMA OthersTold ==
  ASSUME AdapterTypeOK, MutexTypeOK, AnswersInStep, NEW s \in Sessions, RequestStep(s),
         NEW t \in Sessions \ {s}
  PROVE  Told(t)' = Told(t)
BY RequestsAreLocal, RequestsAreKept, RequestAnswers DEF Told, HalfPut, IsApply

(* A refusal has its reason, and leaves the store as it is.                *)
LEMMA RefusalsHaveReasons ==
  ASSUME AdapterTypeOK, AnswersInStep, NEW s \in Sessions, RequestStep(s),
         pc[s] \notin {"commit", "unlock", "close"}
  PROVE  /\ UNCHANGED <<kv, exposed>>
         /\ pc[s] \notin {"done", "crashed", "torn"}
         /\ pc'[s] # "torn"
         /\ \/ result'[s] \in {"none", "failed"}
            \/ /\ result'[s] = "mismatch"
               /\ op[s].old # NoOld /\ op[s].old.name # Name(s)
            \/ /\ result'[s] = "absent"
               /\ Stored(s) = Absent
               /\ op[s].kind = "delete" \/ op[s].old # NoOld
            \/ /\ result'[s] = "differs"
               /\ op[s].old # NoOld /\ op[s].old.yaml # Stored(s)
<1> USE AfterLockPlaces
    DEF AdapterTypeOK, Goto, Answer, Return, Leave, AnswersInStep, storeVars
<1>1. CASE OpenSession(s)
  BY <1>1 DEF OpenSession
<1>2. CASE Lock(s) \/ Wait(s)
  BY <1>2 DEF Lock, Wait
<1>3. CASE Begin(s)
  BY <1>3 DEF Begin, NamesEquate
<1>4. CASE PreCheck(s) \/ PreCheckFails(s)
  BY <1>4, RequestTypes DEF PreCheck, PreCheckFails, IsApply
<1>5. CASE CheckExists(s) \/ Compare(s) \/ ReadFails(s)
  BY <1>5 DEF CheckExists, Compare, ReadFails
<1>6. CASE Load(s)
  BY <1>6 DEF Load
<1>7. CASE WriteFile(s) \/ WriteFails(s)
  BY <1>7 DEF WriteFile, WriteFails
<1>8. CASE Build(s) \/ Kubectl(s) \/ ToolFails(s)
  BY <1>8 DEF Build, Kubectl, ToolFails
<1> QED
  BY <1>1, <1>2, <1>3, <1>4, <1>5, <1>6, <1>7, <1>8
  DEF RequestStep, CommitPut, CommitPutFails, CommitDelete, CommitDeleteFails,
      Release, Close

(* Up to Commit a request leaves the store alone or is refused.            *)
LEMMA EarlyMaps ==
  ASSUME AdapterTypeOK, MutexTypeOK, AnswersInStep, LoopsBegin,
         NEW s \in Sessions, RequestStep(s), pc[s] \notin {"commit", "unlock", "close"}
  PROVE  Store!Refuse(s) \/ UNCHANGED Store!storeVars
<1>1. /\ \A t \in Sessions : Asked(t)' = Asked(t)
      /\ \A t \in Sessions \ {s} : Told(t)' = Told(t)
      /\ UNCHANGED <<kv, exposed>>
  BY AskedIsKept, OthersTold, RefusalsHaveReasons
<1>2. Told(s) = "open"
  BY RefusalsHaveReasons DEF Told, HalfPut, AnswersInStep, IsApply
<1>3. ~HalfPut(s)'
  <2>1. pc'[s] = "commit" => Kustomization \in Present(Content(s))'
    BY RequestLoops DEF Present, Content, AllFiles
  <2> QED
    BY <2>1, RequestLoops DEF HalfPut, IsApply
<1>4. Told(s)' = IF result'[s] # "none" THEN result'[s] ELSE "open"
  BY <1>3, RefusalsHaveReasons DEF Told, HalfPut, IsApply
<1>5. CASE result'[s] = "none"
  <2>1. Told(s)' = Told(s)
    BY <1>2, <1>4, <1>5
  <2>2. \A t \in Sessions : Told(t)' = Told(t)
    BY <1>1, <2>1
  <2> QED
    BY <1>1, <2>2, StoreStutters
<1>6. CASE result'[s] # "none"
  <2>1. Told(s)' = result'[s]
    BY <1>4, <1>6
  <2> QED
    BY <1>1, <1>2, <1>6, <2>1, RefusalsHaveReasons, StoreRefuses
<1> QED
  BY <1>5, <1>6

(* What a Put of one file does to the store.                               *)
LEMMA PutStores ==
  ASSUME AdapterTypeOK, NEW s \in Sessions, NEW f \in FirstOf(todo[s]), PutInStore(s, f)
  PROVE  /\ \A n \in Names \ {Name(s)} : kv'[n][Kustomization] = kv[n][Kustomization]
         /\ f = Kustomization => kv'[Name(s)][Kustomization] = Content(s)[Kustomization]
         /\ f # Kustomization => kv'[Name(s)][Kustomization] = Stored(s)
<1>1. /\ f \in AllFiles /\ kv[Name(s)] \in Directories /\ Kustomization \in AllFiles
      /\ Name(s) \in Names
  BY NextFileTypes, RequestTypes DEF AdapterTypeOK, AllFiles
<1>2. \A n \in Names :
        kv'[n] = IF n = Name(s) THEN [kv[n] EXCEPT ![f] = Content(s)[f]] ELSE kv[n]
  BY DEF PutInStore, AdapterTypeOK
<1> QED
  BY <1>1, <1>2 DEF Directories, Stored

(* A Put, or a failed one, is the request's effect if it puts the          *)
(* kustomization.yaml, and comes after the effect if it puts another file. *)
LEMMA PutMaps ==
  ASSUME AdapterTypeOK, MutexTypeOK, AnswersInStep, CheckStillHolds,
         NEW s \in Sessions, RequestStep(s), CommitPut(s) \/ CommitPutFails(s)
  PROVE  Store!StoreNext \/ UNCHANGED Store!storeVars
<1>1. /\ \A t \in Sessions : Asked(t)' = Asked(t)
      /\ \A t \in Sessions \ {s} : Told(t)' = Told(t)
  BY AskedIsKept, OthersTold
<1>2. /\ pc[s] = "commit" /\ IsApply(s) /\ result[s] = "none"
      /\ UNCHANGED <<op, exposed>>
      /\ op[s].kind # "delete"
      /\ Name(s) \in Names
  BY RequestTypes DEF CommitPut, CommitPutFails, AnswersInStep, requestVars, IsApply
<1>3. Told(s) = IF Kustomization \in todo[s] THEN "open" ELSE "taken"
  BY <1>2 DEF Told, HalfPut, IsApply
<1>4. ASSUME NEW f \in FirstOf(todo[s]), PutInStore(s, f),
             \/ Told(s)' \in {"ok", "failed"}
             \/ Told(s)' = "taken"
      PROVE  Store!StoreNext \/ UNCHANGED Store!storeVars
    <2>1. CASE Kustomization \in todo[s]
      <3>1. f = Kustomization
        BY <2>1 DEF FirstOf
      <3>2. /\ \A n \in Names \ {Name(s)} : kv'[n][Kustomization] = kv[n][Kustomization]
            /\ kv'[Name(s)][Kustomization] = Content(s)[Kustomization]
        BY <1>4, <3>1, PutStores
      <3>3. Name(s) \notin exposed /\ op[s].old # NoOld => Stored(s) = op[s].old.yaml
        BY <1>2, <2>1 DEF CheckStillHolds, Compared, HalfPut
      <3>4. Asked(s).yaml = Content(s)[Kustomization]
        BY <1>2 DEF Asked
      <3>5. Store!Take(s)
        BY <1>1, <1>2, <1>3, <1>4, <2>1, <3>2, <3>3, <3>4, StoreTakes
      <3> QED
        BY <3>5 DEF Store!StoreNext
    <2>2. CASE Kustomization \notin todo[s]
      <3>1. f # Kustomization
        BY <2>2 DEF FirstOf
      <3>2. \A n \in Names : kv'[n][Kustomization] = kv[n][Kustomization]
        BY <1>2, <1>4, <3>1, PutStores DEF Stored
      <3>3. Told(s) = "taken"
        BY <1>3, <2>2
      <3>4. CASE Told(s)' = "taken"
        <4>1. \A t \in Sessions : Told(t)' = Told(t)
          BY <1>1, <3>3, <3>4
        <4> QED
          BY <1>1, <1>2, <3>2, <4>1, StoreStutters
      <3>5. CASE Told(s)' \in {"ok", "failed"}
        <4>1. Store!Finish(s)
          BY <1>1, <1>2, <3>2, <3>3, <3>5, StoreFinishes
        <4> QED
          BY <4>1 DEF Store!StoreNext
      <3> QED
        BY <1>4, <3>4, <3>5
    <2> QED
      BY <2>1, <2>2
<1>5. CASE CommitPut(s)
  <2>1. PICK f \in FirstOf(todo[s]) :
          /\ PutInStore(s, f)
          /\ todo' = [todo EXCEPT ![s] = @ \ {f}]
          /\ IF todo[s] = {f} THEN Leave(s, "ok") ELSE UNCHANGED <<pc, result>>
    BY <1>5 DEF CommitPut
  <2>2. Kustomization \notin todo'[s]
    BY <2>1 DEF FirstOf, AdapterTypeOK
  <2>3. result'[s] = "ok" \/ (pc'[s] = "commit" /\ result'[s] = "none")
    BY <1>2, <2>1 DEF Leave, Answer, AdapterTypeOK
  <2>4. Told(s)' \in {"ok", "taken"}
    BY <1>2, <2>2, <2>3 DEF Told, HalfPut, IsApply
  <2> QED
    BY <1>4, <2>1, <2>4
<1>6. CASE CommitPutFails(s)
  <2>1. result'[s] = "failed"
    BY <1>6 DEF CommitPutFails, Leave, Answer, AdapterTypeOK
  <2>2. Told(s)' = "failed"
    BY <2>1 DEF Told, HalfPut, IsApply
  <2>3. CASE UNCHANGED kv
    <3>1. CASE Told(s) = "open"
      BY <1>1, <1>2, <2>2, <2>3, <3>1, StoreRefuses DEF Store!StoreNext
    <3>2. CASE Told(s) = "taken"
      BY <1>1, <1>2, <2>2, <2>3, <3>2, StoreFinishes DEF Store!StoreNext
    <3> QED
      BY <1>3, <3>1, <3>2
  <2>4. CASE \E f \in FirstOf(todo[s]) : PutInStore(s, f)
    BY <1>4, <2>2, <2>4
  <2> QED
    BY <1>6, <2>3, <2>4 DEF CommitPutFails
<1> QED
  BY <1>5, <1>6

(* A Delete is the request's effect; where it empties another instance it  *)
(* exposes it.                                                             *)
LEMMA DeleteMaps ==
  ASSUME AdapterTypeOK, MutexTypeOK, AnswersInStep, CheckStillHolds, LoopsBegin,
         NEW s \in Sessions, RequestStep(s), CommitDelete(s) \/ CommitDeleteFails(s)
  PROVE  Store!StoreNext
<1>1. /\ \A t \in Sessions : Asked(t)' = Asked(t)
      /\ \A t \in Sessions \ {s} : Told(t)' = Told(t)
      /\ exposed \subseteq exposed'
  BY AskedIsKept, OthersTold, RequestsExpose
<1>2. /\ pc[s] = "commit" /\ ~IsApply(s) /\ result[s] = "none"
      /\ Name(s) \in Names
      /\ Asked(s).yaml = Absent
  BY RequestTypes DEF CommitDelete, CommitDeleteFails, AnswersInStep, Asked
<1>3. Told(s) = "open"
  BY <1>2 DEF Told, HalfPut, IsApply
<1>4. result'[s] \in {"ok", "failed"}
  BY DEF CommitDelete, CommitDeleteFails, Leave, Answer, AdapterTypeOK
<1>5. Told(s)' = result'[s]
  BY <1>4 DEF Told, HalfPut, IsApply
<1>6. CASE DeleteUnder(s)
  <2>1. \A n \in Names : kv'[n] = IF n \in Under(Name(s)) THEN EmptyDir ELSE kv[n]
    BY <1>6 DEF DeleteUnder
  <2>2. \A n \in Under(Name(s)) \ {Name(s)} : kv[n] # EmptyDir => n \in exposed'
    BY <1>6 DEF DeleteUnder
  <2>3. Name(s) \in Under(Name(s)) /\ EmptyDir[Kustomization] = Absent
    BY <1>2, AdapterAssumption DEF Under, EmptyDir, AllFiles
  <2>4. Name(s) \notin exposed =>
          /\ Stored(s) = Content(s)[Kustomization]
          /\ op[s].old # NoOld => Stored(s) = op[s].old.yaml
    BY <1>2 DEF CheckStillHolds, Compared, HalfPut
  <2>5. Content(s)[Kustomization] # Absent
    BY DEF LoopsBegin
  <2>6. \A n \in Names \ {Name(s)} :
          n \in exposed' \/ kv'[n][Kustomization] = kv[n][Kustomization]
    BY <2>1, <2>2
  <2>7. kv'[Name(s)][Kustomization] = Asked(s).yaml
    BY <1>2, <2>1, <2>3
  <2>8. Store!Take(s)
    BY <1>1, <1>2, <1>3, <1>4, <1>5, <2>4, <2>5, <2>6, <2>7, StoreTakes
  <2> QED
    BY <2>8 DEF Store!StoreNext
<1>7. CASE UNCHANGED <<mutexVars, kv, exposed>> /\ CommitDeleteFails(s)
  <2>1. Told(s)' = "failed"
    BY <1>5, <1>7 DEF CommitDeleteFails, Leave, Answer, AdapterTypeOK
  <2> QED
    BY <1>1, <1>3, <1>7, <2>1, StoreRefuses DEF Store!StoreNext
<1> QED
  BY <1>6, <1>7 DEF CommitDelete, CommitDeleteFails

LEMMA ReleaseMaps ==
  ASSUME AdapterTypeOK, MutexTypeOK, AnswersInStep, NEW s \in Sessions, RequestStep(s),
         Release(s) \/ Close(s)
  PROVE  UNCHANGED Store!storeVars
<1>1. /\ \A t \in Sessions : Asked(t)' = Asked(t)
      /\ \A t \in Sessions \ {s} : Told(t)' = Told(t)
  BY AskedIsKept, OthersTold
<1>2. /\ pc[s] \in {"unlock", "close"} /\ pc'[s] \in {"close", "done"}
      /\ UNCHANGED <<kv, exposed, result>>
  BY DEF Release, Close, Goto, AdapterTypeOK, storeVars
<1>3. Told(s)' = Told(s)
  BY <1>2 DEF Told, HalfPut, IsApply
<1>4. \A t \in Sessions : Told(t)' = Told(t)
  BY <1>1, <1>3
<1> QED
  BY <1>1, <1>2, <1>4, StoreStutters

(* A crash leaves requests open, or taken.                                 *)
LEMMA CrashMaps ==
  ASSUME AdapterTypeOK, AnswersInStep, NEW h \in Replicas, Crash(h)
  PROVE  UNCHANGED Store!storeVars
<1>1. UNCHANGED <<kv, op, todo, result, exposed>>
  BY DEF Crash, requestVars
<1>2. ASSUME NEW t \in Sessions PROVE Asked(t)' = Asked(t) /\ Told(t)' = Told(t)
  <2>1. Asked(t)' = Asked(t)
    BY <1>1 DEF Asked, Name, Content, IsApply
  <2>2. \/ pc'[t] = pc[t]
        \/ HalfPut(t) /\ pc'[t] = "torn"
        \/ ~HalfPut(t) /\ pc[t] # "torn" /\ pc'[t] = "crashed"
    BY DEF Crash, InFlight
  <2>3. Told(t)' = Told(t)
    BY <1>1, <2>2 DEF Told, HalfPut, IsApply
  <2> QED
    BY <2>1, <2>3
<1> QED
  BY <1>1, <1>2, StoreStutters

-----------------------------------------------------------------------------
LEMMA InitMaps == AdapterInit => Store!StoreInit /\ AnswersInStep
<1> SUFFICES ASSUME AdapterInit PROVE Store!StoreInit /\ AnswersInStep
  OBVIOUS
<1>1. AdapterTypeOK
  BY AdapterInitInv DEF AdapterInv
<1>2. \A s \in Sessions : pc[s] = "idle" /\ result[s] = "none"
  BY DEF AdapterInit
<1>3. AnswersInStep
  BY <1>2 DEF AnswersInStep
<1>4. \A s \in Sessions : Told(s) = "open"
  BY <1>2 DEF Told, HalfPut, IsApply
<1>5. \A n \in Names : kv[n][Kustomization] \in Values \cup {Absent}
  BY <1>1 DEF AdapterTypeOK, Directories, Contents, AllFiles
<1>6. ASSUME NEW s \in Sessions
      PROVE  Asked(s) \in [kind : {"apply", "delete"}, name : Names,
                           yaml : Values \cup {Absent},
                           old : [name : Names, yaml : Values] \cup {NoOld}]
  <2>1. op[s] \in Requests /\ Content(s)[Kustomization] \in Contents /\ Name(s) \in Names
    BY <1>1, RequestTypes DEF Directories, AllFiles
  <2> QED
    BY <2>1 DEF Asked, Requests, Old, Contents
<1> QED
  BY <1>3, <1>4, <1>5, <1>6 DEF Store!StoreInit, AdapterInit

LEMMA StepMaps ==
  AdapterInv /\ FilesInv /\ AnswersInStep /\ [AdapterNext]_vars
    => [Store!StoreNext]_Store!storeVars
<1> SUFFICES ASSUME AdapterInv, FilesInv, AnswersInStep, [AdapterNext]_vars
             PROVE  Store!StoreNext \/ UNCHANGED Store!storeVars
  OBVIOUS
<1>1. AdapterTypeOK /\ MutexTypeOK /\ CheckStillHolds /\ LoopsBegin
  BY DEF AdapterInv, MutexInv, FilesInv
<1>2. ASSUME NEW s \in Sessions, RequestStep(s)
      PROVE  Store!StoreNext \/ UNCHANGED Store!storeVars
  <2>1. CASE pc[s] \notin {"commit", "unlock", "close"}
    BY <1>1, <1>2, <2>1, EarlyMaps DEF Store!StoreNext
  <2>2. CASE CommitPut(s) \/ CommitPutFails(s)
    BY <1>1, <1>2, <2>2, PutMaps
  <2>3. CASE CommitDelete(s) \/ CommitDeleteFails(s)
    BY <1>1, <1>2, <2>3, DeleteMaps
  <2>4. CASE Release(s) \/ Close(s)
    BY <1>1, <1>2, <2>4, ReleaseMaps
  <2> QED
    BY <1>2, <2>1, <2>2, <2>3, <2>4 DEF RequestStep, Begin, PreCheck, PreCheckFails,
       OpenSession, Lock, Wait, CheckExists, Compare, Load, ReadFails, WriteFile,
       WriteFails, Build, Kubectl, ToolFails
<1>3. ASSUME NEW s \in Sessions, LeaseStep(s)
      PROVE  Store!StoreNext \/ UNCHANGED Store!storeVars
  <2>1. /\ UNCHANGED <<kv, op, pc, todo, result>>
        /\ exposed \subseteq exposed'
    BY <1>3 DEF LeaseStep, KeepAliveEnds, LeaseExpires, adapterVars, storeVars, requestVars
  <2>2. \A t \in Sessions : Asked(t)' = Asked(t) /\ Told(t)' = Told(t)
    BY <2>1 DEF Asked, Told, Name, Content, HalfPut, IsApply
  <2> QED
    BY <2>1, <2>2, StoreExposes DEF Store!StoreNext
<1>4. ASSUME NEW h \in Replicas, Crash(h) PROVE UNCHANGED Store!storeVars
  BY <1>1, <1>4, CrashMaps
<1>5. CASE UNCHANGED vars
  <2>1. UNCHANGED <<kv, op, pc, todo, result, exposed>>
    BY <1>5 DEF vars, adapterVars
  <2>2. \A t \in Sessions : Asked(t)' = Asked(t) /\ Told(t)' = Told(t)
    BY <2>1 DEF Asked, Told, Name, Content, HalfPut, IsApply
  <2> QED
    BY <2>1, <2>2, StoreStutters
<1> QED
  BY <1>2, <1>3, <1>4, <1>5 DEF AdapterNext

(* Up to exposure, the etcd adapter implements the compare-and-set that    *)
(* old_instance and the state package promise.                             *)
THEOREM AdapterImplementsStore == AdapterSpec => ImplementsStore
<1>1. AdapterInit => Store!StoreInit /\ AnswersInStep
  BY InitMaps
<1>2. AdapterInv /\ AnswersInStep /\ [AdapterNext]_vars => AnswersInStep'
  BY AnswersStep DEF AdapterInv, MutexInv
<1>3. AdapterInv /\ FilesInv /\ AnswersInStep /\ [AdapterNext]_vars
        => [Store!StoreNext]_Store!storeVars
  BY StepMaps
<1> QED
  BY <1>1, <1>2, <1>3, FilesInvariance, PTL
  DEF AdapterSpec, ImplementsStore, Store!StoreSpec

-----------------------------------------------------------------------------
(* Build gives a request its build, and no request is at its tools twice.  *)
LEMMA RequestBuiltOnce ==
  ASSUME AdapterTypeOK, MutexTypeOK, BuiltOnce, NEW s \in Sessions, RequestStep(s)
  PROVE  BuiltOnce'
<1> SUFFICES ASSUME Mode = "kubectl", NEW t \in Sessions
             PROVE  /\ pc'[t] \in {"kubectl", "commit"} => built'[t] # Absent
                    /\ built'[t] # Absent =>
                         pc'[t] \in {"kubectl", "commit", "unlock", "close",
                                    "done", "crashed", "torn"}
  BY DEF BuiltOnce
<1>1. CASE t # s
  BY <1>1, RequestsAreLocal, BuiltChanges DEF BuiltOnce
<1>2. CASE t = s /\ Build(s)
  <2>1. built'[s] = Dir(s)[Kustomization] /\ pc'[s] = "kubectl"
    BY <1>2 DEF Build, Goto, AdapterTypeOK
  <2>2. Dir(s)[Kustomization] # Absent
    BY <1>2, KustomizeAssumption DEF Build, Builds
  <2> QED
    BY <1>2, <2>1, <2>2
<1>3. CASE t = s /\ ~Build(s)
  <2>1. built'[s] = built[s]
    BY <1>3, BuiltChanges
  <2>2. pc'[s] \in {"kubectl", "commit"} => pc[s] \in {"kubectl", "commit"}
    <3>1. CASE WriteFile(s)
      BY <3>1, WriteFileWrites DEF AfterWrite
    <3>2. CASE ~WriteFile(s)
      BY <1>3, <3>2, RequestPlaces DEF Kubectl, CommitPut
    <3> QED
      BY <3>1, <3>2
  <2>3. pc[s] \in {"kubectl", "commit", "unlock", "close"} =>
          pc'[s] \in {"commit", "unlock", "close", "done"}
    BY DEF RequestStep, Begin, PreCheck, PreCheckFails, OpenSession, Lock, Wait,
       CheckExists, Compare, Load, ReadFails, WriteFile, WriteFails, Build, Kubectl,
       ToolFails, CommitPut, CommitPutFails, CommitDelete, CommitDeleteFails,
       Release, Close, Goto, Leave, AdapterTypeOK
  <2>4. pc[s] \notin {"done", "crashed", "torn"}
    BY DEF RequestStep, Begin, PreCheck, PreCheckFails, OpenSession, Lock, Wait,
       CheckExists, Compare, Load, ReadFails, WriteFile, WriteFails, Build, Kubectl,
       ToolFails, CommitPut, CommitPutFails, CommitDelete, CommitDeleteFails,
       Release, Close
  <2> QED
    BY <1>3, <2>1, <2>2, <2>3, <2>4 DEF BuiltOnce
<1> QED
  BY <1>1, <1>2, <1>3

(* A request that runs kubectl or commits tells of the drift it leaves;    *)
(* no other request makes one, or takes back what it tells.                *)
LEMMA RequestDrifts ==
  ASSUME AdapterTypeOK, MutexTypeOK, LoopsBegin, PutSoFar, AnswersInStep, BuiltOnce,
         DriftIsTold, NEW s \in Sessions, RequestStep(s)
  PROVE  DriftIsTold'
<1> SUFFICES ASSUME Mode = "kubectl", NEW n \in Names, n \notin exposed',
                    cluster'[n] # kv'[n][Kustomization]
             PROVE  \E t \in Sessions :
                      /\ Name(t)' = n
                      /\ built'[t] # Absent /\ pc'[t] # "kubectl" /\ result'[t] # "ok"
  BY DEF DriftIsTold
<1>1. \A t \in Sessions : Name(t)' = Name(t)
  BY RequestsAreKept
<1>2. n \notin exposed
  BY RequestsExpose
<1>3. CASE n = Name(s) /\ pc[s] \in {"kubectl", "commit"}
  <2>1. built'[s] # Absent
    BY <1>3, BuiltChanges DEF BuiltOnce, Build
  <2>2. pc'[s] # "kubectl"
    BY <1>3, RequestPlaces DEF Build
  <2>3. ASSUME result'[s] = "ok" PROVE FALSE
    <3>1. result[s] = "none"
      BY <1>3 DEF AnswersInStep
    <3>2. IF IsApply(s)
            THEN /\ \A f \in Present(Content(s)) : kv'[Name(s)][f] = Content(s)[f]
                 /\ cluster'[Name(s)] = Content(s)[Kustomization]
            ELSE kv'[Name(s)] = EmptyDir /\ cluster'[Name(s)] = Absent
      BY <1>3, <2>3, <3>1, RequestOk DEF OkMeansDone
    <3>3. Kustomization \in Present(Content(s))
      BY DEF LoopsBegin, Present, AllFiles
    <3>4. EmptyDir[Kustomization] = Absent
      BY DEF EmptyDir, AllFiles
    <3> QED
      BY <1>3, <3>2, <3>3, <3>4
  <2> QED
    BY <1>1, <1>3, <2>1, <2>2, <2>3
<1>4. CASE ~(n = Name(s) /\ pc[s] \in {"kubectl", "commit"})
  <2>1. kv'[n] = kv[n] /\ cluster'[n] = cluster[n]
    BY <1>4, StoreChanges, ClusterChanges
  <2>2. PICK t \in Sessions :
          /\ Name(t) = n
          /\ built[t] # Absent /\ pc[t] # "kubectl" /\ result[t] # "ok"
    BY <1>2, <2>1 DEF DriftIsTold
  <2>3. CASE t # s
    BY <1>1, <2>2, <2>3, RequestsAreLocal, RequestAnswers, BuiltChanges
  <2>4. CASE t = s
    <3>1. Release(s) \/ Close(s)
      <4>1. pc[s] \in {"unlock", "close", "done", "crashed", "torn"}
        BY <1>4, <2>2, <2>4 DEF BuiltOnce
      <4> QED
        BY <4>1 DEF RequestStep, Begin, PreCheck, PreCheckFails, OpenSession, Lock, Wait,
           CheckExists, Compare, Load, ReadFails, WriteFile, WriteFails, Build, Kubectl,
           ToolFails, CommitPut, CommitPutFails, CommitDelete, CommitDeleteFails
    <3>2. UNCHANGED <<built, result>> /\ pc'[s] # "kubectl"
      BY <3>1 DEF Release, Close, Goto, requestVars, AdapterTypeOK
    <3> QED
      BY <1>1, <2>2, <2>4, <3>2
  <2> QED
    BY <2>3, <2>4
<1> QED
  BY <1>3, <1>4

LEMMA DriftStep ==
  AdapterInv /\ FilesInv /\ AnswersInStep /\ BuiltOnce /\ DriftIsTold /\ [AdapterNext]_vars
    => (BuiltOnce /\ DriftIsTold)'
<1> SUFFICES ASSUME AdapterInv, FilesInv, AnswersInStep, BuiltOnce, DriftIsTold,
                    [AdapterNext]_vars
             PROVE  BuiltOnce' /\ DriftIsTold'
  OBVIOUS
<1>1. AdapterTypeOK /\ MutexTypeOK /\ LoopsBegin /\ PutSoFar
  BY DEF AdapterInv, MutexInv, FilesInv
<1>2. ASSUME UNCHANGED <<kv, cluster, op, pc, built, result>>, exposed \subseteq exposed'
      PROVE  BuiltOnce' /\ DriftIsTold'
  BY <1>2 DEF BuiltOnce, DriftIsTold, Name
<1>3. ASSUME NEW s \in Sessions, LeaseStep(s) PROVE BuiltOnce' /\ DriftIsTold'
  BY <1>2, <1>3
  DEF LeaseStep, KeepAliveEnds, LeaseExpires, adapterVars, storeVars, requestVars
<1>4. ASSUME NEW h \in Replicas, Crash(h) PROVE BuiltOnce' /\ DriftIsTold'
  <2>1. UNCHANGED <<kv, cluster, op, built, result, exposed>>
    BY <1>4 DEF Crash, requestVars
  <2>2. \A t \in Sessions : pc'[t] = pc[t] \/ pc'[t] \in {"crashed", "torn"}
    BY <1>4 DEF Crash
  <2> QED
    BY <2>1, <2>2 DEF BuiltOnce, DriftIsTold, Name
<1>5. CASE UNCHANGED vars
  BY <1>2, <1>5 DEF vars, adapterVars
<1> QED
  BY <1>1, <1>3, <1>4, <1>5, RequestBuiltOnce, RequestDrifts DEF AdapterNext

(* Up to exposure, where the cluster runs another kustomization.yaml than  *)
(* etcd has, some request has not been answered, died, or got an error.    *)
THEOREM DriftIsAlwaysTold == AdapterSpec => []DriftIsTold
<1>1. AdapterInit => AnswersInStep /\ BuiltOnce /\ DriftIsTold
  <2> SUFFICES ASSUME AdapterInit PROVE AnswersInStep /\ BuiltOnce /\ DriftIsTold
    OBVIOUS
  <2>1. AnswersInStep
    BY InitMaps
  <2>2. \A s \in Sessions : pc[s] = "idle" /\ built[s] = Absent
    BY DEF AdapterInit
  <2>3. Mode = "kubectl" => \A n \in Names : cluster[n] = kv[n][Kustomization]
    BY DEF AdapterInit
  <2> QED
    BY <2>1, <2>2, <2>3 DEF BuiltOnce, DriftIsTold
<1>2. AdapterInv /\ AnswersInStep /\ [AdapterNext]_vars => AnswersInStep'
  BY AnswersStep DEF AdapterInv, MutexInv
<1>3. AdapterInv /\ FilesInv /\ AnswersInStep /\ BuiltOnce /\ DriftIsTold
        /\ [AdapterNext]_vars => (BuiltOnce /\ DriftIsTold)'
  BY DriftStep
<1> QED
  BY <1>1, <1>2, <1>3, FilesInvariance, PTL DEF AdapterSpec
=============================================================================
