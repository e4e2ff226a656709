--------------------------- MODULE EtcdFilesProofs ---------------------------
(***************************************************************************)
(* Proofs about the files of a request on their way from the request to    *)
(* disk, through the tools, and into etcd and the cluster.                 *)
(***************************************************************************)
EXTENDS EtcdAdapterProofs

(* Only the loop that writes changes a directory, and only its own.        *)
LEMMA DiskChanges ==
  ASSUME AdapterTypeOK, NEW s \in Sessions, RequestStep(s),
         NEW h \in Replicas, NEW n \in Names
  PROVE  \/ disk'[h][n] = disk[h][n]
         \/ n = Name(s) /\ h = op[s].at /\ pc[s] = "write"
<1>1. CASE WriteFile(s) \/ WriteFails(s)
  <2>1. PICK f, c : PutOnDisk(s, f, c)
    BY <1>1 DEF WriteFile, WriteFails
  <2>2. pc[s] = "write"
    BY <1>1 DEF WriteFile, WriteFails
  <2>3. Name(s) \in Names /\ op[s].at \in Replicas
    BY RequestTypes
  <2> QED
    BY <2>1, <2>2, <2>3 DEF PutOnDisk, AdapterTypeOK
<1>2. CASE ~(WriteFile(s) \/ WriteFails(s))
  <2>1. disk' = disk
    BY <1>2 DEF RequestStep, Begin, PreCheck, PreCheckFails, OpenSession, Lock, Wait,
       CheckExists, Compare, Load, ReadFails, Build, Kubectl, ToolFails, CommitPut,
       CommitPutFails, CommitDelete, CommitDeleteFails, Release, Close, storeVars
  <2> QED
    BY <2>1
<1> QED
  BY <1>1, <1>2

(* Only kubectl changes the cluster, and only the request's own instance.  *)
LEMMA ClusterChanges ==
  ASSUME AdapterTypeOK, NEW s \in Sessions, RequestStep(s), NEW n \in Names
  PROVE  \/ cluster'[n] = cluster[n]
         \/ /\ n = Name(s) /\ pc[s] = "kubectl"
            /\ cluster'[n] \in {built[s], Absent}
<1>1. CASE Kubectl(s) \/ ToolFails(s)
  BY <1>1 DEF Kubectl, ToolFails, AdapterTypeOK
<1>2. CASE ~(Kubectl(s) \/ ToolFails(s))
  <2>1. cluster' = cluster
    BY <1>2 DEF RequestStep, Begin, PreCheck, PreCheckFails, OpenSession, Lock, Wait,
       CheckExists, Compare, Load, ReadFails, WriteFile, WriteFails, Build, CommitPut,
       CommitPutFails, CommitDelete, CommitDeleteFails, Release, Close, storeVars
  <2> QED
    BY <2>1
<1> QED
  BY <1>1, <1>2

(* Only Build changes what is built.                                       *)
LEMMA BuiltChanges ==
  ASSUME AdapterTypeOK, NEW s \in Sessions, RequestStep(s), NEW t \in Sessions
  PROVE  \/ built'[t] = built[t]
         \/ t = s /\ Build(s)
<1>1. CASE Build(s)
  BY <1>1 DEF Build, AdapterTypeOK
<1>2. CASE ~Build(s)
  <2>1. built' = built
    BY <1>2 DEF RequestStep, Begin, PreCheck, PreCheckFails, OpenSession, Lock, Wait,
       CheckExists, Compare, Load, ReadFails, WriteFile, WriteFails, Kubectl, ToolFails,
       CommitPut, CommitPutFails, CommitDelete, CommitDeleteFails, Release, Close,
       requestVars
  <2> QED
    BY <2>1
<1> QED
  BY <1>1, <1>2

(* What another request does while this one is in its section.             *)
LEMMA SectionIsAlone ==
  ASSUME AdapterTypeOK, MutexTypeOK, SectionExclusive,
         NEW s \in Sessions, RequestStep(s), NEW t \in Sessions, t # s,
         InSection(t), Name(t) \notin exposed'
  PROVE  /\ Dir(t)' = Dir(t)
         /\ kv'[Name(t)] = kv[Name(t)]
         /\ cluster'[Name(t)] = cluster[Name(t)]
<1>1. /\ Name(t)' = Name(t) /\ op'[t].at = op[t].at
      /\ Name(t) \in Names /\ op[t].at \in Replicas
      /\ Name(t) \notin exposed
  BY RequestsAreKept, RequestTypes, RequestsExpose
<1>2. InSection(s) => Name(s) # Name(t)
  BY <1>1 DEF SectionExclusive
<1>3. pc[s] \in {"write", "kubectl", "commit"} => Name(s) # Name(t)
  BY <1>2 DEF InSection
<1>4. disk'[op[t].at][Name(t)] = disk[op[t].at][Name(t)]
  BY <1>1, <1>3, DiskChanges
<1> QED
  BY <1>1, <1>3, <1>4, StoreChanges, ClusterChanges DEF Dir

-----------------------------------------------------------------------------
(* The loops of a request begin with all its files.                        *)
LEMMA RequestLoops ==
  ASSUME AdapterTypeOK, LoopsBegin, NEW s \in Sessions, RequestStep(s)
  PROVE  /\ op'[s].content[Kustomization] # Absent
         /\ pc'[s] \in {"precheck", "session", "lock", "wait", "exists", "compare",
                        "load", "tools", "kubectl"} => Present(Content(s))' \subseteq todo'[s]
         /\ pc'[s] = "write" /\ pc[s] # "write" => Present(Content(s))' \subseteq todo'[s]
         /\ pc'[s] = "commit" /\ pc[s] # "commit" => Present(Content(s))' \subseteq todo'[s]
<1> USE AfterLockPlaces
    DEF AdapterTypeOK, Goto, Return, Leave, Answer, requestVars, LoopsBegin, Content
<1>1. CASE OpenSession(s) \/ Lock(s) \/ Wait(s)
  BY <1>1 DEF OpenSession, Lock, Wait
<1>2. CASE Begin(s) \/ PreCheck(s) \/ PreCheckFails(s)
  BY <1>2 DEF Begin, PreCheck, PreCheckFails
<1>3. CASE CheckExists(s) \/ Compare(s) \/ ReadFails(s)
  BY <1>3 DEF CheckExists, Compare, ReadFails
<1>4. CASE Load(s)
  <2>1. CASE Stored(s) = Absent
    BY <1>4, <2>1 DEF Load
  <2>2. CASE Stored(s) # Absent
    <3>1. /\ op' = [op EXCEPT ![s].content[Kustomization] = Stored(s)]
          /\ todo' = todo /\ pc[s] = "load" /\ pc'[s] = "write"
      BY <1>4, <2>2 DEF Load
    <3>2. op[s] \in Requests /\ op[s].content \in Directories /\ Kustomization \in AllFiles
      BY RequestTypes DEF AllFiles
    <3>3. /\ op'[s].content[Kustomization] = Stored(s)
          /\ \A f \in AllFiles \ {Kustomization} : op'[s].content[f] = op[s].content[f]
      BY <3>1, <3>2 DEF Requests, Directories
    <3>4. Present(op'[s].content) \subseteq Present(op[s].content)
      BY <3>2, <3>3 DEF Present
    <3> QED
      BY <2>2, <3>1, <3>3, <3>4
  <2> QED
    BY <2>1, <2>2
<1>5. CASE WriteFile(s) \/ WriteFails(s)
  BY <1>5 DEF WriteFile, WriteFails
<1>6. CASE Build(s) \/ Kubectl(s) \/ ToolFails(s)
  BY <1>6 DEF Build, Kubectl, ToolFails
<1>7. CASE CommitPut(s) \/ CommitPutFails(s)
  BY <1>7 DEF CommitPut, CommitPutFails
<1>8. CASE CommitDelete(s) \/ CommitDeleteFails(s)
  BY <1>8 DEF CommitDelete, CommitDeleteFails
<1>9. CASE Release(s) \/ Close(s)
  BY <1>9 DEF Release, Close
<1> QED
  BY <1>1, <1>2, <1>3, <1>4, <1>5, <1>6, <1>7, <1>8, <1>9 DEF RequestStep

LEMMA RequestLoopsBegin ==
  ASSUME AdapterTypeOK, MutexTypeOK, LoopsBegin, NEW s \in Sessions, RequestStep(s)
  PROVE  LoopsBegin'
<1> SUFFICES ASSUME NEW t \in Sessions
             PROVE  /\ op'[t].content[Kustomization] # Absent
                    /\ pc'[t] \in {"precheck", "session", "lock", "wait", "exists",
                                   "compare", "load", "tools", "kubectl"} =>
                         Present(Content(t))' \subseteq todo'[t]
  BY DEF LoopsBegin, Content
<1>1. CASE t = s
  BY <1>1, RequestLoops
<1>2. CASE t # s
  BY <1>2, RequestsAreLocal, RequestsAreKept DEF LoopsBegin, Content
<1> QED
  BY <1>1, <1>2

(* What WriteFile does, with the file it is at.                            *)
LEMMA WriteFileWrites ==
  ASSUME AdapterTypeOK, NEW s \in Sessions, WriteFile(s)
  PROVE  \E f \in FirstOf(todo[s]) :
           /\ Dir(s)' = [Dir(s) EXCEPT ![f] = Content(s)[f]]
           /\ pc'[s] = "write" => todo'[s] = todo[s] \ {f}
           /\ pc'[s] # "write" => todo[s] = {f} /\ pc'[s] = AfterWrite(s)
<1>1. PICK f \in FirstOf(todo[s]) :
        /\ PutOnDisk(s, f, Content(s)[f])
        /\ IF todo[s] = {f}
             THEN /\ Goto(s, AfterWrite(s))
                  /\ todo' = [todo EXCEPT ![s] = Present(Content(s))]
             ELSE todo' = [todo EXCEPT ![s] = @ \ {f}] /\ UNCHANGED pc
  BY DEF WriteFile
<1>2. op' = op /\ pc[s] = "write"
  BY DEF WriteFile
<1>3. disk'[op[s].at][Name(s)] = [disk[op[s].at][Name(s)] EXCEPT ![f] = Content(s)[f]]
  BY <1>1, RequestTypes DEF PutOnDisk, AdapterTypeOK
<1>4. Dir(s)' = [Dir(s) EXCEPT ![f] = Content(s)[f]]
  BY <1>2, <1>3 DEF Dir, Name
<1>5. /\ pc'[s] = "write" => todo'[s] = todo[s] \ {f}
      /\ pc'[s] # "write" => todo[s] = {f} /\ pc'[s] = AfterWrite(s)
  BY <1>1, <1>2, AfterLockPlaces DEF Goto, AdapterTypeOK
<1> QED
  BY <1>1, <1>4, <1>5

(* Which step takes a request to the tools and beyond.                     *)
LEMMA RequestPlaces ==
  ASSUME AdapterTypeOK, NEW s \in Sessions, RequestStep(s)
  PROVE  /\ pc'[s] = "write" => WriteFile(s) \/ pc[s] # "write"
         /\ pc'[s] = "tools" => WriteFile(s)
         /\ pc'[s] = "kubectl" => Build(s)
         /\ pc'[s] = "commit" => WriteFile(s) \/ Build(s) \/ Kubectl(s) \/ CommitPut(s)
         /\ pc[s] # "load" => op'[s] = op[s]
<1> USE AfterLockPlaces DEF AdapterTypeOK, Goto, Return, Leave, Answer
<1>1. pc[s] # "load" => op'[s] = op[s]
  BY RequestsAreKept
<1>2. CASE OpenSession(s) \/ Lock(s) \/ Wait(s)
  BY <1>1, <1>2 DEF OpenSession, Lock, Wait
<1>3. CASE Begin(s) \/ PreCheck(s) \/ PreCheckFails(s)
  BY <1>1, <1>3 DEF Begin, PreCheck, PreCheckFails
<1>4. CASE CheckExists(s) \/ Compare(s) \/ ReadFails(s) \/ Load(s)
  BY <1>1, <1>4 DEF CheckExists, Compare, ReadFails, Load
<1>5. CASE WriteFile(s) \/ WriteFails(s)
  BY <1>1, <1>5 DEF WriteFile, WriteFails
<1>6. CASE Build(s) \/ Kubectl(s) \/ ToolFails(s)
  BY <1>1, <1>6 DEF Build, Kubectl, ToolFails
<1>7. CASE CommitPut(s) \/ CommitPutFails(s)
  BY <1>1, <1>7 DEF CommitPut, CommitPutFails
<1>8. CASE CommitDelete(s) \/ CommitDeleteFails(s)
  BY <1>1, <1>8 DEF CommitDelete, CommitDeleteFails
<1>9. CASE Release(s) \/ Close(s)
  BY <1>1, <1>9 DEF Release, Close
<1> QED
  BY <1>2, <1>3, <1>4, <1>5, <1>6, <1>7, <1>8, <1>9 DEF RequestStep

-----------------------------------------------------------------------------
LEMMA RequestWrittenSoFar ==
  ASSUME AdapterTypeOK, MutexTypeOK, SectionExclusive, LoopsBegin, WrittenSoFar,
         NEW s \in Sessions, RequestStep(s)
  PROVE  WrittenSoFar'
<1> SUFFICES ASSUME NEW t \in Sessions, pc'[t] = "write", Name(t)' \notin exposed',
                    NEW f \in Present(Content(t))' \ todo'[t]
             PROVE  Dir(t)'[f] = Content(t)'[f]
  BY DEF WrittenSoFar
<1>1. Name(t)' = Name(t) /\ Name(t) \notin exposed
  BY RequestsAreKept, RequestsExpose
<1>2. CASE t = s
  <2>1. WriteFile(s)
    BY <1>2, RequestPlaces, RequestLoops
  <2>2. PICK g \in FirstOf(todo[s]) :
          /\ Dir(s)' = [Dir(s) EXCEPT ![g] = Content(s)[g]]
          /\ todo'[s] = todo[s] \ {g}
    BY <1>2, <2>1, WriteFileWrites
  <2>3. pc[s] = "write" /\ op'[s] = op[s]
    BY <2>1 DEF WriteFile
  <2>4. f \in Present(Content(s)) /\ f \in AllFiles /\ Dir(s) \in Directories
    BY <1>2, <2>3, RequestTypes DEF Content
  <2>5. f # g => Dir(s)[f] = Content(s)[f]
    BY <1>1, <1>2, <2>2, <2>3, <2>4 DEF WrittenSoFar
  <2> QED
    BY <1>2, <2>2, <2>3, <2>4, <2>5 DEF Content, Directories
<1>3. CASE t # s
  <2>1. pc[t] = "write" /\ todo'[t] = todo[t] /\ op'[t] = op[t]
    BY <1>3, RequestsAreLocal, RequestsAreKept
  <2>2. Dir(t)' = Dir(t)
    BY <1>1, <1>3, <2>1, SectionIsAlone DEF InSection
  <2> QED
    BY <1>1, <2>1, <2>2 DEF WrittenSoFar, Content
<1> QED
  BY <1>2, <1>3

LEMMA RequestBuildsOwnFiles ==
  ASSUME AdapterTypeOK, MutexTypeOK, SectionExclusive, LoopsBegin, WrittenSoFar,
         BuildsOwnFiles, NEW s \in Sessions, RequestStep(s)
  PROVE  BuildsOwnFiles'
<1> SUFFICES ASSUME NEW t \in Sessions, Name(t)' \notin exposed'
             PROVE  /\ pc'[t] \in {"tools", "kubectl", "commit"} =>
                         \A f \in Present(Content(t))' : Dir(t)'[f] = Content(t)'[f]
                    /\ pc'[t] = "kubectl" => built'[t] = Content(t)'[Kustomization]
  BY DEF BuildsOwnFiles
<1>1. Name(t)' = Name(t) /\ Name(t) \notin exposed
  BY RequestsAreKept, RequestsExpose
<1>2. CASE t = s /\ WriteFile(s)
  <2>1. pc'[s] # "kubectl"
    BY <1>2, AfterLockPlaces DEF WriteFile, Goto, AdapterTypeOK
  <2>2. ASSUME pc'[s] \in {"tools", "commit"}, NEW f \in Present(Content(s))'
        PROVE  Dir(s)'[f] = Content(s)'[f]
    <3>1. PICK g \in FirstOf(todo[s]) :
            /\ Dir(s)' = [Dir(s) EXCEPT ![g] = Content(s)[g]]
            /\ todo[s] = {g}
      BY <1>2, <2>2, WriteFileWrites
    <3>2. pc[s] = "write" /\ op'[s] = op[s]
      BY <1>2 DEF WriteFile
    <3>3. f \in Present(Content(s)) /\ f \in AllFiles /\ Dir(s) \in Directories
      BY <2>2, <3>2, RequestTypes DEF Content
    <3>4. f # g => Dir(s)[f] = Content(s)[f]
      BY <1>1, <1>2, <3>1, <3>2, <3>3 DEF WrittenSoFar
    <3> QED
      BY <3>1, <3>2, <3>3, <3>4 DEF Content, Directories
  <2> QED
    BY <1>2, <2>1, <2>2
<1>3. CASE t = s /\ ~WriteFile(s) /\ pc'[s] \in {"tools", "kubectl", "commit"}
  <2>1. Build(s) \/ Kubectl(s) \/ CommitPut(s)
    BY <1>3, RequestPlaces
  <2>2. pc[s] \in {"tools", "kubectl", "commit"} /\ UNCHANGED <<op, disk>>
    BY <2>1 DEF Build, Kubectl, CommitPut, storeVars, requestVars
  <2>3. Dir(s)' = Dir(s) /\ Content(s)' = Content(s)
    BY <2>2 DEF Dir, Content, Name
  <2>4. \A f \in Present(Content(s)) : Dir(s)[f] = Content(s)[f]
    BY <1>1, <1>3, <2>2 DEF BuildsOwnFiles
  <2>5. pc'[s] = "kubectl" => built'[s] = Dir(s)[Kustomization]
    BY <1>3, RequestPlaces DEF Build, AdapterTypeOK
  <2>6. Kustomization \in Present(Content(s))
    BY DEF LoopsBegin, Present, AllFiles
  <2> QED
    BY <1>3, <2>3, <2>4, <2>5, <2>6
<1>4. CASE t = s /\ pc'[s] \notin {"tools", "kubectl", "commit"}
  BY <1>4
<1>5. CASE t # s /\ pc[t] \in {"tools", "kubectl", "commit"}
  <2>1. pc'[t] = pc[t] /\ op'[t] = op[t] /\ built'[t] = built[t]
    BY <1>5, RequestsAreLocal, RequestsAreKept, BuiltChanges
  <2>2. Dir(t)' = Dir(t)
    BY <1>1, <1>5, SectionIsAlone DEF InSection
  <2> QED
    BY <1>1, <2>1, <2>2 DEF BuildsOwnFiles, Content
<1>6. CASE t # s /\ pc[t] \notin {"tools", "kubectl", "commit"}
  BY <1>6, RequestsAreLocal
<1> QED
  BY <1>2, <1>3, <1>4, <1>5, <1>6

(* What kubectl is run on, and where it leaves the cluster.                *)
LEMMA RequestPutSoFar ==
  ASSUME AdapterTypeOK, MutexTypeOK, SectionExclusive, LoopsBegin, BuildsOwnFiles,
         PutSoFar, NEW s \in Sessions, RequestStep(s)
  PROVE  PutSoFar'
<1> SUFFICES ASSUME NEW t \in Sessions, pc'[t] = "commit", Name(t)' \notin exposed'
             PROVE  /\ \A f \in Present(Content(t))' \ todo'[t] :
                         kv'[Name(t)'][f] = Content(t)'[f]
                    /\ Mode = "kubectl" =>
                         cluster'[Name(t)'] = IF IsApply(t)' THEN Content(t)'[Kustomization]
                                                             ELSE Absent
  BY DEF PutSoFar
<1>1. /\ Name(t)' = Name(t) /\ IsApply(t)' = IsApply(t)
      /\ Name(t) \notin exposed /\ Name(t) \in Names
  BY RequestsAreKept, RequestsExpose, RequestTypes
<1>2. CASE t = s /\ WriteFile(s)
  <2>1. pc[s] = "write" /\ pc'[s] = AfterWrite(s)
    BY <1>2, WriteFileWrites DEF WriteFile
  <2>2. Mode # "kubectl"
    BY <1>2, <2>1 DEF AfterWrite
  <2>3. Present(Content(s))' \subseteq todo'[s]
    BY <1>2, <2>1, RequestLoops
  <2> QED
    BY <1>2, <2>2, <2>3
<1>3. CASE t = s /\ Build(s)
  <2>1. pc[s] = "tools" /\ Mode # "kubectl"
    BY <1>3 DEF Build, Goto, AdapterTypeOK
  <2>2. Present(Content(s))' \subseteq todo'[s]
    BY <1>3, <2>1, RequestLoops
  <2> QED
    BY <1>3, <2>1, <2>2
<1>4. CASE t = s /\ Kubectl(s)
  <2>1. /\ pc[s] = "kubectl" /\ op' = op
        /\ cluster' = [cluster EXCEPT ![Name(s)] = IF IsApply(s) THEN built[s] ELSE Absent]
    BY <1>4 DEF Kubectl, requestVars
  <2>2. built[s] = Content(s)[Kustomization]
    BY <1>1, <1>4, <2>1 DEF BuildsOwnFiles
  <2>3. Present(Content(s))' \subseteq todo'[s]
    BY <1>4, <2>1, RequestLoops
  <2> QED
    BY <1>1, <1>4, <2>1, <2>2, <2>3 DEF AdapterTypeOK, Content
<1>5. CASE t = s /\ CommitPut(s)
  <2>1. PICK f \in FirstOf(todo[s]) :
          /\ PutInStore(s, f)
          /\ todo' = [todo EXCEPT ![s] = @ \ {f}]
    BY <1>5 DEF CommitPut
  <2>2. pc[s] = "commit" /\ op' = op /\ cluster' = cluster
    BY <1>5 DEF CommitPut
  <2>3. kv'[Name(s)] = [kv[Name(s)] EXCEPT ![f] = Content(s)[f]]
    BY <1>1, <1>5, <2>1 DEF PutInStore, AdapterTypeOK
  <2>4. kv[Name(s)] \in Directories /\ Present(Content(s)) \subseteq AllFiles
    BY <1>1, <1>5, RequestTypes DEF AdapterTypeOK
  <2>5. todo'[s] = todo[s] \ {f}
    BY <2>1 DEF AdapterTypeOK
  <2>6. \A g \in Present(Content(s)) \ todo'[s] : kv'[Name(s)][g] = Content(s)[g]
    BY <1>1, <1>5, <2>2, <2>3, <2>4, <2>5 DEF PutSoFar, Directories
  <2>7. Content(s)' = Content(s)
    BY <2>2 DEF Content
  <2> QED
    BY <1>1, <1>5, <2>2, <2>6, <2>7 DEF PutSoFar
<1>6. CASE t # s
  <2>1. pc[t] = "commit" /\ todo'[t] = todo[t] /\ op'[t] = op[t]
    BY <1>6, RequestsAreLocal, RequestsAreKept
  <2>2. kv'[Name(t)] = kv[Name(t)] /\ cluster'[Name(t)] = cluster[Name(t)]
    BY <1>1, <1>6, <2>1, SectionIsAlone DEF InSection
  <2>3. Content(t)' = Content(t)
    BY <2>1 DEF Content
  <2> QED
    BY <1>1, <2>1, <2>2, <2>3 DEF PutSoFar
<1> QED
  BY <1>2, <1>3, <1>4, <1>5, <1>6, RequestPlaces

LEMMA RequestPassedTools ==
  ASSUME AdapterTypeOK, LoopsBegin, BuildsOwnFiles, PassedTools,
         MutexTypeOK, NEW s \in Sessions, RequestStep(s)
  PROVE  PassedTools'
<1> SUFFICES ASSUME Mode # "none", NEW t \in Sessions
             PROVE  /\ pc'[t] = "kubectl" => built'[t] \notin Rejected
                    /\ pc'[t] = "commit" /\ IsApply(t)' /\ Name(t)' \notin exposed' =>
                         Content(t)'[Kustomization] \notin Refused
  BY DEF PassedTools
<1>1. /\ Name(t)' = Name(t) /\ IsApply(t)' = IsApply(t)
      /\ exposed \subseteq exposed'
  BY RequestsAreKept, RequestsExpose
<1>2. Kustomization \in Present(Content(s))
  BY DEF LoopsBegin, Present, AllFiles
<1>3. ASSUME Build(s)
      PROVE  /\ built'[s] \notin Rejected
             /\ Name(s) \notin exposed => Content(s)[Kustomization] \notin Rejected
  <2>1. pc[s] = "tools" /\ Dir(s)[Kustomization] \notin Rejected
    BY <1>3 DEF Build, Builds
  <2>2. built'[s] = Dir(s)[Kustomization]
    BY <1>3 DEF Build, AdapterTypeOK
  <2> QED
    BY <1>2, <2>1, <2>2 DEF BuildsOwnFiles
<1>4. CASE t = s /\ pc'[s] = "kubectl"
  BY <1>3, <1>4, RequestPlaces
<1>5. CASE t = s /\ pc'[s] = "commit" /\ IsApply(s) /\ Name(s) \notin exposed'
  <2>1. Name(s) \notin exposed
    BY <1>1, <1>5
  <2>2. CASE WriteFile(s)
    <3>1. pc'[s] = AfterWrite(s)
      BY <1>5, <2>2, WriteFileWrites
    <3> QED
      BY <1>5, <3>1, AdapterAssumption DEF AfterWrite
  <2>3. CASE Build(s)
    <3>1. Content(s)' = Content(s)
      BY <2>3 DEF Build, Content
    <3>2. Mode # "kubectl"
      BY <1>5, <2>3 DEF Build, Goto, AdapterTypeOK
    <3> QED
      BY <1>3, <1>5, <2>1, <2>3, <3>1, <3>2 DEF Refused
  <2>4. CASE Kubectl(s)
    <3>1. pc[s] = "kubectl" /\ Content(s)' = Content(s) /\ built[s] \notin Invalid
      BY <1>5, <2>4 DEF Kubectl, Content, requestVars
    <3> QED
      BY <1>5, <2>1, <3>1 DEF BuildsOwnFiles, PassedTools, Refused
  <2>5. CASE CommitPut(s)
    <3>1. pc[s] = "commit" /\ Content(s)' = Content(s)
      BY <2>5 DEF CommitPut, Content
    <3> QED
      BY <1>5, <2>1, <3>1 DEF PassedTools
  <2> QED
    BY <1>5, <2>2, <2>3, <2>4, <2>5, RequestPlaces
<1>6. CASE t # s
  <2>1. pc'[t] = pc[t] /\ op'[t] = op[t] /\ built'[t] = built[t]
    BY <1>6, RequestsAreLocal, RequestsAreKept, BuiltChanges
  <2> QED
    BY <1>1, <2>1 DEF PassedTools, Content
<1> QED
  BY <1>1, <1>4, <1>5, <1>6

(* How a kustomization.yaml comes into the store.                          *)
LEMMA YamlPuts ==
  ASSUME AdapterTypeOK, NEW s \in Sessions, RequestStep(s), NEW n \in Names
  PROVE  \/ kv'[n][Kustomization] \in {kv[n][Kustomization], Absent}
         \/ /\ n = Name(s) /\ pc[s] = "commit" /\ IsApply(s)
            /\ kv'[n][Kustomization] = Content(s)[Kustomization]
<1>1. ASSUME NEW f \in FirstOf(todo[s]), PutInStore(s, f)
      PROVE  \/ kv'[n][Kustomization] = kv[n][Kustomization]
             \/ /\ n = Name(s)
                /\ kv'[n][Kustomization] = Content(s)[Kustomization]
  <2>1. f \in AllFiles /\ kv[n] \in Directories /\ Kustomization \in AllFiles
    BY NextFileTypes DEF AdapterTypeOK, AllFiles
  <2>2. kv'[n] = IF n = Name(s) THEN [kv[n] EXCEPT ![f] = Content(s)[f]] ELSE kv[n]
    BY <1>1 DEF PutInStore, AdapterTypeOK
  <2> QED
    BY <2>1, <2>2 DEF Directories
<1>2. CASE CommitPut(s) \/ CommitPutFails(s)
  BY <1>1, <1>2 DEF CommitPut, CommitPutFails
<1>3. CASE CommitDelete(s) \/ CommitDeleteFails(s)
  <2>1. EmptyDir[Kustomization] = Absent
    BY DEF EmptyDir, AllFiles
  <2> QED
    BY <1>3, <2>1 DEF CommitDelete, CommitDeleteFails, DeleteUnder
<1>4. CASE ~(CommitPut(s) \/ CommitPutFails(s) \/ CommitDelete(s) \/ CommitDeleteFails(s))
  <2>1. kv' = kv
    BY <1>4 DEF RequestStep, Begin, PreCheck, PreCheckFails, OpenSession, Lock, Wait,
       CheckExists, Compare, Load, ReadFails, WriteFile, WriteFails, Build, Kubectl,
       ToolFails, Release, Close, storeVars
  <2> QED
    BY <2>1
<1> QED
  BY <1>2, <1>3, <1>4

LEMMA RequestRejects ==
  ASSUME AdapterTypeOK, MutexTypeOK, PassedTools, RejectedStaysOut,
         NEW s \in Sessions, RequestStep(s)
  PROVE  RejectedStaysOut'
<1> SUFFICES ASSUME Mode # "none", NEW n \in Names \ exposed'
             PROVE  kv'[n][Kustomization] \notin Refused /\ cluster'[n] \notin Rejected
  BY DEF RejectedStaysOut
<1>1. n \notin exposed /\ Absent \notin Refused \cup Rejected
  BY RequestsExpose, KustomizeAssumption, AdapterAssumption DEF Refused
<1>2. kv[n][Kustomization] \notin Refused /\ cluster[n] \notin Rejected
  BY <1>1 DEF RejectedStaysOut
<1>3. kv'[n][Kustomization] \notin Refused
  BY <1>1, <1>2, YamlPuts DEF PassedTools
<1>4. cluster'[n] \notin Rejected
  BY <1>1, <1>2, ClusterChanges DEF PassedTools
<1> QED
  BY <1>3, <1>4

-----------------------------------------------------------------------------
LEMMA FilesInitInv == AdapterInit => FilesInv
<1> SUFFICES ASSUME AdapterInit PROVE FilesInv
  OBVIOUS
<1>1. /\ \A s \in Sessions : pc[s] = "idle" /\ op[s] \in Asks
      /\ \A n \in Names : /\ kv[n][Kustomization] \notin Refused
                         /\ cluster[n] \in {kv[n][Kustomization], Absent}
  BY AdapterAssumption DEF AdapterInit
<1>2. LoopsBegin
  BY <1>1, AdapterAssumption DEF LoopsBegin, Content
<1>3. RejectedStaysOut
  BY <1>1, KustomizeAssumption DEF RejectedStaysOut, Refused
<1> QED
  BY <1>1, <1>2, <1>3
  DEF FilesInv, WrittenSoFar, BuildsOwnFiles, PutSoFar, PassedTools

LEMMA RequestFiles ==
  ASSUME AdapterInv, FilesInv, NEW s \in Sessions, RequestStep(s)
  PROVE  FilesInv'
<1>1. AdapterTypeOK /\ MutexTypeOK /\ SectionExclusive
  BY KeysExclude DEF AdapterInv, MutexInv
<1> QED
  BY <1>1, RequestLoopsBegin, RequestWrittenSoFar, RequestBuildsOwnFiles,
     RequestPutSoFar, RequestPassedTools, RequestRejects DEF FilesInv

(* A lease that goes, or nothing at all, leaves all of this as it is, but  *)
(* for instances exposed.                                                  *)
LEMMA FilesUnchanged ==
  ASSUME FilesInv, UNCHANGED <<kv, disk, cluster, op, pc, todo, built>>,
         exposed \subseteq exposed'
  PROVE  FilesInv'
BY DEF FilesInv, LoopsBegin, WrittenSoFar, BuildsOwnFiles, PutSoFar, PassedTools,
   RejectedStaysOut, Content, Name, Dir, IsApply, Present

(* A replica that dies takes its requests out of the section, and only its *)
(* own directory changes.                                                  *)
LEMMA CrashFiles ==
  ASSUME AdapterTypeOK, FilesInv, NEW h \in Replicas, Crash(h)
  PROVE  FilesInv'
<1>1. UNCHANGED <<kv, cluster, op, todo, built, exposed>>
  BY DEF Crash, requestVars
<1>2. ASSUME NEW t \in Sessions, pc'[t] \notin {"torn", "crashed"}
      PROVE  /\ pc'[t] = pc[t]
             /\ InFlight(t) => Dir(t)' = Dir(t)
  <2>1. pc'[t] = pc[t] /\ ~(InFlight(t) /\ op[t].at = h)
    BY <1>2 DEF Crash
  <2>2. op[t].at \in Replicas
    BY RequestTypes
  <2>3. op[t].at # h => disk'[op[t].at] = disk[op[t].at]
    BY <2>2 DEF Crash, AdapterTypeOK
  <2> QED
    BY <1>1, <2>1, <2>3 DEF Dir, Name
<1>3. LoopsBegin' /\ PutSoFar' /\ PassedTools' /\ RejectedStaysOut'
  BY <1>1, <1>2 DEF FilesInv, LoopsBegin, PutSoFar, PassedTools, RejectedStaysOut,
     Content, Name, IsApply
<1>4. WrittenSoFar' /\ BuildsOwnFiles'
  <2>1. \A t \in Sessions : Content(t)' = Content(t) /\ Name(t)' = Name(t)
    BY <1>1 DEF Content, Name
  <2>2. \A t \in Sessions : pc[t] \in {"write", "tools", "kubectl", "commit"} => InFlight(t)
    BY DEF InFlight
  <2> QED
    BY <1>1, <1>2, <2>1, <2>2 DEF FilesInv, WrittenSoFar, BuildsOwnFiles
<1> QED
  BY <1>3, <1>4 DEF FilesInv

LEMMA FilesInvStep == AdapterInv /\ FilesInv /\ [AdapterNext]_vars => FilesInv'
<1> SUFFICES ASSUME AdapterInv, FilesInv, [AdapterNext]_vars PROVE FilesInv'
  OBVIOUS
<1>1. ASSUME NEW s \in Sessions, LeaseStep(s) PROVE FilesInv'
  BY <1>1, FilesUnchanged
  DEF LeaseStep, KeepAliveEnds, LeaseExpires, adapterVars, storeVars, requestVars
<1>2. CASE UNCHANGED vars
  BY <1>2, FilesUnchanged DEF vars, adapterVars
<1> QED
  BY <1>1, <1>2, RequestFiles, CrashFiles DEF AdapterNext, AdapterInv

(* The files' inductive invariant, relative to AdapterInv: loops begin     *)
(* with all files of a request and have dealt with what they no longer     *)
(* hold, and nothing passes the tools unbuilt.                             *)
THEOREM FilesInvariance == AdapterSpec => [](AdapterInv /\ FilesInv)
<1>1. AdapterInit => AdapterInv /\ FilesInv
  BY AdapterInitInv, FilesInitInv
<1>2. AdapterInv /\ FilesInv /\ [AdapterNext]_vars => (AdapterInv /\ FilesInv)'
  BY AdapterInvStep, FilesInvStep
<1> QED
  BY <1>1, <1>2, PTL DEF AdapterSpec

(* Up to exposure, the tools are run on the contents the request carries.  *)
THEOREM OwnFilesAreBuilt == AdapterSpec => []BuildsOwnFiles
<1>1. AdapterInv /\ FilesInv => BuildsOwnFiles
  BY DEF FilesInv
<1> QED
  BY <1>1, FilesInvariance, PTL

(* Up to exposure, with the tools enabled, no kustomization.yaml one of    *)
(* them rejects is stored, and none that kustomize rejects is applied.     *)
THEOREM RejectedNeverStored == AdapterSpec => []RejectedStaysOut
<1>1. AdapterInv /\ FilesInv => RejectedStaysOut
  BY DEF FilesInv
<1> QED
  BY <1>1, FilesInvariance, PTL

-----------------------------------------------------------------------------
(* Only a Commit answers ok.                                               *)
LEMMA OnlyCommitsSucceed ==
  ASSUME AdapterTypeOK, NEW s \in Sessions, RequestStep(s), NEW t \in Sessions,
         result[t] = "none", result'[t] = "ok"
  PROVE  t = s /\ (CommitPut(s) \/ CommitDelete(s))
<1> USE DEF AdapterTypeOK, Answer, Return, Leave
<1>1. CASE OpenSession(s) \/ Lock(s) \/ Wait(s)
  BY <1>1 DEF OpenSession, Lock, Wait
<1>2. CASE Begin(s) \/ PreCheck(s) \/ PreCheckFails(s)
  BY <1>2 DEF Begin, PreCheck, PreCheckFails
<1>3. CASE CheckExists(s) \/ Compare(s) \/ ReadFails(s) \/ Load(s)
  BY <1>3 DEF CheckExists, Compare, ReadFails, Load
<1>4. CASE WriteFile(s) \/ WriteFails(s)
  BY <1>4 DEF WriteFile, WriteFails
<1>5. CASE Build(s) \/ Kubectl(s) \/ ToolFails(s)
  BY <1>5 DEF Build, Kubectl, ToolFails
<1>6. CASE CommitPut(s) \/ CommitPutFails(s)
  BY <1>6 DEF CommitPut, CommitPutFails
<1>7. CASE CommitDelete(s) \/ CommitDeleteFails(s)
  BY <1>7 DEF CommitDelete, CommitDeleteFails
<1>8. CASE Release(s) \/ Close(s)
  BY <1>8 DEF Release, Close
<1> QED
  BY <1>1, <1>2, <1>3, <1>4, <1>5, <1>6, <1>7, <1>8 DEF RequestStep

LEMMA RequestOk ==
  ASSUME AdapterTypeOK, MutexTypeOK, PutSoFar, NEW s \in Sessions, RequestStep(s)
  PROVE  OkMeansDone
<1> SUFFICES ASSUME NEW t \in Sessions, result[t] = "none", result'[t] = "ok",
                    Name(t) \notin exposed'
             PROVE  IF IsApply(t)
                      THEN /\ \A f \in Present(Content(t)) :
                                kv'[Name(t)][f] = Content(t)[f]
                           /\ Mode = "kubectl" =>
                                cluster'[Name(t)] = Content(t)[Kustomization]
                      ELSE /\ kv'[Name(t)] = EmptyDir
                           /\ Mode = "kubectl" => cluster'[Name(t)] = Absent
  BY DEF OkMeansDone
<1>1. t = s /\ (CommitPut(s) \/ CommitDelete(s))
  BY OnlyCommitsSucceed
<1>2. /\ pc[s] = "commit" /\ Name(s) \notin exposed /\ cluster' = cluster
      /\ Name(s) \in Names
  BY <1>1, RequestsExpose, RequestTypes DEF CommitPut, CommitDelete
<1>3. Mode = "kubectl" =>
        cluster'[Name(s)] = IF IsApply(s) THEN Content(s)[Kustomization] ELSE Absent
  BY <1>2 DEF PutSoFar
<1>4. CASE CommitPut(s)
  <2>1. PICK f \in FirstOf(todo[s]) :
          /\ PutInStore(s, f)
          /\ IF todo[s] = {f} THEN Leave(s, "ok") ELSE UNCHANGED <<pc, result>>
    BY <1>4 DEF CommitPut
  <2>2. todo[s] = {f}
    BY <1>1, <2>1
  <2>3. kv'[Name(s)] = [kv[Name(s)] EXCEPT ![f] = Content(s)[f]]
    BY <1>2, <2>1 DEF PutInStore, AdapterTypeOK
  <2>4. kv[Name(s)] \in Directories /\ Present(Content(s)) \subseteq AllFiles
    BY <1>2, RequestTypes DEF AdapterTypeOK
  <2>5. \A g \in Present(Content(s)) : kv'[Name(s)][g] = Content(s)[g]
    BY <1>2, <2>2, <2>3, <2>4 DEF PutSoFar, Directories
  <2>6. IsApply(s)
    BY <1>4 DEF CommitPut
  <2> QED
    BY <1>1, <1>3, <2>5, <2>6
<1>5. CASE CommitDelete(s)
  <2>1. Name(s) \in Under(Name(s))
    BY <1>2, AdapterAssumption DEF Under
  <2>2. kv'[Name(s)] = EmptyDir /\ ~IsApply(s)
    BY <1>2, <1>5, <2>1 DEF CommitDelete, DeleteUnder
  <2> QED
    BY <1>1, <1>3, <2>2
<1> QED
  BY <1>1, <1>4, <1>5

LEMMA OkStep == AdapterInv /\ FilesInv /\ [AdapterNext]_vars => [OkMeansDone]_vars
<1> SUFFICES ASSUME AdapterInv, FilesInv, AdapterNext PROVE OkMeansDone \/ UNCHANGED vars
  OBVIOUS
<1>1. AdapterTypeOK /\ MutexTypeOK /\ PutSoFar
  BY DEF AdapterInv, MutexInv, FilesInv
<1>2. ASSUME NEW s \in Sessions, LeaseStep(s) PROVE OkMeansDone
  BY <1>2 DEF LeaseStep, KeepAliveEnds, LeaseExpires, adapterVars, OkMeansDone
<1>3. ASSUME NEW h \in Replicas, Crash(h) PROVE OkMeansDone
  BY <1>3 DEF Crash, OkMeansDone
<1> QED
  BY <1>1, <1>2, <1>3, RequestOk DEF AdapterNext

(* Up to exposure, an ok is true of etcd and of the cluster.               *)
THEOREM OkIsNeverALie == AdapterSpec => OkIsTrue
<1>1. AdapterInv /\ FilesInv /\ [AdapterNext]_vars => [OkMeansDone]_vars
  BY OkStep
<1> QED
  BY <1>1, FilesInvariance, PTL DEF AdapterSpec, OkIsTrue
=============================================================================
