SPECIFICATION FairGitSpec
CONSTANTS
  Sessions = {s1, s2}
  Committers = {s1, s2}
  Locks = {gitLock}
  NoLock = NoLock
  Storage = {}
  Names = {n1}
  Values = {v1, v2, Mangled}
  Rejected = {Mangled}
  Files = {}
  Kustomization = K
  Absent = Absent
  Mangled = Mangled
  NoMerge = NoMerge
  Replicas = {h1}
  Mode = "kubectl"
  Needs <- NoNeeds
  Asks <- LockAsks
  Keyings <- AllKeyed
  NoOld = NoOld
  Starts <- FromV1
  n1 = n1
  n2 = n2
  v1 = v1
  v2 = v2
  v3 = v3
  h1 = h1
  h2 = h2
  f1 = f1
INVARIANTS LockedSections GitInv
PROPERTIES LockKeepsAlone HangsHoldUpNobody
CHECK_DEADLOCK FALSE
