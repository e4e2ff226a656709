SPECIFICATION AdapterSpec
CONSTANTS
  Sessions = {s1, s2}
  Locks = {n1}
  NoLock = NoLock
  Storage <- FileKeys
  Values = {v1, v2}
  Rejected = {}
  Invalid = {}
  Files = {}
  Kustomization = K
  Absent = Absent
  Replicas = {h1}
  Mode = "kubectl"
  Needs <- NoNeeds
  Asks <- LockAsks
  Prefixed <- Itself
  LockPrefixed <- Itself
  LockNamed = {}
  NoOld = NoOld
  Starts <- FromV1
  n1 = n1
  n2 = n2
  v1 = v1
  v2 = v2
  v3 = v3
  h1 = h1
  h2 = h2
  f1 = f1
SYMMETRY Symmetry
INVARIANTS OldMatchesAtCommit
CHECK_DEADLOCK FALSE
