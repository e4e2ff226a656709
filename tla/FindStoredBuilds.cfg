SPECIFICATION AdapterSpec
CONSTANTS
  Sessions = {s1, s2}
  Locks = {n1, n2}
  NoLock = NoLock
  Storage <- FileKeys
  Values = {v1, v2}
  Rejected = {v2}
  Invalid = {}
  Files = {f1}
  Kustomization = K
  Absent = Absent
  Replicas = {h1, h2}
  Mode = "kubectl"
  Needs <- V1NeedsF
  Asks <- LeftoverAsks
  Prefixed <- Itself
  LockPrefixed <- Itself
  LockNamed = {}
  NoOld = NoOld
  Starts <- EmptyOrV1File
  n1 = n1
  n2 = n2
  v1 = v1
  v2 = v2
  v3 = v3
  h1 = h1
  h2 = h2
  f1 = f1
SYMMETRY Symmetry
PROPERTIES StoredBuilds
CHECK_DEADLOCK FALSE
