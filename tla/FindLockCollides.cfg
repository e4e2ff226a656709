SPECIFICATION AdapterSpec
CONSTANTS
  Sessions = {s1, s2}
  Locks = {n1, n2}
  NoLock = NoLock
  Storage <- FileKeys
  Values = {v1, v2, v3}
  Rejected = {v3}
  Invalid = {}
  Files = {f1}
  Kustomization = K
  Absent = Absent
  Replicas = {h1}
  Mode = "none"
  Needs <- NoNeeds
  Asks <- CollisionAsks
  Prefixed <- N1ofN2
  LockPrefixed <- Anyone
  LockNamed <- N2LockOfN1
  NoOld = NoOld
  Starts <- FromV1
  n1 = n1
  n2 = n2
  v1 = v1
  v2 = v2
  v3 = v3
  h1 = h1
  h2 = h2
  f1 = f1
INVARIANTS WaitsForRequestsOnly
CHECK_DEADLOCK FALSE
