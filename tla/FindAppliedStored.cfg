SPECIFICATION GitSpec
CONSTANTS
  Sessions = {s1, s2}
  Committers = {s1, s2}
  Locks = {gitLock}
  NoLock = NoLock
  Storage = {}
  Names = {n1, n2}
  Values = {v1, v2, v3, Mangled}
  Rejected = {v3, Mangled}
  Files = {}
  Kustomization = K
  Absent = Absent
  Mangled = Mangled
  NoMerge = NoMerge
  Replicas = {h1}
  Mode = "build"
  Needs <- NoNeeds
  Asks <- RetryAsks
  Keyings <- Unkeyed
  NoOld = NoOld
  Starts <- FromEither
  n1 = n1
  n2 = n2
  v1 = v1
  v2 = v2
  v3 = v3
  h1 = h1
  h2 = h2
  f1 = f1
SYMMETRY Symmetry
PROPERTIES AppliedIsStored
CHECK_DEADLOCK FALSE
