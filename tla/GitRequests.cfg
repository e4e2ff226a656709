SPECIFICATION GitSpec
CONSTANTS
  Sessions = {s1, s2, s3}
  Committers = {s1, s2, s3}
  Locks = {gitLock}
  NoLock = NoLock
  Storage = {}
  Names = {n1, n2}
  Values = {v1, v2, v3, Mangled}
  Rejected = {v3, Mangled}
  Files = {f1}
  Kustomization = K
  Absent = Absent
  Mangled = Mangled
  NoMerge = NoMerge
  Replicas = {h1, h2}
  Mode = "build"
  Needs <- NoNeeds
  Asks <- GitAsks
  Keyings <- Unkeyed
  NoOld = NoOld
  Starts <- FromV1
  n1 = n1
  n2 = n2
  v1 = v1
  v2 = v2
  v3 = v3
  h1 = h1
  h2 = h2
  f1 = f1
SYMMETRY Symmetry
CONSTRAINTS OneDown DiesAtWork
INVARIANTS GitInv RejectedStaysOut
PROPERTIES OkIsPushed ReplacesOwn GetsWhatIsCommitted
CHECK_DEADLOCK FALSE
