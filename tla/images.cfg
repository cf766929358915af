SPECIFICATION Spec
CONSTANTS
  Server = Server
  Writers = {w1, w2}
  Names = {n1}
  Threads = {t1}
  Tags = {}
  Defs <- TwoDefs
  Config <- NoTypes
  Defaults <- AllPlain
  Legacy = NoFile
  NoDef = NoDef
  Invalid = Invalid
  NoFile = NoFile
  NoImage = NoImage
  None = None
  TTL = 1
  MaxTime = 2
  MaxFaults = 1
  MaxOps = 4
\* The system may rest: no request is left.
CHECK_DEADLOCK FALSE
SYMMETRY Symmetry
INVARIANTS
  TypeOK
  CacheHonest
  LatestVersionIsImage
PROPERTIES
  StoreSpec
