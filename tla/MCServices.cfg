SPECIFICATION ServicesSpec
CONSTANTS
  \* outgoing deliveries
  Hooks = {h1}
  Kinds = {push}
  Filter <- MCFilter
  Accounts = {a1, a2}
  Devices = {d1}
  NoOne = NoOne
  Nowhere = Nowhere
  MaxAttempts = 2
  BatchLimit = 2
  MaxRows = 2
  MaxRedeliver = 1
  MaxFaults = 1
  \* mirrors: 1 is pushed to, 2 is pulled from
  MirrorIds = {1, 2}
  Direction <- MCDirection
  MaxUpdates = 2
  MaxMirrorRestarts = 1
  MaxMirrorCmds = 2
  \* symbol index
  Chunks = 1
  MaxRefs = 2
  MaxReindexes = 1
  MaxRestarts = 1
  \* mail replies: two messages that carry one token
  m1 = m1
  m2 = m2
  s1 = s1
  Uids = {1, 2}
  Keys = {m1, m2, s1}
  ClaimKeys <- MCClaimKeys
  MaxTries = 2
  MaxPollFaults = 2
  \* pack slots: anna is signed in, ian and jill are anonymous addresses
  anna = anna
  ian = ian
  jill = jill
  Requests = {1, 2, 3}
  Principals = {anna, ian, jill}
  Class = {ian, jill}
  MaxSlots = 2
  PerPrincipal = 1
  QueueLen = 2
  PerQueue = 1
  \* key file
  SecretRows = {1, 2}
  Rotators = {1, 2}
  MaxKeys = 4
  MaxSecretSets = 2
  MaxKeyFaults = 2
  \* LFS
  Oids = {1, 2}
  LfsKeyIds = {1}
  MaxPins = 2
  MaxLfsOps = 4
INVARIANTS
  ServicesTypeOK
  RowsStayBound
  ServedIndexIsWhole
  RepliesPostOnce
  SlotsAreShared
  EveryValueOpens
  
PROPERTIES
  KeepsPromise
  MarkIsSynced
  EveryRowSettles
  ServicesCatchUp
CHECK_DEADLOCK FALSE
