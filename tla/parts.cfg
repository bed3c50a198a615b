SPECIFICATION Spec
CONSTANTS
  Requests = {r1, r2, r3}
  r1 = r1
  r2 = r2
  r3 = r3
  Chain <- MCChain
  Ignored <- MCIgnored
  Calls <- MCCalls
  Client <- MCClient
  Burst = 1
  Lifetime = 1
  MaxTicks = 2
  Secret = Secret
  OtherSecret = OtherSecret
  NoToken = NoToken
  MaxLevel = 1
  Conns = {c1, c2}
  MaxWrites = 4
  MaxDeaths = 1
  Sizes = {1, 2, 3}
  MaxPushes = 7
  Tasks = {t1, t2, t3}
  MaxHanded = 4
  MaxCrashes = 1
  MaxDir = 3
  MaxChunks = 4
  MaxNodes = 6
  MaxLimit = 3
  PageSizes <- MCPageSizes
  MaxRows = 5
  Updaters = {u1, u2, u3}
  Deleted = Deleted
  Tokens = {k1}
  Procs = {p1, p2}
  None = None
  Cleaners = {l1}
  Window = 2
  Grant = 3
  MaxLag = 1
  MaxTime = 5
  Attentive = FALSE
INVARIANTS OneAnswer GaugeCounts SnapshotSane InputWhole BurstKept
INVARIANTS Graceful OwnWriteWhole RangeIsWindow EmptyDirsGone LastDelivered
INVARIANTS DerivedKept PagesCover
CHECK_DEADLOCK FALSE
PROPERTIES RunEnds ChangeTakesEffect WaitSeesAll WaitReturns SourceAdvances
PROPERTIES NoLostUpdate OncePerWindow
