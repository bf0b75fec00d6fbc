\* SSH keys and hosts, linked accounts, signing keys, Custos users, run records.
SPECIFICATION MCSpec
CONSTANTS
  \* SSH keys and hosts: every step may fail, or the process stop; removing a
  \* file succeeds
  Names = {b1, b2}
  Keys = {a1, a2}
  Aliases = {host1}
  None = None
  NoKey = NoKey
  StoreFaults = {"crash", "write", "sync", "insert", "rename", "commit", "reply"}
  \* linked accounts: one pending authorization, one rotation of a token
  Callers = {a1, a2}
  Principals = {b1, b2}
  Handles = {c1, c2}
  NoBody = nobody
  MaxEntries = 1
  MaxRotations = 1
  \* signing keys
  Bearers = {a1, a2}
  Kids = {k1, k2}
  \* Custos users: one cache entry
  Resolvers = {a1, a2}
  IDTokens = {b1, b2}
  Users = {c1, c2}
  Unknown = unknown
  MaxUsers = 1
  UserTTL = 1
  MaxClock = 2
  \* run records: two sessions of two runs, two records kept, two samples
  Sessions = {a1, a2}
  MaxSeq = 2
  MaxRunRecords = 2
  MaxSamples = 2
  SaveFaults = {TRUE, FALSE}
INVARIANTS
  MCTypeOK
  KeyBytesKept
  HostsNameStoredKeys
  StartupNotRefused
  RedeemedForItsPrincipal
  RefreshTokenKept
  OneKeyRefresh
  KnownKeyAccepted
  IdentityNotStale
  AtMostOneStraySample
SYMMETRY MCSymmetry
\* A store nobody calls has nothing to do.
CHECK_DEADLOCK FALSE
