\* A key is deleted, its tombstone cannot be removed, and its name is used again.
SPECIFICATION MCSpec
CONSTANTS
  \* SSH keys and hosts: the process may stop, and removing a file may fail
  Names = {b1, b2}
  Keys = {a1, a2}
  Aliases = {host1}
  None = None
  NoKey = NoKey
  StoreFaults = {"crash", "remove"}
  \* linked accounts: one pending authorization, one rotation of a token
  Callers = {a1, a2}
  Principals = {b1, b2}
  Handles = {c1, c2}
  NoBody = nobody
  MaxEntries = 1
  MaxRotations = 1
  \* signing keys
  Bearers = {a1, a2}
  Kids = {k1, k2}
  \* Custos users: one cache entry
  Resolvers = {a1, a2}
  IDTokens = {b1, b2}
  Users = {c1, c2}
  Unknown = unknown
  MaxUsers = 1
  UserTTL = 1
  MaxClock = 2
  \* run records: two sessions of two runs, two records kept, two samples
  Sessions = {a1, a2}
  MaxSeq = 2
  MaxRunRecords = 2
  MaxSamples = 2
  SaveFaults = {TRUE, FALSE}
INVARIANTS
  StartupNotRefused
\* A store nobody calls has nothing to do.
CHECK_DEADLOCK FALSE
