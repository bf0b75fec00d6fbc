\* Two runs launched by Start, a Stop, the background pass, restarts of the
\* process, and a scheduler that fails in every way.
SPECIFICATION Spec
CONSTANTS
  Launchers = {l1}
  Stoppers = {s1}
  Deleters = {}
  Dialers = {}
  Reconciler = bg
  Nobody = none
  Kinds = {"start"}
  Modes = {FALSE}
  Faults = {"unreachable", "cancel", "ambiguous", "crash", "evict"}
  Redefinition = FALSE
  MaxSeq = 2
INVARIANTS
  TypeOK
  LiveHasCapability
  NoOrphanJob
  UnrecordedNeverRan
PROPERTIES
  KeepsPromise
