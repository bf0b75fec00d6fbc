\* Local and Dev Tunnels failures at every step, requeued jobs and launches
\* slower than provisionTimeout.
SPECIFICATION Spec
CONSTANTS
  Launchers = {l1}
  Stoppers = {s1}
  Deleters = {}
  Dialers = {}
  Reconciler = bg
  Nobody = none
  Kinds = {"start", "attach"}
  Modes = {TRUE}
  Faults = {"file", "save", "devtunnel", "credential", "requeue", "slow"}
  Redefinition = FALSE
  MaxSeq = 1
INVARIANTS
  NoOrphanJob
