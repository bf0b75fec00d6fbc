\* The dialogue with Slurm, the traffic of a run, the provisioning of a host.
SPECIFICATION HostsSpec
CONSTANTS
  \* Slurm: two jobs of one name, two moves of the queue
  Jobs = {a1, a2}
  JobNames = {m1}
  ByName = byname
  MaxMoves = 2
  HostFaults = {"lost", "garbled", "failed", "squeue", "lag", "stray", "scancel"}
  \* traffic: two links and a request over two runs
  Muxes = {a1, a2}
  Requests = {q1}
  Nobody = nobody
  Tunnel = tunnel
  MaxRuns = 2
  MaxIdle = 1
  \* provisioning: two scripts, two releases, the first at the floor
  Scripts = {a1, a2}
  NoFile = nofile
  MaxRelease = 2
  Floor = 1
INVARIANTS
  HostsTypeOK
  DefiniteRefusal
  ReportedStateHeld
  LiveJobFound
  CancelNotLost
  TrafficReachesItsRun
  OpenLinkRegistered
  UndisturbedProvision
SYMMETRY HostsSymmetry
\* Sessions nobody uses, jobs that ended and scripts that returned rest.
CHECK_DEADLOCK FALSE
