\* Runs with and without a Dev Tunnel, started, attached and stopped.
SPECIFICATION Spec
CONSTANTS
  Launchers = {l1}
  Stoppers = {s1}
  Deleters = {}
  Dialers = {}
  Reconciler = bg
  Nobody = none
  Kinds = {"start", "attach"}
  Modes = {TRUE, FALSE}
  Faults = {"unlisted", "misjudged"}
  Redefinition = FALSE
  MaxSeq = 2
INVARIANTS
  TunnelAccounted
