\* Two concurrent launches with Dev Tunnels.
SPECIFICATION Spec
CONSTANTS
  Launchers = {l1, l2}
  Stoppers = {}
  Deleters = {}
  Dialers = {}
  Reconciler = bg
  Nobody = none
  Kinds = {"start"}
  Modes = {TRUE}
  Faults = {}
  Redefinition = FALSE
  MaxSeq = 2
INVARIANTS
  TunnelAccounted
\* A deleted session, or a finished one at the bound on seqs with nobody to
\* stop it, has nothing left to do.
CHECK_DEADLOCK FALSE
