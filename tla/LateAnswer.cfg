\* A submission that returns after a pass has already adopted its job.
SPECIFICATION Spec
CONSTANTS
  Launchers = {l1}
  Stoppers = {}
  Deleters = {}
  Dialers = {}
  Reconciler = bg
  Nobody = none
  Kinds = {"start"}
  Modes = {FALSE}
  Faults = {}
  Redefinition = FALSE
  MaxSeq = 1
PROPERTIES
  CancelsOnlyStopped
\* A finished session at the bound on seqs has nothing left to do.
CHECK_DEADLOCK FALSE
