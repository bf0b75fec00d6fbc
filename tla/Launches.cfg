\* Two concurrent launches of either kind, AdoptRuns, Delete and a link.
SPECIFICATION Spec
CONSTANTS
  Launchers = {l1, l2}
  Stoppers = {}
  Deleters = {d1}
  Dialers = {k1}
  Reconciler = bg
  Nobody = none
  Kinds = {"start", "attach", "adopt"}
  Modes = {FALSE}
  Faults = {"crash", "evict"}
  Redefinition = FALSE
  MaxSeq = 2
INVARIANTS
  LiveRunUnrecorded
  JobOfCurrentRun
  IInv
PROPERTIES
  SeqNeverReused
  LinkedStaysReady
\* A deleted session, or a finished one at the bound on seqs with nobody to
\* stop it, has nothing left to do.
CHECK_DEADLOCK FALSE
