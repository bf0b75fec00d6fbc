\* A requeued job whose Linkspan connects while a pass is under way.
SPECIFICATION Spec
CONSTANTS
  Launchers = {l1}
  Stoppers = {}
  Deleters = {}
  Dialers = {k1}
  Reconciler = bg
  Nobody = none
  Kinds = {"start"}
  Modes = {FALSE}
  Faults = {"requeue"}
  Redefinition = FALSE
  MaxSeq = 1
PROPERTIES
  LinkedStaysReady
\* A deleted session, or a finished one at the bound on seqs with nobody to
\* stop it, has nothing left to do.
CHECK_DEADLOCK FALSE
