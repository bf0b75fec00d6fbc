\* A launch slower than provisionTimeout whose submission has no answer.
SPECIFICATION Spec
CONSTANTS
  Launchers = {l1}
  Stoppers = {}
  Deleters = {}
  Dialers = {}
  Reconciler = bg
  Nobody = none
  Kinds = {"start"}
  Modes = {FALSE}
  Faults = {"ambiguous", "slow"}
  Redefinition = FALSE
  MaxSeq = 1
INVARIANTS
  NoOrphanJob
\* A deleted session, or a finished one at the bound on seqs with nobody to
\* stop it, has nothing left to do.
CHECK_DEADLOCK FALSE
