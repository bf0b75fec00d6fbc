\* A session deleted and defined again under the same ID.
SPECIFICATION Spec
CONSTANTS
  Launchers = {l1}
  Stoppers = {}
  Deleters = {d1}
  Dialers = {}
  Reconciler = bg
  Nobody = none
  Kinds = {"start"}
  Modes = {FALSE}
  Faults = {}
  Redefinition = TRUE
  MaxSeq = 2
PROPERTIES
  SeqNeverReused
\* A deleted session, or a finished one at the bound on seqs with nobody to
\* stop it, has nothing left to do.
CHECK_DEADLOCK FALSE
