\* What must eventually happen, after submissions without an answer.
SPECIFICATION FairSpec
CONSTANTS
  Launchers = {l1}
  Stoppers = {s1}
  Deleters = {}
  Dialers = {}
  Reconciler = bg
  Nobody = none
  Kinds = {"start"}
  Modes = {FALSE}
  Faults = {"ambiguous"}
  Redefinition = FALSE
  MaxSeq = 1
PROPERTIES
  StopCompletes
  SubmissionSettles
