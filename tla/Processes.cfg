\* Logins, and the shutdown of the server.
SPECIFICATION MCSpec
CONSTANTS
  \* logins: two logins to a host whose configuration is edited
  Logins = {a1, a2}
  Paths = {p1, p2}
  NoLogin = nologin
  Foreign = foreign
  \* serve: two operations on one host, a read and a stream
  Operations = {o1, o2}
  Reads = {r1}
  Streams = {w1}
  HostNames = {h1}
INVARIANTS
  MCTypeOK
  ProcessAttended
  OneLoginPerSocket
  CloseReaps
  WorkKeepsComponents
  MarksHaveOwners
PROPERTIES
  CloseCompletes
  ServeReturns
