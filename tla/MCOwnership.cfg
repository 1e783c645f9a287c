SPECIFICATION Spec
CONSTANTS
  Procs = {p1, p2}
  MaxSessions = 2
  MaxCommits = 2
  MaxBlock = 2
SYMMETRY Interchangeable
INVARIANTS
  CommitsChain
  EndsHonestly
PROPERTIES
  Fenced
CHECK_DEADLOCK FALSE
