CONSTANTS
  Proc = {p1, p2}
  Res = {a, b}
  NoProc = NoProc
  MaxDepth = 2
  SigKill = TRUE
SPECIFICATION Spec
SYMMETRY Perms
INVARIANTS TypeOK MutualExclusion CountMatchesList ExitReleasesAll
PROPERTY ImplementsMutex
