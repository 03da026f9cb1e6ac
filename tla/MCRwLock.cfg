CONSTANTS
  Proc = {p1, p2, p3}
  NoProc = NoProc
  Writers = {p1, p2, p3}
  MaxDepth = 2
  SignalPoints = {"idle", "rd", "rd_list", "ru", "ru_total", "ru_list", "wr", "wr_wait", "wr_dec", "wr_list", "wu", "wu_list", "cl", "cu"}
  MaxReuse = 2
SPECIFICATION Spec
SYMMETRY Perms
INVARIANTS TypeOK WriterExcludesAll
CHECK_DEADLOCK FALSE
