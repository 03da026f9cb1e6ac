CONSTANTS
  Proc = {p1, p2, p3}
  NoProc = NoProc
  Writers = {p1, p2}
  MaxDepth = 2
  SignalPoints = {"idle", "rd", "ru", "wu", "cl"}
  MaxReuse = 0
SPECIFICATION FairSpec
INVARIANTS FilesAgree BlockedOnlyByLive
PROPERTIES WriterNotStarved PromotionCompletes ExitTerminates
CHECK_DEADLOCK FALSE
