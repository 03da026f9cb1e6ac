SPECIFICATION FairSpec
CONSTANTS
  NCircuits = 2
  Prot = {"ipv4"}
  Pid = {p1, p2}
  Configs <- LiveConfigs
PROPERTIES HangupEnds DownIsCarriedOut ShutdownCompletes OnlineNeedsDaemon
CHECK_DEADLOCK FALSE
