SPECIFICATION FairSpec
CONSTANTS
  NCircuits = 2
  Prot = {"ipv4"}
  Pid = {}
  Configs <- DropDownConfigs
PROPERTIES DownEndsInactive
CHECK_DEADLOCK FALSE
