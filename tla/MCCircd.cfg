SPECIFICATION Spec
CONSTANTS
  NCircuits = 2
  Prot = {"ipv4", "ipv6"}
  Pid = {p1, p2}
  Configs <- SafetyConfigs
INVARIANTS DependenciesHold OffMeansDown RefcountIsRight DaemonsAreKnown ExitsAfterChildren
PROPERTIES StoppedStaysDown ImplementsCircuitStates
SYMMETRY Pids
CHECK_DEADLOCK FALSE
