SPECIFICATION Spec
CONSTANTS
  s1 = s1  s2 = s2
  normal = normal  storage = storage  analyze = analyze  trickle = trickle
  Slots <- MCSlots
  Ops <- MCOps
  Analyze = analyze
  Unmapped <- MCUnmapped
  PresetOf <- MCPresetOf
  Exact = TRUE
  OddSlots <- OneOdd
  HasBattery = TRUE
  Readings <- MCReadings
  CommandFaults <- AllFaults
  ReadFaults = TRUE
  MayUnplug = FALSE
  PanelUser = FALSE
  CountRequests = {0, 1, 2}
  MaxParallel = 2
  NoStatusLimit = 1
  MaxNesting = 1
  None = None
  Erased = Erased
INVARIANTS
  TypeOK
  ConnectedHasData
  ActiveFollowsSelection
  GateHasPreset
  GateMeansTuned
  ThreadsSurvive
PROPERTIES
  CountIsStored
  OutcomeIsKept
  
  RunsSelectedPreset
  ImplementsGate
