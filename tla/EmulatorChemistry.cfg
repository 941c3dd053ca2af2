SPECIFICATION Spec
CONSTANTS
  s1 = s1  s2 = s2
  normal = normal  storage = storage  analyze = analyze  trickle = trickle
  Slots <- MCSlots
  Ops <- MCOps
  Analyze = analyze
  Unmapped <- NoUnmapped
  PresetOf <- MCPresetOf
  Exact = TRUE
  OddSlots <- OneOdd
  HasBattery = TRUE
  Readings <- MCReadings
  CommandFaults <- NoFaults
  ReadFaults = TRUE
  MayUnplug = FALSE
  PanelUser = FALSE
  CountRequests = {}
  MaxParallel = 2
  NoStatusLimit = 2
  MaxNesting = 1
  None = None
  Erased = Erased
PROPERTY RunsRightChemistry
