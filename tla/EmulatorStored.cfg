SPECIFICATION Spec
CONSTANTS
  s1 = s1  s2 = s2
  normal = normal  storage = storage  analyze = analyze  trickle = trickle
  Slots <- MCSlots
  Ops <- MCOps
  Analyze = analyze
  Unmapped <- NoUnmapped
  PresetOf <- MCPresetOf
  Exact = TRUE
  OddSlots <- NoSlots
  HasBattery = TRUE
  Readings <- IdleOnly
  CommandFaults <- NoFaults
  ReadFaults = FALSE
  MayUnplug = FALSE
  PanelUser = FALSE
  CountRequests = {}
  MaxParallel = 2
  NoStatusLimit = 2
  MaxNesting = 0
  None = None
  Erased = Erased
PROPERTY RunsStoredPreset
