SPECIFICATION FairSpec
CONSTANTS
  s1 = s1
  s2 = s2
  d1 = d1
  d2 = d2
  None = None
  Erased = Erased
  Slots <- MCSlots
  Data <- MCData
  Initial = d1
  Calls <- MCCalls
  Retries = 1
  Attempts = 2
  Capacity = 9
  MayLose = TRUE
INVARIANTS StoredStays SelectedStays ReaderNeverWaits
PROPERTIES LoadsCurrent EveryCallEnds
