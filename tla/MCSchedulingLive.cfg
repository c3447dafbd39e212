\* One match whose deadline an administrator keeps changing: liveness.
CONSTANTS
  Matches = {m1}
  Slots = {s1}
  Capacity <- MCCapacity
  SlotTimes <- MCSlotTimes
  ResponseTime = 1
  Notice = 1
  HoldTime = 1
  Times <- MCTimes
  Editors = {e1}
  BatchEditors = {e2}
  NoTime = NoTime
  NoSlot = NoSlot
  MaxTime = 3
SPECIFICATION FairSpec
PROPERTIES StaleProposalEnds
CHECK_DEADLOCK FALSE
