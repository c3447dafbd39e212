\* The deadline of a scheduled match (expected: violated).
CONSTANTS
  Matches = {m1}
  Slots = {}
  Capacity <- MCCapacity
  SlotTimes <- MCSlotTimes
  ResponseTime = 1
  Notice = 1
  HoldTime = 1
  Times <- MCTimes
  Editors = {e1}
  BatchEditors = {}
  NoTime = NoTime
  NoSlot = NoSlot
  MaxTime = 2
SPECIFICATION Spec
INVARIANT ScheduledBeforeDeadline
CHECK_DEADLOCK FALSE
