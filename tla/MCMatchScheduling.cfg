\* Two matches compete for one place of coverage.
CONSTANTS
  Matches = {m1, m2}
  Slots = {s1}
  Capacity <- MCCapacity
  SlotTimes <- MCSlotTimes
  ResponseTime = 1
  Notice = 1
  HoldTime = 1
  Times <- MCTimes
  Editors = {}
  BatchEditors = {}
  NoTime = NoTime
  NoSlot = NoSlot
  MaxTime = 2
SPECIFICATION Spec
INVARIANTS TypeOK SlotNotOversold CoverageFollowsSchedule HoldFollowsProposal SilenceIsNotCovered
PROPERTIES SilenceNeverReschedules
SYMMETRY MatchSymmetry
CHECK_DEADLOCK FALSE
