\* The whole bracket, with and without a match for the third place.
SPECIFICATION PlayoffSpec
INVARIANTS
    PlayoffTypeOK
    BracketFollowsResults
    EveryTeamPlacedOnce
CHECK_DEADLOCK FALSE
