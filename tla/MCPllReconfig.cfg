\* Requests one behind another, and a loss of lock at any time.
SPECIFICATION FairSpec
CONSTANTS
    Phases <- MCPhases
    MaxAhead = 2
    MaxLosses = 1
PROPERTIES
    DoneHonest
    Applied
