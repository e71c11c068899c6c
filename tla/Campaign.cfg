CONSTANTS
  Modes = {direct, python}
  Rounds = 3
  Repetitions = 1
  MaxAttempts = 2
  Settings = {1, 2}
  MaxFaults = 2
SPECIFICATION FairSpec
INVARIANTS TypeOK Balanced ResourcesMatch MergedIsSound
PROPERTIES CompletedIsKept CampaignFinishes
CHECK_DEADLOCK FALSE
