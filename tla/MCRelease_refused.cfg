SPECIFICATION ReleaseSpec
CONSTANTS
  m1 = m1
  m2 = m2
  Message <- MCMessage
  MaxImages = 1
  LocalDays = 3
  DailyDays = 3
  MonthlyDays = 4
  FreshDays = 1
  Month = 2
  MaxDay = 4
  MaxRun = 3
  VisitedRuns = 1
  Scenes = {"deploys"}
  MaxDeploy = 2
SYMMETRY MCSymmetry
PROPERTIES
  GatedAreNotRefused
CHECK_DEADLOCK FALSE
