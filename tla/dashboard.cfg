SPECIFICATION FairSpec
CONSTANTS
  PageSize = 1
  Statuses = {"pending", "running"}
  Filters = {"all", "pending"}
  FirstTable <- OneRow
  MaxLoads = 2
  MaxTasks = 3
  MaxChanges = 1
  MaxClicks = 2
  MaxErrors = 1
INVARIANTS TypeOK WholeUnlessTorn
PROPERTY EventuallyCurrent
