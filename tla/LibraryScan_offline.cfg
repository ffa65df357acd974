\* A link to a drive that goes offline between two scans.
SPECIFICATION Spec
CONSTANTS
  None = None
  Dirs <- LinkedDrive
  Links <- OnlyFav
  Leads <- FavIsDrive
  Roots <- OneRoot
  Paths <- OnDrive
  Faults = {"link"}
  Grain = 2
  Window = 2
  MaxNow = 2
  MaxEdits = 1
  MaxScans = 2
  MaxFaults = 1
PROPERTY NeverErased
CHECK_DEADLOCK FALSE
