\* Two products with roots of their own, one scan at a time, nothing that fails.
SPECIFICATION Spec
CONSTANTS
  None = None
  app = app
  plugin = plugin
  default = default
  extra = extra
  Files = {default, extra}
  Processes = {app, plugin}
  Services = {app, plugin}
  Home <- OwnProcess
  Roots <- OwnRoots
  Overlap = FALSE
  MaxEdits = 0
  MaxDamage = 0
  MaxFails = 0
  MaxCrashes = 0
  MaxScans = 2
PROPERTY KeptIfPresent
CHECK_DEADLOCK FALSE
