\* A save and a knob turned before its answer is read.
SPECIFICATION Spec
CONSTANTS
  None = None
  Values = {0, 1}
  Default = 0
  Files = {"amp", "cab"}
  Presets = {}
  MaxCalls = 2
INVARIANT SavedIsWritten
CHECK_DEADLOCK FALSE
