\* The first engine, another device, and then a knob.
SPECIFICATION Spec
CONSTANTS
  None = None
  Values = {0, 1}
  Default = 0
  Files = {"amp", "cab"}
  Presets = {}
  MaxCalls = 3
PROPERTY ParamReaches
CHECK_DEADLOCK FALSE
