SPECIFICATION Spec
CONSTANTS
  Res = {r1, r2}
  None = None
  CommandCap = 1
  RetireCap = 2
  MaxPerBlock = 1
  Fade = 2
  Params <- Controls
  Fits = {TRUE}
SYMMETRY Symmetry
PROPERTIES
  FollowsCustody
  NoCut
