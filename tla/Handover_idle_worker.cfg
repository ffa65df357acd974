SPECIFICATION FairSpec
CONSTANTS
  Res = {r1, r2, r3}
  None = None
  CommandCap = 1
  RetireCap = 2
  MaxPerBlock = 1
  Fade = 1
  Params <- NoParams
  Fits = {TRUE}
PROPERTIES
  GateReopens
