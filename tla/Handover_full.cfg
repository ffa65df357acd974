SPECIFICATION Spec
CONSTANTS
  Res = {r1, r2, r3, r4}
  None = None
  CommandCap = 2
  RetireCap = 2
  MaxPerBlock = 2
  Fade = 3
  Params <- NoParams
  Fits = {TRUE, FALSE}
SYMMETRY Symmetry
INVARIANTS
  OnePlace
  FadeMeetsFreePen
