\* A state of parameters alone is loaded.
SPECIFICATION Spec
CONSTANTS
    PoolThreads = {w1}
    Main = Main
    Gui = Gui
    NamRefs = {m1, m2}
    IrRefs = {r1}
    None = None
    NoEngine = NoEngine
    Values = {p0, p1}
    Default = p0
    Docs <- Bare
    Presets = {}
    Entries = {}
    Knobs = {}
    Flushes = {}
    MaxCalls = 3
CHECK_DEADLOCK FALSE
INVARIANT EngineStandsForState
