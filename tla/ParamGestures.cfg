\* Two parameters of two values, four calls: edits, moves by the host, loads,
\* recalls and activations.
SPECIFICATION Spec
CONSTANTS
    N = 2
    v0 = v0
    v1 = v1
    Values = {v0, v1}
    Default = v0
    Docs <- AllMoved
    MaxCalls = 4
INVARIANTS
    GesturesNest
    NoEditLost
PROPERTIES
    EditsReported
    GesturesEnd
