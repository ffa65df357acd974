\* A ring of two slots; two workers; four calls on the application; two pool
\* threads and three calls on a plug-in; two models, two rates, three changes.
SPECIFICATION Spec
CONSTANTS
    None = None
    Cap = 2
    Ahead = 2
    Readers = {r1}
    OutLen = 2
    MaxSeq = 8
    Cores = 4
    Callers = {c1, c2}
    Jobs = {j1, j2}
    Files = {"amp", "cab"}
    Old = {"cab"}
    MaxSteps = 4
    PoolThreads = {w1, w2}
    Main = Main
    Gui = Gui
    NamRefs = {m1, m2}
    IrRefs = {r1}
    NoRef = NoRef
    NoEngine = NoEngine
    m1 = m1
    m2 = m2
    r1 = r1
    p0 = p0
    p1 = p1
    Entries = {m1}
    Knobs = {p1}
    Flushes = {p1}
    MaxCalls = 3
    Models = {a, b}
    a = a
    b = b
    Latency <- Samples
    Rates = {44, 48}
    Loads <- AnyModel
    Hands = {w1}
    FadeBlocks = 1
    SettleBlocks = 2
    NoClaim = NoClaim
    NoFade = NoFade
    MaxChanges = 3
INVARIANTS
    MissedIsLowerBound
    ReturnedMeansStopped
    StreamsFit ShownIsTrue
    ResourcesAgree
    ToldOrAboutToBe
PROPERTIES
    NeverStale DeliveredOrOverwritten
    AcceptedJobsRun ShutdownReturns
    ReopenEnds
    Converges
    HostLearns RestartsEnd
CHECK_DEADLOCK FALSE
