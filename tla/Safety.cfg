\* A library, one collection and a link to it; two products that share an index
\* of one file; impulse responses of up to 14 taps in 54 schedules; an engine block of 7 under calls
\* of 1 to 24 frames; a bridge of eight blocks; two instances that load three
\* models and two responses over a floor of one entry; five lists a device may
\* report in either mode.
SPECIFICATION Spec
CONSTANTS
    None = None
    Dirs <- Linked
    Links <- OnlyFav
    Leads <- FavIsAmps
    Roots <- OneRoot
    Paths <- EitherName
    Faults = {"list", "cut", "file", "canonical", "read"}
    Grain = 2
    Window = 2
    MaxNow = 3
    MaxEdits = 2
    MaxScans = 3
    MaxFaults = 1
    Files = {f}
    Processes = {app, plugin}
    MaxDamage = 1
    MaxFails = 1
    MaxCrashes = 1
    MaxSweeps = 2
    MaxMoves = 1
    Lengths = {1, 4, 9, 14}
    Blocks = {1, 2, 3}
    Growths = {1, 2, 3}
    Ceilings = {2, 5}
    Spoils = {5}
    MaxTime = 34
    Silence = Silence
    EngineBlock = 7
    MaxBlock = 24
    Block = 2
    Capacity = 16
    Slice = 3
    Buffers = {0, 3, 7}
    Settling = 1
    Ceiling = 5
    Instances = {i1, i2}
    Nams = {n1, n2, n3}
    Irs = {r1, r2}
    Bad = {r2}
    Contexts = {c1, c2}
    Objects = {o1, o2, o3, o4, o5}
    HoldMax = 1
    ReapFloor = 1
    Standard = {44, 48, 96}
    PreferredFrames = 3
    StandardFrames = {1, 4}
    MaxChannels = 65535
    Builds = {older, newer}
    Full <- Known
    Refs = {a, novel}
    Presets = {"one", "two"}
    Registry <- Registers
    Reads <- Readable
    older = older
    newer = newer
    a = a
    novel = novel
    Turns = {1, 2}
    NaN = NaN
    NoRef = NoRef
    Garbage = Garbage
    MaxCalls = 3
    Shapes <- Networks
    Weight <- WeightOf
    Activation <- Polynomial
    Input <- InputAt
    Prime = 101
    BlockSizes = {1, 3, 5}
    Prewarms = {3, 100}
    MaxFed = 12
    LineLength = 5
    Gradations = 4
    MaxFrames = 4
    Latencies = {0, 3, 7}
    MaxFrame = 16
INVARIANTS
    MarksKept
    OutputIsConvolution LoadIsSpread
    DelayIsConstant
    XrunsAreDropouts
    SingleCopy ResidueBounded
    OpensAsReported
    ReadsBack NothingLost
    OutputIsWhole
PROPERTIES
    NeverErased ListedIsReflected
    KeptIfPresent
    DryIsInStep FadesAndSettles
CHECK_DEADLOCK FALSE
