SPECIFICATION EditorSpec
CONSTANTS
    r1 = r1
    r2 = r2
    f1 = f1
    f2 = f2
    alpha = alpha
    beta = beta
    a = a
    b = b
    z = z
    R1 = R1
    R2 = R2
    p1 = p1
    p2 = p2
    p3 = p3
    u1 = u1
    u2 = u2
    u3 = u3
    NoProject = NoProject
    None = None
    Board = Board
    Wanted = Wanted
    Template = Template
    NewValue = NewValue
    Blank = Blank
    Projects = {alpha, beta}
    Calls = {r1, r2}
    Fetches = {f1, f2}
    Comps = {R1, R2}
    Replaced = {"part"}
    Menu <- MCMenu
    PagesOf <- MCPagesOf
    HomePage <- MCHomePage
    Metadata <- MCMetadata
    Pours = {p1, p2, p3}
    Callable = {p1, p2}
    PcbRequests <- MCPcbRequests
    Queries <- MCQueries
    MaxEvents = 4
    FirstPages = {a, Board}
SYMMETRY Symmetry
INVARIANTS
    NeverStale
    RightProject
    EachComponentOnce
    PageComesBack
    MetadataSurvives
    ConnectivityIsRight
    NoDeadValues
    AnswersAreTrue
PROPERTIES
    CacheMovesForward
CHECK_DEADLOCK FALSE
