SPECIFICATION Spec
CONSTANTS
    Blank = Blank
    Fresh = Fresh
    Other = Other
    None = None
    Env = Env
    Relative = Relative
    Unsafe = Unsafe
    bin = bin
    lib = lib
    pkgs = pkgs
    state = state
    python = python
    libp = libp
    libx = libx
    liby = liby
    tool = tool
    ext = ext
    ld = ld
    perl = perl
    ruby = ruby
    cuda = cuda
    cudart = cudart
    torch = torch
    flash = flash
    Order <- MCOrder
    Trees <- MCTrees
    SystemPaths = {ld, Env}
    SystemExecutables = {ld}
    SystemLibraries = {cuda}
    SystemDirs = {}
    MutableDirs = {state}
    Limits = {2, 20}
    Groups <- MCGroups
    Configs <- MCConfigs
    Profiles = {"cpu", "gpu_required"}
    Runs <- MCRuns
    MaxBuilds = 2
INVARIANTS TypeOK SanitizedIsClean OriginalNeverLost GateSound ImportsProven
CHECK_DEADLOCK FALSE
