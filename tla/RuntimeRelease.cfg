SPECIFICATION Spec
CONSTANTS
    Up = Up
    Slash = Slash
    Refused = Refused
    None = None
    app = app
    ui = ui
    opt = opt
    d = d
    e = e
    git = git
    out = out
    x = x
    l = l
    one = one
    other = other
    huge = huge
    m444 = m444
    m555 = m555
    m600 = m600
    m644 = m644
    m666 = m666
    m700 = m700
    m755 = m755
    m777 = m777
    m4755 = m4755
    TargetSets <- MCTargets
    Excludes <- MCExcludes
    ExcludedNames = {git}
    MaxHops = 8
    MaxNames = 6
    Trees <- MCTrees
    IncludeApp <- MCIncludeApp
    Entrypoint <- MCEntrypoint
    Volumes <- MCVolumes
    Modes <- MCModes
    Executable = {m555, m700, m755, m777, m4755}
    Special = {m4755}
    DirModes = {m700, m755}
    FileModes = {m600, m644, m755}
    LinkMode = m777
    DirNormal = m777
    FileNormal = m666
    ExecNormal = m777
    PrivateMode = m700
    Huge = {huge}
    MaxVariants = 6
    MaxEntries = 10
    Names = {app, ui, opt, d, e, git, out, x, l}
    Rank <- MCRank
INVARIANTS TypeOK ExportsWhatResolves AuditedIsExported MaterializedIsImage ExportedCanBeUnpacked
CHECK_DEADLOCK FALSE
