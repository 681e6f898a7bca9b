SPECIFICATION FairSpec
CONSTANTS
    Module = {m1}
    Plugin = {p1}
    InoPlug = {i1}
    Watcher = watcher
    HasWatcher = TRUE
    Launcher = launcher
    Stopper = {s1, s2}
    NoThread = NoThread
    NoError = NoError
INVARIANTS NothingLeftBehind RanAtMostOnce
PROPERTIES EveryCleanupRuns ImplementsLifecycle
