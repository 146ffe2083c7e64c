SPECIFICATION FairSpec
CONSTANTS
    py = py
    nb = nb
    r1 = r1
    r2 = r2
    c1 = c1
    c2 = c2
    c3 = c3
    c4 = c4
    None = None
    Languages = {py}
    Notebooks = {nb}
    Runtimes = {r1, r2}
    LanguageOf <- OneLanguage
    Calls = {c1, c2, c3}
    AutoStart = {}
    AnswersAfterExit = FALSE
    StatesMayLag = FALSE
    CanLoseExtHost = TRUE
    Requests = {"start", "select", "restart", "shutdownNotebook"}
    Discovered = {r1, r2}
    TrustedAtStart = TRUE
CONSTRAINTS CallsInOrder NotebookCalls
INVARIANTS DisconnectedNotRunning
PROPERTIES EveryCallReturns
CHECK_DEADLOCK FALSE
