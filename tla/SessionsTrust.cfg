SPECIFICATION Spec
CONSTANTS
    py = py
    nb = nb
    r1 = r1
    r2 = r2
    c1 = c1
    c2 = c2
    c3 = c3
    c4 = c4
    None = None
    Languages = {py}
    Notebooks = {}
    Runtimes = {r1, r2}
    LanguageOf <- OneLanguage
    Calls = {c1, c2, c3}
    AutoStart = {py}
    AnswersAfterExit = FALSE
    StatesMayLag = FALSE
    CanLoseExtHost = FALSE
    Requests = {"start", "auto", "language"}
    Discovered = {r1}
    TrustedAtStart = FALSE
SYMMETRY CallSymmetry
INVARIANTS StartingHostOwned
CHECK_DEADLOCK FALSE
