SPECIFICATION Spec
CONSTANTS
    c1 = c1
    c2 = c2
    NoOne = NoOne
    NoEnv = NoEnv
    Clients = {c1, c2}
    Names <- MCNames
    Headers <- MCHeaders
    Issues <- MCIssues
    AnalysisOf <- MCAnalysisOf
    HeaderLists <- BothHeaders
    Options = {"on", "off"}
    Envs = {"first", "second"}
    WorkerCounts = {0, 1, 3}
    MaxWorkers = 3
    ThreadLimit = 2
    DetectMayThrow = TRUE
    MaxAnalyses = 2
SYMMETRY Symmetry
INVARIANTS
    CompleteAtReturn
    ReadersSeeAgreement
PROPERTIES
    HandedListsFrozen
    ImplementsService
