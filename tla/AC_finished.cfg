SPECIFICATION Spec
CONSTANTS
    c1 = c1
    c2 = c2
    NoOne = NoOne
    NoEnv = NoEnv
    Clients = {c1, c2}
    Names <- MCNames
    Headers <- MCHeaders
    Issues <- MCIssues
    AnalysisOf <- MCAnalysisOf
    HeaderLists <- BothHeaders
    Options = {"on"}
    Envs = {"first"}
    WorkerCounts = {2}
    MaxWorkers = 2
    ThreadLimit = 1
    DetectMayThrow = FALSE
    MaxAnalyses = 1
SYMMETRY Symmetry
INVARIANTS
    FinishedWhenNoneRuns
