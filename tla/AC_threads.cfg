SPECIFICATION FairSpec
CONSTANTS
    c1 = c1
    c2 = c2
    NoOne = NoOne
    NoEnv = NoEnv
    Clients = {c1, c2}
    Names <- MCNames
    Headers <- MCHeaders
    Issues <- MCIssues
    AnalysisOf <- MCAnalysisOf
    HeaderLists <- ManyLists
    Options = {"on"}
    Envs = {"first"}
    WorkerCounts = {2, 3}
    MaxWorkers = 3
    ThreadLimit = 4
    DetectMayThrow = FALSE
    MaxAnalyses = 1
INVARIANTS
    TypeOK
    CompleteAtReturn
    ReadersSeeAgreement
    IssuesExactlyOnce
PROPERTIES
    StableIdentity
    DeepLinksComplete
    AnalyzeTerminates
