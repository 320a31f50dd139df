SPECIFICATION Spec
CONSTANTS
    Names <- MCNames
    Sources <- MCSources
    Options = {"on", "off"}
    Definitions <- MCDefinitions
    Envs = {"first", "second"}
    NoEnv = "none"
    Issues = {"missing", "environment"}
    EnvironmentIssue = "environment"
    MaxAnalyses = 3
    AnalysisOf <- MCAnalysisOf
INVARIANTS
    TypeOK
    LinksOfOneEnvironment
PROPERTIES
    NewestLinks
    ClassesFollowTheirParents
