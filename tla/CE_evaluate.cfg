SPECIFICATION Spec
CONSTANTS
    Words <- MCWords
    Platforms = {"linux", "windows", "apple"}
    Standards <- MCStandards
    StartConfigs <- MCStartConfigs
    Descriptions <- MCDescriptions
    Bad = Bad
    Envs <- MCEnvs
    NoEnv = NoEnv
    Codes <- MCCodes
    Captures <- MCCaptures
    UnitOf <- MCUnitOf
INVARIANTS
    TypeOK
    DefinitionsOfOneCall
    GoodResult
    BuiltinsWin
    LanguageIsHeader
    ScriptDirsFirst
PROPERTIES
    OneEnvironment
