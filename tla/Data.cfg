SPECIFICATION Spec
CONSTANTS
    MaxInt = 15
    Floats <- MCFloats
    MaxCalls = 3
    Megabyte = 6
    NoFile = NoFile
    BasicSettings <- MCBasicSettings
    OwnSettings <- MCOwnSettings
    Defaults <- MCDefaults
    CredentialNames = {"db_user", "db_password"}
    SettingsFiles <- MCSettingsFiles
    Bodies <- MCBodies
    Declared <- MCDeclared
    ResultSets <- MCResultSets
INVARIANT TypeOK
INVARIANT SettingsFollowTheFile
INVARIANT LastGivenWins
INVARIANT AnswersShowTheRows
CHECK_DEADLOCK FALSE
