\* Two trials, commands or editors each, and requests enough for one to be late.
SPECIFICATION PSpec
CONSTANTS
    RosConfigs <- MCRosConfigs
    MaxMessages = 4
    MaxCalls = 2
    MaxSteps = 2
    XConfigs <- MCXConfigs
    XTrials = 2
    XRequests = 5
    Profiles <- MCProfiles
    CapBudget = 3
    CapFailures = 2
    CapTrials = 2
    CapMoves = 2
    Stray = 1
    RequestTime = 2
    AttemptTime = 2
    Backoff = 1
    Wires = {"chat", "responses", "messages", "gemini-live", "interactions"}
    MaxRetries = 2
    WTrials = 2
    WReplies = 2
    WCalls = 2
    WPolls = 1
    ToolConfigs <- MCToolConfigs
    TDims = {1, 2}
    Top = 2
    TTrials = 2
    TChunks = 3
    ActConfigs <- MCActConfigs
    Cameras = {"a", "b"}
    Turns <- MCTurns
    MaxLLMCalls = 3
    ActTrials = 2
    Options <- MCOptions
    Commands = {1, 2}
    Devices = {"d1", "d2"}
    Jobs <- MCJobs
    JConfigs <- MCJConfigs
    Editors = {1, 2}
    Corrections <- MCCorrections
    MaxEdits = 2
INVARIANTS
    PluginsTypeOK
    AnswersAreTheirOwn
    MotionsAreAsDeclared
    WireKeepsHistory
    NarratesOwnTrial
    KeysStayHome
    CommandsLeaveRigs
    JudgementsCount
PROPERTIES
    RefusedIsVisible
\* Every subject ends: its bounds are reached, or it is closed.
CHECK_DEADLOCK FALSE
