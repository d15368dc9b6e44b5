SPECIFICATION GraphSpec
CONSTANTS
    MaxAttempts = 3
    ChaosSpecs <- MCChaosSpecs
    Roles <- MCRoles
    Providers = {"fake", "lyzr", "openai"}
    Tools <- MCTools
    LlmReplies <- MCLlmReplies
    RunSpecs <- MCRunSpecs
    Limit = 6
INVARIANTS
    TypeOK
    FailuresAreAccounted
    ResultIsCurrent
    EveryCallAnswered
    AnswerOrLimit
    ChaosStaysInItsStage
PROPERTIES
    RunEnds
CHECK_DEADLOCK FALSE
