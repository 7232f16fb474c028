CONSTANTS
    LOOKS = 20
    Devices <- MCDevices
SPECIFICATION FairSpec
INVARIANTS
    TrueAnswers
    FalseAnswers
    CommitAwaited
    TitleIsSet
PROPERTIES
    AnswerComes
