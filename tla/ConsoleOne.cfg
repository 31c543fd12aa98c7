CONSTANTS
    c1 = c1
    Clients = {c1}
    None = None
    Kinds <- TwoKinds
    UsedSettings <- ModeSettings
    MaxInput = 3
    MaxCalls = 2
SPECIFICATION FairSpec
INVARIANTS NothingLost AnswersMatch
PROPERTIES DestructorEnds ReaderWakes QuestionAnswered
CHECK_DEADLOCK FALSE
