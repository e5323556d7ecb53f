SPECIFICATION Spec
CONSTANTS
    None = None
    Error = Error
    Worlds <- MCWorlds
    Queries <- MCQueries
    MaxQuestions = 3
    MaxChanges = 1
CHECK_DEADLOCK FALSE
INVARIANTS TypeOK AnswersAreDenoted OneDefinition
PROPERTY QuestionsAnswered
