CONSTANTS
    Handlers = {h1, h2, h3}
    Old = Old
    None = None
    MaxSubmitCount = 2
    Answers <- MCAnswers
    MaxFailures = 0
SPECIFICATION Spec
INVARIANTS SubmittedRecorded
CHECK_DEADLOCK FALSE
