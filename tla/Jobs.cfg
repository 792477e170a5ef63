CONSTANTS
    Handlers = {h1, h2, h3}
    Old = Old
    None = None
    MaxSubmitCount = 2
    Answers <- MCAnswers
    MaxFailures = 2
SYMMETRY HandlerSymmetry
SPECIFICATION Spec
INVARIANTS TypeOK OneSubmission RunningIsSubmitted EndedIsStopped
PROPERTIES StaysStopped
CHECK_DEADLOCK FALSE
