SPECIFICATION Spec
CONSTANTS
    Programs <- BreakPrograms
    Questions <- MCQuestions
    MaxAnswers = 9
INVARIANTS
    CompiledAgrees
CHECK_DEADLOCK FALSE
