SPECIFICATION Spec
CONSTANTS
    Programs <- AllPrograms
    Questions <- MCQuestions
    Throwing = {11}
    MaxAnswers = 6
INVARIANTS
    MachineAgrees
CHECK_DEADLOCK FALSE
