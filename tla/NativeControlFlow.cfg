SPECIFICATION Spec
CONSTANTS
    Programs <- AllPrograms
    Questions <- MCQuestions
    MaxAnswers = 9
INVARIANTS
    HoistAgrees
    TryErasureAgrees
    ScalarizedAgrees
    CompiledAgrees
    TypedAgrees
    CellsHoldTheirTypes
CHECK_DEADLOCK FALSE
