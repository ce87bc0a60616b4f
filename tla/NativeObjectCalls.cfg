SPECIFICATION Spec
CONSTANTS
    Object = {o1, o2}
    Name = {}
    Length = length
    Plain = {undefined}
    Undefined = undefined
    Function = {f}
    Null = null
    Named = {length}
    Stored = {undefined, 1}
    Limit = 3
    MaxLength = 2
SYMMETRY Symmetry
INVARIANTS PrototypesAcyclic LiteralDense
PROPERTIES SealedStaysSealed
CHECK_DEADLOCK FALSE
