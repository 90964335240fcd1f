CONSTANTS
    Entity = {e1}
    Caller = {q1, q2}
    Kind = {"trigger", "variable", "client", "transformation"}
    Value = {x, Empty}
    Empty = Empty
    Gone = Gone
    NoCall = NoCall
    MaxEdits = 2
    Condition = {x1, x2}
    MaxListed = 1
    TriggerType = {"linkClick", "pageview"}
    Omitted = Omitted
    NoTrigger = NoTrigger
    NoAnswer = NoAnswer
SYMMETRY Symmetry
SPECIFICATION ToolsSpec
PROPERTIES
    OmittedFieldsPreserved
CHECK_DEADLOCK FALSE
