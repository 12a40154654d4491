SPECIFICATION Spec
CONSTANTS
    Projects = {1, 2}
    Names = {1, 2}
    LabelKeys = {"env"}
    LabelValues = {"prod"}
    Operators = {"=", "!="}
    NoRow = NoRow
    Limits = {0, 1, 2}
    MaxChanges = 0
INVARIANTS SelectorAsDocumented
