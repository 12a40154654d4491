SPECIFICATION Spec
CONSTANTS
    Projects = {1, 2}
    Names = {1, 2}
    LabelKeys = {"team"}
    LabelValues = {"core", "edge"}
    Operators = {"="}
    NoRow = NoRow
    Limits = {0, 1, 2}
    MaxChanges = 2
INVARIANTS Ascending NothingMissed NothingInvented
