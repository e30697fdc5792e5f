\* The report and the viewer over two small databases with rows that collide, are
\* covered, or are corrupt; pages of one row, so that every row is a page turn.
CONSTANTS
    Histories <- MCHistories
    Times = {1, 3}
    MaxAppends = 1
    PageSize = 1
    Terms = {"", "t"}
    NoTerm = ""
    Spans = {{2, 3}}
    Views = {v1, v2, empty}
    Empty = empty
    Marks = {7}
    Nothing = Nothing
    MaxResets = 2
    MaxAsks = 2
    MaxFaults = 1
    Limit = 3
    KeyPage = 1
    Interval = {1, 2, 3, 4}
SPECIFICATION MCSpec
INVARIANTS
    NothingHidden
    SpansInterval
    WindowFaithful
PROPERTIES
    TableSettles
\* A report ends, and so does a window.
CHECK_DEADLOCK FALSE
