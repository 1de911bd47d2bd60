\* Three calls overlap, an upload may fail between its two files, and the clock
\* passes both ends of a window.
SPECIFICATION Spec
CONSTANTS
    e1 = e1
    e2 = e2
    c1 = c1
    c2 = c2
    c3 = c3
    None = None
    Earlier = Earlier
    Employees <- MCEmployees
    Calls <- MCCalls
    Callers <- MCCallers
    Times = 2
    Uploads = 2
    Sizes = {0, 2}
    Backlog = 1
    Leavers = 1
    Limit = 1
    Windows <- MCWindows
SYMMETRY Symmetry
CHECK_DEADLOCK FALSE
INVARIANTS
    AnnouncementsConsistent
    FeedIsOpenable
