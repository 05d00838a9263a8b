CONSTANTS
    p1 = p1
    p2 = p2
    p3 = p3
    Pids = {p1, p2, p3}
    NoPid = NoPid
    DeadMax = 2
    Layouts = {"apart", "adjacent"}
    Fates = {"exit1", "int"}
    Stoppable = {}
    PipeMax = 2
    Monitors = {TRUE, FALSE}
    Interrupts = TRUE
    Quiet <- NowhereQuiet
SPECIFICATION Spec
SYMMETRY Symmetry
INVARIANTS TypeOK RightStatus JobFinished
PROPERTY ImplementsCommandRun
\* The shell may die of a signal, and it may sleep for ever.
CHECK_DEADLOCK FALSE
