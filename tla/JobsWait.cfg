CONSTANTS
    p1 = p1
    p2 = p2
    p3 = p3
    Pids = {p1, p2, p3}
    NoPid = NoPid
    MaxJobs = 2
    PipeMax = 1
    Fates = {"zero", "exit1"}
    Stoppable = {}
    Monitors = {FALSE}
    AtOnce = {FALSE}
    Commands = {"wait", "jobs", "disown", "exit"}
    Reentrant = TRUE
    MaxCommands = 2
SPECIFICATION Spec
INVARIANTS Packed OneJobEach AccountedWithoutControl WaitPidRight
PROPERTY LeavesWhenDone
SYMMETRY Symmetry
\* The shell may exit, and waits for children that need not end.
CHECK_DEADLOCK FALSE
