CONSTANTS
    p1 = p1
    p2 = p2
    p3 = p3
    Pids = {p1, p2}
    NoPid = NoPid
    MaxJobs = 2
    PipeMax = 1
    Fates = {"exit1"}
    Stoppable = {}
    Monitors = {FALSE}
    AtOnce = {FALSE}
    Commands = {"wait"}
    Reentrant = FALSE
    MaxCommands = 1
SPECIFICATION Spec
INVARIANT WaitJobRight
\* The shell may exit, and waits for children that need not end.
CHECK_DEADLOCK FALSE
