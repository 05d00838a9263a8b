CONSTANTS
    p1 = p1
    p2 = p2
    p3 = p3
    Pids = {p1}
    NoPid = NoPid
    MaxJobs = 2
    PipeMax = 1
    Fates = {"exit1"}
    Stoppable = {}
    Monitors = {TRUE}
    AtOnce = {FALSE}
    Commands = {"wait", "prompt"}
    Reentrant = FALSE
    MaxCommands = 2
SPECIFICATION Spec
PROPERTY WaitBgReturns
\* The shell may exit, and waits for children that need not end.
CHECK_DEADLOCK FALSE
