CONSTANTS
    p1 = p1
    p2 = p2
    p3 = p3
    Pids = {p1, p2}
    NoPid = NoPid
    MaxJobs = 2
    PipeMax = 2
    Fates = {"exit1"}
    Stoppable = {p1}
    Monitors = {TRUE}
    AtOnce = {TRUE, FALSE}
    Commands = {"bg", "fg", "notify", "prompt", "kill"}
    Reentrant = FALSE
    MaxCommands = 2
SPECIFICATION Spec
INVARIANTS TypeOK MarkedAreGone
PROPERTIES LeavesWhenDone CurrentExists
\* The shell may exit, and waits for children that need not end.
CHECK_DEADLOCK FALSE
