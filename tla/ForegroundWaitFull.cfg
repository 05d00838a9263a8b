CONSTANTS
    p1 = p1
    p2 = p2
    p3 = p3
    Pids = {p1, p2, p3}
    NoPid = NoPid
    DeadMax = 2
    Layouts = {"adjacent"}
    Fates = {"exit1"}
    Stoppable = {}
    PipeMax = 1
    Monitors = {FALSE}
    Interrupts = FALSE
    Quiet <- WindowQuiet
SPECIFICATION Spec
PROPERTY WaitEnds
CHECK_DEADLOCK FALSE
