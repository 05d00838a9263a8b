CONSTANTS
    p1 = p1
    p2 = p2
    p3 = p3
    Pids = {p1, p2}
    NoPid = NoPid
    DeadMax = 2
    Layouts = {"apart"}
    Fates = {"exit1", "int"}
    Stoppable = {p1}
    PipeMax = 2
    Monitors = {TRUE, FALSE}
    Interrupts = FALSE
    Quiet <- WindowQuiet
SPECIFICATION Spec
INVARIANTS NeverStranded SleepsOnlyWithoutAnswer RightEntries
PROPERTY WaitEnds
CHECK_DEADLOCK FALSE
