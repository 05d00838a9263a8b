------------------------------- MODULE Traps -------------------------------
(***************************************************************************)
(* Traps (builtins/trap.c).  A trapped signal runs its action in the       *)
(* signal handler, or, while the shell waits for a child (waiting_pid),    *)
(* sets a bit of pending_traps, and do_pending_traps() runs it after the   *)
(* wait.  The special conditions ERR, DEBUG, CHLD and EXIT call the same   *)
(* trap_handler().  Actions are programs: they run commands, which may     *)
(* fail and wait, and may themselves be interrupted.                       *)
(***************************************************************************)
EXTENDS Integers, Sequences, FiniteSets, TLC

CONSTANTS
    Signals,   \* signal numbers, 1 (SIGHUP) among them
    Touchy,    \* what happens that goes wrong, see Touchiness
    MaxActive  \* bound: traps and waits in progress

EXIT  == 0
ERR   == 32
CHLD  == 33
DEBUG == 34
Special == {EXIT, ERR, CHLD, DEBUG}
Conditions == Signals \cup Special

Touchiness ==
    {"nested",      \* a trap is started while another one is executed that no signal
                    \* mask protects, or protects from the handler only and not
                    \* from do_pending_traps()
     "again",       \* a signal arrives while its pending trap is executed
     "chld",        \* a background job ends, with a CHLD trap, during a wait
     "hangup"}      \* SIGHUP ends the shell during a wait, with an EXIT trap

VARIABLES
    trap_table,     \* the action of each condition: "default", "ignore", "execute"
    executing_trap, \* the condition whose trap is executed, -1 if none
    pending_traps,  \* the bits set, by number
    waiting,        \* waiting_pid # 0
    active,         \* what the shell is doing: the innermost last
    arrived,        \* signals the kernel has not yet delivered
    owed            \* conditions that occurred and whose trap was not yet started

vars == <<trap_table, executing_trap, pending_traps, waiting, active, arrived, owed>>

\* masked: the kernel blocks the signal whose handler is being executed.
Program  == [is |-> "program", cond |-> -1, masked |-> FALSE]
Trap(c, masked) == [is |-> "trap", cond |-> c, masked |-> masked]
WaitOf   == [is |-> "wait", cond |-> -1, masked |-> FALSE]
PendingAt(i) == [is |-> "pending", cond |-> i, masked |-> FALSE]
Over     == [is |-> "over", cond |-> -1, masked |-> FALSE]

Top     == active[Len(active)]
Without == SubSeq(active, 1, Len(active) - 1)
Running == Top.is \in {"program", "trap"}

Init ==
    /\ trap_table = [c \in Conditions |-> "default"]
    /\ executing_trap = -1 /\ pending_traps = {} /\ waiting = FALSE
    /\ active = <<Program>> /\ arrived = {} /\ owed = {}

\* 1 << (signum-1), an int: the count is taken modulo 32 (undefined in C, what
\* the processor does).
BitOfNumber(c) == c % 32
Bit(c) == (c - 1) % 32

Starts(c, masked, others) ==
    /\ Len(others) < MaxActive
    /\ "nested" \in Touchy \/ \A i \in DOMAIN others :
          others[i].is = "trap" => others[i].masked = (others[i].cond # c)
    /\ active' = Append(others, Trap(c, masked))
    /\ executing_trap' = c
    /\ UNCHANGED pending_traps

\* trap_handler(): called with `others' in progress.
TrapHandlerUnguarded(c, masked, others) ==
    IF trap_table[c] # "execute"
    THEN active' = others /\ UNCHANGED <<executing_trap, pending_traps, owed>>
    ELSE IF waiting
    THEN /\ pending_traps' = pending_traps \cup {Bit(c)} /\ owed' = owed \cup {c}
         /\ active' = others /\ UNCHANGED executing_trap
    ELSE Starts(c, masked, others) /\ UNCHANGED owed

TrapHandler(c, masked, others) ==
    IF trap_table[c] = "execute" /\ executing_trap = c
    THEN /\ owed' = IF c \in Signals THEN owed \cup {c} ELSE owed
         /\ active' = others /\ UNCHANGED <<executing_trap, pending_traps>>
    ELSE TrapHandlerUnguarded(c, masked, others)

Idle == UNCHANGED <<trap_table, waiting, arrived>>
-----------------------------------------------------------------------------
\* The trap builtin.
SetTrap(c, action) ==
    /\ Running
    /\ trap_table' = [trap_table EXCEPT ![c] = action]
    /\ UNCHANGED <<executing_trap, pending_traps, waiting, active, arrived, owed>>

\* A signal is sent to the shell.
Kill(s) ==
    /\ Top.is # "over" /\ trap_table[s] = "execute"
    /\ arrived' = arrived \cup {s}
    /\ UNCHANGED <<trap_table, executing_trap, pending_traps, waiting, active, owed>>

\* The kernel calls trap_handler(); a signal whose trap has been removed in the
\* meantime is dropped.
Deliver(s) ==
    /\ s \in arrived /\ Top.is # "over"
    /\ ~\E i \in DOMAIN active : active[i].masked /\ active[i].cond = s
    /\ "again" \in Touchy \/ executing_trap # s
    /\ TrapHandler(s, TRUE, active)
    /\ arrived' = arrived \ {s}
    /\ UNCHANGED <<trap_table, waiting>>

\* Every simple command calls the DEBUG trap, a failed one the ERR trap.
Command == Running /\ TrapHandler(DEBUG, FALSE, active) /\ Idle
Failure == Running /\ TrapHandler(ERR, FALSE, active) /\ Idle

\* notice_termination() of a background job, in the SIGCHLD handler.
JobEnds ==
    /\ "chld" \in Touchy \/ ~waiting
    /\ Running \/ Top.is = "wait"
    /\ TrapHandler(CHLD, FALSE, active)
    /\ Idle

\* wait_on_child(), and the wait builtin.
StartWait ==
    /\ Running /\ Len(active) < MaxActive
    /\ active' = Append(active, WaitOf) /\ waiting' = TRUE
    /\ UNCHANGED <<trap_table, executing_trap, pending_traps, arrived, owed>>

EndWaitStillWaiting ==
    /\ Top.is = "wait"
    /\ active' = IF pending_traps = {} THEN Without ELSE Append(Without, PendingAt(1))
    /\ UNCHANGED <<trap_table, executing_trap, pending_traps, waiting, arrived, owed>>
EndWait ==
    /\ Top.is = "wait"
    /\ waiting' = FALSE
    /\ active' = IF pending_traps = {} THEN Without ELSE Append(Without, PendingAt(1))
    /\ UNCHANGED <<trap_table, executing_trap, pending_traps, arrived, owed>>

NextBitAfter(i) ==
    IF \E s \in Signals : s > i /\ Bit(s) \in pending_traps
    THEN CHOOSE s \in Signals : s > i /\ Bit(s) \in pending_traps
    ELSE 0
NextBit(i) ==
    IF \E s \in Signals : s >= i /\ Bit(s) \in pending_traps
    THEN CHOOSE s \in Signals : /\ s >= i /\ Bit(s) \in pending_traps
                                /\ \A t \in i..(s-1) : t \notin Signals \/ Bit(t) \notin pending_traps
    ELSE 0

\* do_pending_traps(): the bit is cleared after its trap was executed, see EndTrap.
DoPending ==
    LET i == NextBit(Top.cond)
    IN  /\ Top.is = "pending"
        /\ IF i = 0 \/ trap_table[i] # "execute" \/ executing_trap = i
           THEN /\ active' = IF i = 0 THEN Without ELSE Append(Without, PendingAt(i + 1))
                /\ pending_traps' = IF i = 0 THEN pending_traps ELSE pending_traps \ {Bit(i)}
                /\ owed' = owed \ {i}
                /\ UNCHANGED executing_trap
           ELSE Starts(i, FALSE, Append(Without, PendingAt(i))) /\ owed' = owed \ {i}
    /\ Idle

BitStays(under) == {}
BitDone(under) == IF under.is = "pending" THEN {Bit(under.cond)} ELSE {}

\* The end of an action: back in do_pending_traps(), if that called the handler.
EndTrap ==
    LET n       == Len(active) - 1
        below   == active[n]
        pending == below.is = "pending" /\ ~Top.masked
    IN  /\ Top.is = "trap"
        /\ executing_trap' = -1
        /\ pending_traps' = pending_traps \ (IF pending THEN BitDone(below) ELSE {})
        /\ active' = CASE pending           -> [Without EXCEPT ![n] = PendingAt(below.cond + 1)]
                       [] below.is = "over" -> <<Over>>
                       [] OTHER             -> Without
        /\ UNCHANGED <<trap_table, waiting, arrived, owed>>

\* exit, or the end of the script: exit_gracefully() runs the EXIT trap.
Exit ==
    /\ Running /\ Len(active) < MaxActive
    /\ LET o == Append(active, Over)
       IN  TrapHandler(EXIT, FALSE, IF trap_table[EXIT] = "execute" /\ executing_trap # EXIT THEN o ELSE <<Over>>)
    /\ Idle

\* SIGHUP without a trap: its handler exits, whatever the shell is doing.
Hangup ==
    /\ 1 \in Signals /\ trap_table[1] = "default"
    /\ "hangup" \in Touchy \/ trap_table[EXIT] # "execute"
    /\ Top.is = "wait"
    /\ TrapHandler(EXIT, FALSE, <<Over>>)
    /\ Idle

Done == active = <<Over>> /\ UNCHANGED vars

Next ==
    \/ \E c \in Conditions, a \in {"default", "ignore", "execute"} : SetTrap(c, a)
    \/ \E s \in Signals : Kill(s) \/ Deliver(s)
    \/ Command \/ Failure \/ JobEnds \/ Exit \/ Hangup
    \/ StartWait \/ EndWait \/ DoPending \/ EndTrap
    \/ Done

Spec == Init /\ [][Next]_vars
-----------------------------------------------------------------------------
TypeOK ==
    /\ executing_trap \in {-1} \cup Conditions
    /\ Top.is # "over" => (waiting <=> Top.is = "wait")
    /\ pending_traps \subseteq {Bit(s) : s \in Signals}

\* The action of a trap is not executed again while it is being executed.
NeverRecursive ==
    \A i, j \in DOMAIN active :
        active[i].is = "trap" /\ active[j].is = "trap" /\ active[i].cond = active[j].cond => i = j

\* When the shell is back in its program it has executed the traps of all the
\* signals that were delivered; when it is over, that of its end.
NothingOwed ==
    /\ active = <<Program>> => owed = {}
    /\ active = <<Over>> => EXIT \notin owed

\* A bit stands for a signal that was delivered and whose trap has not ended.
RightTrap ==
    \A s \in Signals : Bit(s) \in pending_traps /\ active # <<Over>> =>
        s \in owed \/ \E i \in DOMAIN active : active[i].is = "trap" /\ active[i].cond = s
=============================================================================
