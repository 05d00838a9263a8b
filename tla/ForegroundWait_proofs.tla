----------------------- MODULE ForegroundWait_proofs -----------------------
(***************************************************************************)
(* Proofs about ForegroundWait for every set of children, every size of    *)
(* the dead list and every placement of SIGCHLD.                           *)
(***************************************************************************)
EXTENDS ForegroundWait, FiniteSetTheorems, TLAPS

Ripping == {"copyPid", "copyStatus", "clearPid", "clearStatus", "load", "store", "collect"}
Noting  == {"note", "noteUpdate", "noteWrite", "noteStatus", "noteLoad", "noteStore"}

(* What keeps the two indices within one entry of the array, and a wait     *)
(* attached to a process of its job.                                       *)
Indices ==
    /\ pc \in {"copyPid", "copyStatus", "clearPid", "clearStatus", "load"} => listindex >= 0
    /\ pc = "copyStatus" => i <= DeadMax
    /\ pc = "store" => reg >= 0
    /\ pc \in {"noteWrite", "noteStatus", "noteLoad"} => listindex \in 0 .. DeadMax
    /\ pc = "noteStore" => reg \in 0 .. DeadMax

Attached ==
    /\ pc \in Waiting => pid \in Pids
    /\ pc \in Waiting \cup {"forking", "return"} => job # <<>>

TypeInv == TypeOK /\ Indices /\ Attached

LEMMA InitTypeInv == Init => TypeInv
  BY PidsAssumption, DeadMaxAssumption, LayoutsAssumption, FlagsAssumption
  DEF Init, TypeInv, TypeOK, Indices, Attached, NoSlot, Status, Ended, Exited, Signalled,
      PC, Waiting, Stopped

DeadList == [0 .. DeadMax - 1 -> [pid : Pids \cup {NoPid}, status : Status]]

(* Writing one field of a slot keeps the list a list, even past its end.    *)
LEMMA PutPidType ==
  ASSUME dead \in DeadList, listindex \in -1 .. DeadMax + 1,
         NEW k \in 0 .. DeadMax + 1, NEW p \in Pids \cup {NoPid}, PutPid(k, p)
  PROVE  /\ dead' \in DeadList /\ listindex' \in -1 .. DeadMax + 1
         /\ listindex >= 0 => listindex' >= 0
  BY DeadMaxAssumption DEF DeadList, PutPid

LEMMA PutStatusType ==
  ASSUME dead \in DeadList, NEW k \in 0 .. DeadMax + 1, NEW s \in Status,
         PutStatus(k, s)
  PROVE  dead' \in DeadList
  BY DeadMaxAssumption DEF DeadList, PutStatus

LEMMA SlotType ==
  ASSUME dead \in DeadList, NEW k \in 0 .. DeadMax + 2
  PROVE  Slot(k).pid \in Pids \cup {NoPid} /\ Slot(k).status \in Status
  BY DeadMaxAssumption DEF DeadList, Slot, NoSlot, Status, Ended, Exited, Signalled

LEMMA NoticeType ==
  ASSUME dead \in DeadList, listindex \in -1 .. DeadMax + 1,
         NEW p \in Pids, NEW s \in Status, Notice(p, s)
  PROVE  /\ dead' \in DeadList
         /\ \/ listindex' = listindex
            \/ listindex \in 0 .. DeadMax - 1 /\ listindex' = listindex + 1
  BY DeadMaxAssumption DEF DeadList, Notice, Room, list

LEMMA NextTypeInv == TypeInv /\ [Next]_vars => TypeInv'
<1> SUFFICES ASSUME TypeInv, [Next]_vars PROVE TypeInv'
  OBVIOUS
<1> USE DeadMaxAssumption, FatesAssumption
<1> USE DEF TypeInv, TypeOK, Indices, Attached, kernel, list, wait, setup,
            Status, Ended, Exited, Signalled, PC, Waiting, Stopped
<1>1. ASSUME NEW p \in Pids, Exit(p) PROVE TypeInv'
  BY <1>1 DEF Exit, Change
<1>2. ASSUME NEW p \in Pids, Stop(p) PROVE TypeInv'
  BY <1>2 DEF Stop, Change
<1>3. ASSUME NEW p \in Pids, Cont(p) PROVE TypeInv'
  BY <1>3 DEF Cont, Change
<1>4. ASSUME HandlerEnter PROVE TypeInv'
  <2>1. sigPending' \in BOOLEAN /\ handling' \in BOOLEAN
    BY <1>4 DEF HandlerEnter
  <2>2. QED
    BY <1>4, <2>1 DEF HandlerEnter
<1>5. ASSUME NEW p \in Pids, HandlerReap(p) PROVE TypeInv'
  <2>1. report[p] \in Status /\ dead \in DeadList
    BY <1>5 DEF HandlerReap, Collected, DeadList
  <2>2. /\ dead' \in DeadList
        /\ \/ listindex' = listindex
           \/ listindex \in 0 .. DeadMax - 1 /\ listindex' = listindex + 1
    BY <1>5, <2>1, NoticeType DEF HandlerReap
  <2>3. QED
    BY <1>5, <2>1, <2>2 DEF HandlerReap, Collected, DeadList
<1>6. ASSUME HandlerExit PROVE TypeInv'
  <2>1. handling' \in BOOLEAN
    BY <1>6 DEF HandlerExit
  <2>2. QED
    BY <1>6, <2>1 DEF HandlerExit, Woken
<1>7. ASSUME Interrupt PROVE TypeInv'
  BY <1>7 DEF Interrupt, Woken
<1>8. ASSUME CheckOnChildren PROVE TypeInv'
  BY <1>8 DEF CheckOnChildren
<1>9. ASSUME NEW p \in Pids, Drain(p) PROVE TypeInv'
  BY <1>9 DEF Drain, Collected
<1>10. ASSUME ReadCommand PROVE TypeInv'
  BY <1>10 DEF ReadCommand
<1>11. ASSUME EndUnit PROVE TypeInv'
  BY <1>11 DEF EndUnit
<1>12. ASSUME NEW p \in Pids, StartBackground(p) PROVE TypeInv'
  BY <1>12 DEF StartBackground, Forked
<1>13. ASSUME NEW p \in Pids, StartForeground(p) PROVE TypeInv'
  <2>1. job' \in Seq(Pids) /\ job' # <<>>
    BY <1>13 DEF StartForeground
  <2>2. proc' \in [Pids -> {"unborn", "running", "stopped", "zombie", "gone"}]
    BY <1>13 DEF StartForeground, Forked
  <2>3. QED
    BY <1>13, <2>1, <2>2 DEF StartForeground, Forked
<1>14. ASSUME StartWait PROVE TypeInv'
  BY <1>14 DEF StartWait
<1>15. ASSUME RipSearch PROVE TypeInv'
  BY <1>15 DEF RipSearch, First, Listed, StatusAt, Live, Holds, Slot
<1>16. ASSUME RipCopyPid PROVE TypeInv'
  <2>1. dead \in DeadList /\ Slot(i + 1).pid \in Pids \cup {NoPid}
    BY SlotType DEF DeadList
  <2>2. /\ dead' \in DeadList /\ listindex' \in -1 .. DeadMax + 1
        /\ listindex >= 0 => listindex' >= 0
    BY <1>16, <2>1, PutPidType DEF RipCopyPid
  <2>3. QED
    BY <1>16, <2>2 DEF RipCopyPid, DeadList
<1>17. ASSUME RipCopyStatus PROVE TypeInv'
  <2>1. dead \in DeadList /\ Slot(i + 1).status \in Status
    BY SlotType DEF DeadList
  <2>2. dead' \in DeadList
    BY <1>17, <2>1, PutStatusType DEF RipCopyStatus
  <2>3. QED
    BY <1>17, <2>2 DEF RipCopyStatus, DeadList
<1>18. ASSUME RipClearPid PROVE TypeInv'
  <2>1. /\ dead' \in DeadList /\ listindex' \in -1 .. DeadMax + 1
        /\ listindex >= 0 => listindex' >= 0
    BY <1>18, PutPidType DEF RipClearPid, DeadList
  <2>2. QED
    BY <1>18, <2>1 DEF RipClearPid, DeadList
<1>19. ASSUME RipClearStatus PROVE TypeInv'
  <2>1. dead' \in DeadList
    BY <1>19, PutStatusType DEF RipClearStatus, DeadList
  <2>2. QED
    BY <1>19, <2>1 DEF RipClearStatus, DeadList
<1>20. ASSUME RipLoad PROVE TypeInv'
  BY <1>20 DEF RipLoad
<1>21. ASSUME RipStore PROVE TypeInv'
  BY <1>21 DEF RipStore
<1>22. ASSUME CheckInterrupt PROVE TypeInv'
  BY <1>22 DEF CheckInterrupt
<1>23. ASSUME Suspend PROVE TypeInv'
  BY <1>23 DEF Suspend
<1>24. ASSUME Collect PROVE TypeInv'
  BY <1>24 DEF Collect, Marked, JobDone, Result
<1>25. ASSUME NoteSearch PROVE TypeInv'
  BY <1>25 DEF NoteSearch, First, Listed, Room, Live, Holds, Slot
<1>26. ASSUME NoteUpdate PROVE TypeInv'
  <2>1. dead' \in DeadList
    BY <1>26, PutStatusType DEF NoteUpdate, DeadList
  <2>2. QED
    BY <1>26, <2>1 DEF NoteUpdate, DeadList
<1>27. ASSUME NoteWrite PROVE TypeInv'
  <2>1. dead' \in DeadList
    <3>1. CASE listindex < DeadMax
      <4>1. dead' = [dead EXCEPT ![listindex] = [dead[listindex] EXCEPT !.pid = pid]]
        BY <1>27, <3>1 DEF NoteWrite
      <4>2. listindex \in 0 .. DeadMax - 1 /\ pid \in Pids
        BY <1>27, <3>1 DEF NoteWrite
      <4>3. dead \in DeadList
        BY DEF DeadList
      <4>4. dead[listindex] \in [pid : Pids \cup {NoPid}, status : Status]
        BY <4>2, <4>3 DEF DeadList
      <4>5. [dead[listindex] EXCEPT !.pid = pid] \in [pid : Pids \cup {NoPid}, status : Status]
        BY <4>2, <4>4
      <4>6. QED
        BY <4>1, <4>2, <4>3, <4>5 DEF DeadList
    <3>2. CASE ~(listindex < DeadMax)
      BY <1>27, <3>2 DEF NoteWrite, DeadList
    <3>3. QED
      BY <3>1, <3>2
  <2>2. QED
    BY <1>27, <2>1 DEF NoteWrite, DeadList
<1>33. ASSUME NoteStatus PROVE TypeInv'
  <2>1. dead' \in DeadList
    <3>1. dead \in DeadList /\ listindex \in 0 .. DeadMax + 1 /\ status \in Status
      BY <1>33 DEF NoteStatus, DeadList
    <3>2. PutStatus(listindex, status)
      BY <1>33 DEF NoteStatus
    <3>3. QED
      BY <3>1, <3>2, PutStatusType
  <2>2. QED
    BY <1>33, <2>1 DEF NoteStatus, DeadList
<1>28. ASSUME NoteLoad PROVE TypeInv'
  BY <1>28 DEF NoteLoad
<1>29. ASSUME NoteStore PROVE TypeInv'
  BY <1>29 DEF NoteStore
<1>30. ASSUME Return PROVE TypeInv'
  BY <1>30 DEF Return
<1>31. ASSUME UNCHANGED vars PROVE TypeInv'
  BY <1>31 DEF vars
<1>32. QED
  BY <1>1, <1>2, <1>3, <1>4, <1>5, <1>6, <1>7, <1>8, <1>9, <1>10, <1>11, <1>12, <1>13, <1>14, <1>15, <1>16, <1>17, <1>18, <1>19, <1>20, <1>21, <1>22, <1>23, <1>24, <1>25, <1>26, <1>27, <1>28, <1>29, <1>30, <1>31, <1>33
  DEF Next, Child, Handler, Prompt, Start, WaitOnChild, RipDead, NoteTermination

(* Every variable keeps its type; neither index leaves the array by more   *)
(* than one entry (jobs.c:1134-1282).                                      *)
THEOREM TypeCorrect == Spec => []TypeOK
<1>1. TypeInv => TypeOK
  BY DEF TypeInv
<1>2. QED
  BY InitTypeInv, NextTypeInv, <1>1, PTL DEF Spec

----------------------------------------------------------------------------
(* The answer of a wait, when no child is ever stopped.  The list can lose  *)
(* entries and tear them, but what the first rip_dead() of a wait reads was *)
(* written by the handler alone, and its result is never read again.        *)

\* A child reports once, when it ends.
Lives == \A p \in Pids :
    /\ proc[p] # "stopped"
    /\ report[p] \in IF proc[p] = "zombie" THEN Fates ELSE {"none"}
    /\ proc[p] = "gone" => \E s \in Fates : delivered[p] = {s}
    /\ proc[p] # "gone" => delivered[p] = {}

\* Only processes that are gone are listed, ripped or marked.
ListedGone == \A k \in 0 .. DeadMax - 1 :
    dead[k].pid # NoPid => proc[dead[k].pid] = "gone"
RippedGone == pc \in Ripping \cup Noting => proc[pid] = "gone"
MarkedGone == \A p \in exits : proc[p] = "gone"

\* Until the first rip_dead() of a wait finds its process, the main program
\* has not touched that process's entry.
Untouched == \A k \in 0 .. DeadMax - 1 :
    dead[k].pid = job[1] => dead[k].status \in delivered[job[1]]
FirstEntry ==
    pc = "forking" \/ (pc \in {"rip", "sigint", "suspend", "asleep"} /\ pid = job[1])
        => Untouched

\* Its status then moves from status to res and stays there.
FirstRipped == pc \in Ripping /\ pid = job[1] => status \in delivered[job[1]]
FirstKept   == pc \in Waiting /\ pid # job[1] =>
                   job[1] \in exits /\ res \in delivered[job[1]]
Noted       == pc \in Noting => monitor /\ res \in delivered[job[1]]
Returned    == pc = "return" /\ res # "interrupted" =>
                   res \in delivered[job[1]] /\ (monitor \/ JobDone(exits))

AnswerInv == /\ Lives /\ ListedGone /\ RippedGone /\ MarkedGone
             /\ FirstEntry /\ FirstRipped /\ FirstKept /\ Noted /\ Returned

LEMMA InitAnswerInv == Init => AnswerInv
  BY DEF Init, AnswerInv, Lives, ListedGone, RippedGone, MarkedGone, FirstEntry, Untouched,
         FirstRipped, FirstKept, Noted, Returned, NoSlot, Ripping, Noting, Waiting

(* What notice_termination() and a write of a pid field can do to a slot.   *)
LEMMA NoticeEffect ==
  ASSUME dead \in DeadList, listindex \in -1 .. DeadMax + 1,
         NEW p \in Pids, NEW s \in Status, Notice(p, s)
  PROVE  \A k \in 0 .. DeadMax - 1 :
            \/ dead'[k] = dead[k]
            \/ dead'[k].pid = p /\ dead'[k].status = s
<1>1. CASE \E k \in 0 .. DeadMax - 1 :
              First(k, p) /\ dead' = [dead EXCEPT ![k].status = s]
  <2>1. PICK k \in 0 .. DeadMax - 1 : First(k, p) /\ dead' = [dead EXCEPT ![k].status = s]
    BY <1>1
  <2>2. dead[k].pid = p
    BY <2>1, DeadMaxAssumption DEF First, Holds, Slot
  <2>3. QED
    BY <2>1, <2>2 DEF DeadList
<1>2. CASE Room /\ dead' = [dead EXCEPT ![listindex] = [pid |-> p, status |-> s]]
  BY <1>2 DEF Room, DeadList
<1>3. QED
  BY <1>1, <1>2 DEF Notice, list

LEMMA PutPidEffect ==
  ASSUME dead \in DeadList, NEW k \in 0 .. DeadMax + 1, NEW p \in Pids \cup {NoPid},
         PutPid(k, p)
  PROVE  \A l \in 0 .. DeadMax - 1 :
            dead'[l].pid \in {dead[l].pid, p} /\ dead'[l].status = dead[l].status
<1>1. CASE k < DeadMax
  <2>1. dead' = [dead EXCEPT ![k] = [dead[k] EXCEPT !.pid = p]]
    BY <1>1 DEF PutPid
  <2>2. dead[k] \in [pid : Pids \cup {NoPid}, status : Status]
    BY <1>1, DeadMaxAssumption DEF DeadList
  <2>3. [dead[k] EXCEPT !.pid = p].pid = p /\ [dead[k] EXCEPT !.pid = p].status = dead[k].status
    BY <2>2
  <2>4. QED
    BY <2>1, <2>3 DEF DeadList
<1>2. CASE ~(k < DeadMax)
  BY <1>2 DEF PutPid
<1>3. QED
  BY <1>1, <1>2

LEMMA PutStatusEffect ==
  ASSUME dead \in DeadList, NEW k \in 0 .. DeadMax + 1, NEW s \in Status,
         PutStatus(k, s)
  PROVE  \A l \in 0 .. DeadMax - 1 : dead'[l].status \in {dead[l].status, s}
  BY DeadMaxAssumption DEF DeadList, PutStatus

LEMMA NextAnswerInv ==
  ASSUME Stoppable = {}, TypeInv, AnswerInv, [Next]_vars
  PROVE  AnswerInv'
<1> USE PidsAssumption, DeadMaxAssumption, FatesAssumption
<1> USE DEF AnswerInv, Lives, ListedGone, RippedGone, MarkedGone, FirstEntry, Untouched,
            FirstRipped, FirstKept, Noted, Returned, JobDone, Members,
            kernel, list, wait, setup, Ripping, Noting, Waiting, Stopped
<1>a. /\ proc \in [Pids -> {"unborn", "running", "stopped", "zombie", "gone"}]
      /\ report \in [Pids -> Status \cup {"none"}]
      /\ delivered \in [Pids -> SUBSET Status]
      /\ dead \in DeadList /\ listindex \in -1 .. DeadMax + 1
      /\ i \in 0 .. DeadMax + 1 /\ exits \subseteq Pids
  BY DEF TypeInv, TypeOK, DeadList
<1>b. /\ pc \in Waiting => pid \in Pids
      /\ pc \in Waiting \cup {"forking", "return"} => job[1] \in Pids /\ Len(job) \in Nat /\ Len(job) >= 1
      /\ job \in Seq(Pids)
  BY DEF TypeInv, TypeOK, Attached
<1>c. \A p \in Pids : delivered[p] \subseteq Ended
  BY DEF Status
<1>1. ASSUME NEW p \in Pids, Exit(p) PROVE AnswerInv'
  BY <1>a, <1>b, <1>1 DEF Exit, Change
<1>2. ASSUME NEW p \in Pids, Stop(p) PROVE AnswerInv'
  BY <1>a, <1>b, <1>2 DEF Stop, Change
<1>3. ASSUME NEW p \in Pids, Cont(p) PROVE AnswerInv'
  BY <1>a, <1>b, <1>3 DEF Cont, Change
<1>4. ASSUME HandlerEnter PROVE AnswerInv'
  BY <1>a, <1>b, <1>4 DEF HandlerEnter
<1>5. ASSUME NEW p \in Pids, HandlerReap(p) PROVE AnswerInv'
  <2>1. /\ report[p] \in Status /\ proc[p] = "zombie"
        /\ report[p] \in Fates /\ delivered[p] = {}
    BY <1>a, <1>5 DEF HandlerReap, Collected, Status
  <2>2. /\ proc' = [proc EXCEPT ![p] = "gone"]
        /\ report' = [report EXCEPT ![p] = "none"]
        /\ delivered' = [delivered EXCEPT ![p] = @ \cup {report[p]}]
        /\ UNCHANGED <<wait, setup, sigrecv, pc>>
    BY <1>a, <1>5, <2>1 DEF HandlerReap, Collected
  <2>3. \A k \in 0 .. DeadMax - 1 :
            \/ dead'[k] = dead[k]
            \/ dead'[k].pid = p /\ dead'[k].status = report[p]
    BY <1>a, <1>5, <2>1, NoticeEffect DEF HandlerReap
  <2>4. /\ \A q \in Pids : delivered[q] \subseteq delivered'[q]
        /\ \A q \in Pids : proc[q] = "gone" => proc'[q] = "gone"
        /\ report[p] \in delivered'[p] /\ proc'[p] = "gone"
    BY <1>a, <2>2
  <2>5. Lives'
    BY <1>a, <2>1, <2>2
  <2>6. ListedGone'
    BY <1>a, <2>2, <2>3, <2>4 DEF DeadList
  <2>7. RippedGone' /\ MarkedGone'
    BY <1>a, <1>b, <2>2, <2>4
  <2>8. FirstEntry'
    BY <1>a, <1>b, <2>2, <2>3, <2>4
  <2>9. FirstRipped' /\ FirstKept' /\ Noted' /\ Returned'
    BY <1>b, <2>2, <2>4
  <2>10. QED
    BY <2>5, <2>6, <2>7, <2>8, <2>9
<1>6. ASSUME HandlerExit PROVE AnswerInv'
  BY <1>a, <1>b, <1>6 DEF HandlerExit, Woken
<1>7. ASSUME Interrupt PROVE AnswerInv'
  BY <1>a, <1>b, <1>7 DEF Interrupt, Woken
<1>8. ASSUME CheckOnChildren PROVE AnswerInv'
  BY <1>a, <1>b, <1>8 DEF CheckOnChildren
<1>9. ASSUME NEW p \in Pids, Drain(p) PROVE AnswerInv'
  BY <1>a, <1>b, <1>9 DEF Drain, Collected
<1>10. ASSUME ReadCommand PROVE AnswerInv'
  BY <1>a, <1>b, <1>10 DEF ReadCommand
<1>11. ASSUME EndUnit PROVE AnswerInv'
  BY <1>a, <1>b, <1>11 DEF EndUnit
<1>12. ASSUME NEW p \in Pids, StartBackground(p) PROVE AnswerInv'
  BY <1>a, <1>b, <1>12 DEF StartBackground, Forked
<1>13. ASSUME NEW p \in Pids, StartForeground(p) PROVE AnswerInv'
  BY <1>a, <1>b, <1>13 DEF StartForeground, Forked
<1>14. ASSUME StartWait PROVE AnswerInv'
  BY <1>a, <1>b, <1>14 DEF StartWait
<1>15. ASSUME RipSearch PROVE AnswerInv'
  BY <1>a, <1>b, <1>15 DEF RipSearch, First, Listed, StatusAt, Live, Holds, Slot
<1>16. ASSUME RipCopyPid PROVE AnswerInv'
  <2>1. CASE i < listindex
    <3>1. Slot(i + 1).pid \in {NoPid} \cup {dead[k].pid : k \in 0 .. DeadMax - 1}
      BY <1>a DEF Slot, NoSlot
    <3>2. \A k \in 0 .. DeadMax - 1 : dead'[k].pid \in {dead[k].pid, Slot(i + 1).pid}
      BY <1>a, <1>16, <2>1, SlotType, PutPidEffect DEF RipCopyPid
    <3>3. ListedGone'
      BY <1>a, <1>16, <3>1, <3>2 DEF RipCopyPid
    <3>4. QED
      BY <1>a, <1>b, <1>16, <2>1, <3>3 DEF RipCopyPid
  <2>2. CASE ~(i < listindex)
    BY <1>a, <1>b, <1>16, <2>2 DEF RipCopyPid
  <2>3. QED
    BY <2>1, <2>2
<1>17. ASSUME RipCopyStatus PROVE AnswerInv'
  BY <1>a, <1>b, <1>17 DEF RipCopyStatus, PutStatus, Slot
<1>18. ASSUME RipClearPid PROVE AnswerInv'
  <2>1. \A k \in 0 .. DeadMax - 1 : dead'[k].pid \in {dead[k].pid, NoPid}
    BY <1>a, <1>18, PutPidEffect DEF RipClearPid
  <2>2. ListedGone'
    BY <1>a, <1>18, <2>1 DEF RipClearPid
  <2>3. QED
    BY <1>a, <1>b, <1>18, <2>2 DEF RipClearPid
<1>19. ASSUME RipClearStatus PROVE AnswerInv'
  BY <1>a, <1>b, <1>19 DEF RipClearStatus, PutStatus
<1>20. ASSUME RipLoad PROVE AnswerInv'
  BY <1>a, <1>b, <1>20 DEF RipLoad
<1>21. ASSUME RipStore PROVE AnswerInv'
  BY <1>a, <1>b, <1>21 DEF RipStore
<1>22. ASSUME CheckInterrupt PROVE AnswerInv'
  BY <1>a, <1>b, <1>22 DEF CheckInterrupt
<1>23. ASSUME Suspend PROVE AnswerInv'
  BY <1>a, <1>b, <1>23 DEF Suspend
<1>24. ASSUME Collect PROVE AnswerInv'
  BY <1>a, <1>b, <1>c, <1>24 DEF Collect, Marked, JobDone, Result, FirstUnmarked
<1>25. ASSUME NoteSearch PROVE AnswerInv'
  BY <1>a, <1>b, <1>25 DEF NoteSearch, First, Listed, Room, Live, Holds, Slot
<1>26. ASSUME NoteUpdate PROVE AnswerInv'
  BY <1>a, <1>b, <1>26 DEF NoteUpdate, PutStatus
<1>27. ASSUME NoteWrite PROVE AnswerInv'
  <2>1. \A k \in 0 .. DeadMax - 1 : dead'[k].pid \in {dead[k].pid, pid}
    BY <1>a, <1>27 DEF NoteWrite, DeadList
  <2>2. ListedGone'
    BY <1>a, <1>b, <1>27, <2>1 DEF NoteWrite
  <2>3. pc = "noteWrite" /\ pc' \in {"noteStatus", "crashed"}
    BY <1>27 DEF NoteWrite
  <2>4. QED
    BY <1>a, <1>b, <1>27, <2>2, <2>3 DEF NoteWrite
<1>33. ASSUME NoteStatus PROVE AnswerInv'
  BY <1>a, <1>b, <1>33 DEF NoteStatus, PutStatus
<1>28. ASSUME NoteLoad PROVE AnswerInv'
  BY <1>a, <1>b, <1>28 DEF NoteLoad
<1>29. ASSUME NoteStore PROVE AnswerInv'
  BY <1>a, <1>b, <1>29 DEF NoteStore
<1>30. ASSUME Return PROVE AnswerInv'
  BY <1>a, <1>b, <1>30 DEF Return
<1>31. ASSUME UNCHANGED vars PROVE AnswerInv'
  BY <1>31 DEF vars
<1>32. QED
  BY <1>1, <1>2, <1>3, <1>4, <1>5, <1>6, <1>7, <1>8, <1>9, <1>10, <1>11, <1>12, <1>13, <1>14, <1>15, <1>16, <1>17, <1>18, <1>19, <1>20, <1>21, <1>22, <1>23, <1>24, <1>25, <1>26, <1>27, <1>28, <1>29, <1>30, <1>31, <1>33
  DEF Next, Child, Handler, Prompt, Start, WaitOnChild, RipDead, NoteTermination

(* If no child is ever stopped, wait_on_child() answers with a status the  *)
(* kernel reported for the process it was asked about (backend.c:184-191). *)
THEOREM AnswerIsRight == Stoppable = {} => (Spec => []RightStatus)
<1> SUFFICES ASSUME Stoppable = {} PROVE Spec => []RightStatus
  OBVIOUS
<1>1. TypeInv /\ AnswerInv /\ [Next]_vars => AnswerInv'
  BY NextAnswerInv
<1>2. AnswerInv => RightStatus
  BY DEF AnswerInv, Returned, RightStatus
<1>3. QED
  BY InitTypeInv, NextTypeInv, InitAnswerInv, <1>1, <1>2, PTL DEF Spec

(* If no child is ever stopped, a wait that was not interrupted is over,   *)
(* without job control, only when every process of the job is gone         *)
(* (backend.c:213-239).                                                    *)
THEOREM WholeJobIsGone == Stoppable = {} => (Spec => []JobFinished)
<1> SUFFICES ASSUME Stoppable = {} PROVE Spec => []JobFinished
  OBVIOUS
<1>1. TypeInv /\ AnswerInv /\ [Next]_vars => AnswerInv'
  BY NextAnswerInv
<1>2. AnswerInv => JobFinished
  BY DEF AnswerInv, Returned, MarkedGone, JobDone, JobFinished
<1>3. QED
  BY InitTypeInv, NextTypeInv, InitAnswerInv, <1>1, <1>2, PTL DEF Spec

----------------------------------------------------------------------------
(* wait_on_child() implements CommandRun, when no child is ever stopped.    *)

Heard == \E p \in Pids : delivered[p] \cap Signalled # {}

\* A status that means "killed" comes from some child that was killed, and
\* job control alone acts on it.
Genuine(s) == s \in Ended /\ (s \in Signalled => Heard)
SourceInv ==
    /\ \A k \in 0 .. DeadMax - 1 : Genuine(dead[k].status)
    /\ Genuine(status)
    /\ pc \in Noting => Heard
    /\ sigrecv = "INT" => Interrupts

LEMMA InitSourceInv == Init => SourceInv
  BY DEF Init, SourceInv, Genuine, NoSlot, Ended, Exited, Signalled, Noting

LEMMA NextSourceInv ==
  ASSUME Stoppable = {}, TypeInv, AnswerInv, SourceInv, [Next]_vars
  PROVE  SourceInv'
<1> USE PidsAssumption, DeadMaxAssumption, FatesAssumption
<1> USE DEF SourceInv, Genuine, Heard, kernel, list, wait, setup, Noting, Ended, Exited,
            Signalled
<1>a. /\ proc \in [Pids -> {"unborn", "running", "stopped", "zombie", "gone"}]
      /\ report \in [Pids -> Status \cup {"none"}]
      /\ delivered \in [Pids -> SUBSET Status]
      /\ dead \in DeadList /\ listindex \in -1 .. DeadMax + 1
      /\ i \in 0 .. DeadMax + 1
  BY DEF TypeInv, TypeOK, DeadList
<1>b. \A p \in Pids : report[p] # "none" => report[p] \in Ended
  BY DEF AnswerInv, Lives
<1>c. \A k \in 0 .. DeadMax + 2 : Genuine(Slot(k).status)
  BY <1>a DEF Slot, NoSlot
<1>1. ASSUME NEW p \in Pids, Exit(p) PROVE SourceInv'
  BY <1>a, <1>b, <1>1 DEF Exit, Change
<1>2. ASSUME NEW p \in Pids, Stop(p) PROVE SourceInv'
  BY <1>a, <1>b, <1>2 DEF Stop, Change
<1>3. ASSUME NEW p \in Pids, Cont(p) PROVE SourceInv'
  BY <1>a, <1>b, <1>3 DEF Cont, Change
<1>4. ASSUME HandlerEnter PROVE SourceInv'
  BY <1>a, <1>4 DEF HandlerEnter
<1>5. ASSUME NEW p \in Pids, HandlerReap(p) PROVE SourceInv'
  <2>1. report[p] \in Ended /\ report[p] \in Status
    BY <1>a, <1>b, <1>5 DEF HandlerReap, Collected, Status
  <2>2. \A k \in 0 .. DeadMax - 1 : dead'[k].status \in {dead[k].status, report[p]}
    BY <1>a, <1>5, <2>1, NoticeEffect DEF HandlerReap
  <2>3. /\ delivered' = [delivered EXCEPT ![p] = @ \cup {report[p]}]
        /\ UNCHANGED <<pc, status, sigrecv>>
    BY <1>5 DEF HandlerReap, Collected
  <2>4. (Heard => Heard') /\ (report[p] \in Signalled => Heard')
    BY <1>a, <2>3
  <2>5. QED
    BY <2>1, <2>2, <2>3, <2>4
<1>6. ASSUME HandlerExit PROVE SourceInv'
  BY <1>a, <1>6 DEF HandlerExit, Woken
<1>7. ASSUME Interrupt PROVE SourceInv'
  BY <1>a, <1>7 DEF Interrupt, Woken
<1>8. ASSUME CheckOnChildren PROVE SourceInv'
  BY <1>a, <1>8 DEF CheckOnChildren
<1>9. ASSUME NEW p \in Pids, Drain(p) PROVE SourceInv'
  BY <1>a, <1>b, <1>9 DEF Drain, Collected
<1>10. ASSUME ReadCommand PROVE SourceInv'
  BY <1>a, <1>10 DEF ReadCommand
<1>11. ASSUME EndUnit PROVE SourceInv'
  BY <1>a, <1>11 DEF EndUnit
<1>12. ASSUME NEW p \in Pids, StartBackground(p) PROVE SourceInv'
  BY <1>a, <1>b, <1>12 DEF StartBackground, Forked
<1>13. ASSUME NEW p \in Pids, StartForeground(p) PROVE SourceInv'
  BY <1>a, <1>b, <1>13 DEF StartForeground, Forked
<1>14. ASSUME StartWait PROVE SourceInv'
  BY <1>a, <1>14 DEF StartWait
<1>15. ASSUME RipSearch PROVE SourceInv'
  BY <1>a, <1>15 DEF RipSearch, First, Listed, StatusAt, Live, Holds, Slot
<1>16. ASSUME RipCopyPid PROVE SourceInv'
  <2>1. Slot(i + 1).pid \in Pids \cup {NoPid}
    BY <1>a, SlotType
  <2>2. \A k \in 0 .. DeadMax - 1 : dead'[k].status = dead[k].status
    BY <1>a, <1>16, <2>1, PutPidEffect DEF RipCopyPid
  <2>3. pc' \in {"copyStatus", "clearPid"} /\ UNCHANGED <<delivered, status, sigrecv>>
    BY <1>16 DEF RipCopyPid
  <2>4. QED
    BY <2>2, <2>3
<1>17. ASSUME RipCopyStatus PROVE SourceInv'
  <2>1. Slot(i + 1).status \in Status /\ Genuine(Slot(i + 1).status)
    BY <1>a, <1>c, SlotType
  <2>2. \A k \in 0 .. DeadMax - 1 : dead'[k].status \in {dead[k].status, Slot(i + 1).status}
    BY <1>a, <1>17, <2>1, PutStatusEffect DEF RipCopyStatus
  <2>3. pc' = "copyPid" /\ UNCHANGED <<delivered, status, sigrecv>>
    BY <1>17 DEF RipCopyStatus
  <2>4. QED
    BY <2>1, <2>2, <2>3
<1>18. ASSUME RipClearPid PROVE SourceInv'
  <2>1. \A k \in 0 .. DeadMax - 1 : dead'[k].status = dead[k].status
    BY <1>a, <1>18, PutPidEffect DEF RipClearPid
  <2>2. pc' = "clearStatus" /\ UNCHANGED <<delivered, status, sigrecv>>
    BY <1>18 DEF RipClearPid
  <2>3. QED
    BY <2>1, <2>2
<1>19. ASSUME RipClearStatus PROVE SourceInv'
  BY <1>a, <1>19 DEF RipClearStatus, PutStatus
<1>20. ASSUME RipLoad PROVE SourceInv'
  BY <1>a, <1>20 DEF RipLoad
<1>21. ASSUME RipStore PROVE SourceInv'
  BY <1>a, <1>21 DEF RipStore
<1>22. ASSUME CheckInterrupt PROVE SourceInv'
  BY <1>a, <1>22 DEF CheckInterrupt
<1>23. ASSUME Suspend PROVE SourceInv'
  BY <1>a, <1>23 DEF Suspend
<1>24. ASSUME Collect PROVE SourceInv'
  BY <1>a, <1>24 DEF Collect, Marked, JobDone, Result, FirstUnmarked
<1>25. ASSUME NoteSearch PROVE SourceInv'
  BY <1>a, <1>25 DEF NoteSearch, First, Listed, Room, Live, Holds, Slot
<1>26. ASSUME NoteUpdate PROVE SourceInv'
  BY <1>a, <1>26 DEF NoteUpdate, PutStatus
<1>27. ASSUME NoteWrite PROVE SourceInv'
  <2>1. \A k \in 0 .. DeadMax - 1 : dead'[k].status = dead[k].status
    BY <1>a, <1>27 DEF NoteWrite, DeadList
  <2>2. pc = "noteWrite" /\ UNCHANGED <<delivered, status, sigrecv>>
    BY <1>27 DEF NoteWrite
  <2>3. QED
    BY <2>1, <2>2
<1>33. ASSUME NoteStatus PROVE SourceInv'
  BY <1>a, <1>33 DEF NoteStatus, PutStatus
<1>28. ASSUME NoteLoad PROVE SourceInv'
  BY <1>a, <1>28 DEF NoteLoad
<1>29. ASSUME NoteStore PROVE SourceInv'
  BY <1>a, <1>29 DEF NoteStore
<1>30. ASSUME Return PROVE SourceInv'
  BY <1>a, <1>30 DEF Return
<1>31. ASSUME UNCHANGED vars PROVE SourceInv'
  BY <1>31 DEF vars
<1>32. QED
  BY <1>1, <1>2, <1>3, <1>4, <1>5, <1>6, <1>7, <1>8, <1>9, <1>10, <1>11, <1>12, <1>13, <1>14, <1>15, <1>16, <1>17, <1>18, <1>19, <1>20, <1>21, <1>22, <1>23, <1>24, <1>25, <1>26, <1>27, <1>28, <1>29, <1>30, <1>31, <1>33
  DEF Next, Child, Handler, Prompt, Start, WaitOnChild, RipDead, NoteTermination

(* The abstract state of a child changes only when it starts or ends.       *)
LEMMA FateValue ==
  ASSUME TypeInv, AnswerInv, NEW p \in Pids
  PROVE  /\ Fate[p] = IF proc[p] = "unborn" THEN "unborn"
                      ELSE IF proc[p] = "zombie" THEN report[p]
                      ELSE IF proc[p] = "gone" THEN CHOOSE s \in delivered[p] : s \in Ended
                      ELSE "running"
         /\ proc[p] = "gone" => \E s \in Fates : delivered[p] = {s} /\ Fate[p] = s
<1>1. Fate[p] = IF proc[p] = "unborn" THEN "unborn"
                ELSE IF proc[p] = "zombie" THEN report[p]
                ELSE IF proc[p] = "gone" THEN CHOOSE s \in delivered[p] : s \in Ended
                ELSE "running"
  BY DEF Fate, FateOf, TypeInv, TypeOK
<1>2. ASSUME proc[p] = "gone"
      PROVE  \E s \in Fates : delivered[p] = {s} /\ Fate[p] = s
  <2>1. PICK s \in Fates : delivered[p] = {s}
    BY <1>2 DEF AnswerInv, Lives
  <2>2. (CHOOSE t \in delivered[p] : t \in Ended) = s
    BY <2>1, FatesAssumption
  <2>3. QED
    BY <1>1, <1>2, <2>1, <2>2
<1>3. QED
  BY <1>1, <1>2

LEMMA FateStable ==
  ASSUME UNCHANGED <<proc, report, delivered>>
  PROVE  Fate' = Fate
  BY DEF Fate

LEMMA FateExcept ==
  ASSUME NEW p \in Pids, NEW f, Fate'[p] = f,
         \A q \in Pids : q # p =>
             proc'[q] = proc[q] /\ report'[q] = report[q] /\ delivered'[q] = delivered[q]
  PROVE  Fate' = [Fate EXCEPT ![p] = f]
<1>1. \A q \in Pids : q # p => Fate'[q] = Fate[q]
  BY DEF Fate
<1>2. \A q \in Pids : Fate'[q] = [Fate EXCEPT ![p] = f][q]
  BY <1>1 DEF Fate
<1>3. Fate' = [q \in Pids |-> Fate'[q]]
  BY DEF Fate
<1>4. [Fate EXCEPT ![p] = f] = [q \in Pids |-> [Fate EXCEPT ![p] = f][q]]
  BY DEF Fate
<1>5. QED
  BY <1>2, <1>3, <1>4

AbsVars == <<Fate, Phase, job, monitor, IF pc = "return" THEN res ELSE "none">>

(* Collecting the report of a child that ended changes nothing abstract.    *)
LEMMA CollectedSilent ==
  ASSUME TypeInv, AnswerInv, NEW p \in Pids, Collected(p)
  PROVE  Fate' = Fate
<1>1. /\ proc[p] = "zombie" /\ report[p] \in Fates
      /\ delivered' = [delivered EXCEPT ![p] = {report[p]}]
      /\ proc' = [proc EXCEPT ![p] = "gone"]
      /\ report' = [report EXCEPT ![p] = "none"]
  BY DEF Collected, AnswerInv, Lives, TypeInv, TypeOK
<1>2. (CHOOSE s \in {report[p]} : s \in Ended) = report[p]
  BY <1>1, FatesAssumption
<1>3. SUFFICES ASSUME NEW q \in Pids PROVE Fate'[q] = Fate[q]
  BY DEF Fate, FateOf
<1>4. CASE q = p
  <2>1. proc'[p] = "gone" /\ delivered'[p] = {report[p]}
    BY <1>1 DEF TypeInv, TypeOK
  <2>2. Fate'[p] = report[p]
    BY <1>2, <2>1 DEF Fate, FateOf
  <2>3. Fate[p] = report[p]
    BY <1>1 DEF Fate, FateOf
  <2>4. QED
    BY <1>4, <2>2, <2>3
<1>5. CASE q # p
  BY <1>1, <1>5 DEF Fate, FateOf, TypeInv, TypeOK
<1>6. QED
  BY <1>4, <1>5

(* A status that means "killed" makes the abstract signal available.        *)
LEMMA HeardSignal ==
  ASSUME TypeInv, AnswerInv, Heard, monitor
  PROVE  Promise!Signal
<1>1. PICK p \in Pids : delivered[p] \cap Signalled # {}
  BY DEF Heard
<1>2. proc[p] = "gone"
  BY <1>1 DEF AnswerInv, Lives
<1>3. PICK s \in Fates : delivered[p] = {s} /\ Fate[p] = s
  BY <1>2, FateValue
<1>4. QED
  BY <1>1, <1>3 DEF Promise!Signal

(* The value a wait returns is what the job's first process ended with.     *)
LEMMA AnswerValue ==
  ASSUME TypeInv, AnswerInv, job[1] \in Pids, NEW r \in delivered[job[1]]
  PROVE  r = Fate[job[1]] /\ Promise!Ended(job[1])
<1>1. proc[job[1]] = "gone"
  BY DEF AnswerInv, Lives
<1>2. PICK s \in Fates : delivered[job[1]] = {s} /\ Fate[job[1]] = s
  BY <1>1, FateValue
<1>3. QED
  BY <1>2, FatesAssumption DEF Promise!Ended, Ended, Exited, Signalled

LEMMA ImplementsInit == Init => Promise!Init
  BY FlagsAssumption DEF Init, Promise!Init, Fate, FateOf, Phase, Waiting, Stopped

LEMMA ImplementsStep ==
  ASSUME Stoppable = {}, TypeInv, AnswerInv, SourceInv, [Next]_vars
  PROVE  Promise!Next \/ UNCHANGED AbsVars
<1> USE DEF kernel, list, wait, setup, AbsVars, Phase, Waiting, Stopped
<1>a. /\ pc \in Waiting \cup {"forking", "return"} => job[1] \in Pids
      /\ proc \in [Pids -> {"unborn", "running", "stopped", "zombie", "gone"}]
      /\ report \in [Pids -> Status \cup {"none"}]
  BY DEF TypeInv, TypeOK, Attached
<1>1. ASSUME HandlerEnter PROVE UNCHANGED AbsVars
  BY <1>1, FateStable DEF HandlerEnter
<1>2. ASSUME HandlerExit PROVE UNCHANGED AbsVars
  BY <1>2, FateStable DEF HandlerExit, Woken
<1>3. ASSUME Interrupt PROVE UNCHANGED AbsVars
  BY <1>3, FateStable DEF Interrupt, Woken
<1>4. ASSUME CheckOnChildren PROVE UNCHANGED AbsVars
  BY <1>4, FateStable DEF CheckOnChildren
<1>5. ASSUME ReadCommand PROVE UNCHANGED AbsVars
  BY <1>5, FateStable DEF ReadCommand
<1>6. ASSUME EndUnit PROVE UNCHANGED AbsVars
  BY <1>6, FateStable DEF EndUnit
<1>7. ASSUME RipSearch PROVE UNCHANGED AbsVars
  BY <1>7, FateStable DEF RipSearch
<1>8. ASSUME RipCopyPid PROVE UNCHANGED AbsVars
  BY <1>8, FateStable DEF RipCopyPid
<1>9. ASSUME RipCopyStatus PROVE UNCHANGED AbsVars
  BY <1>9, FateStable DEF RipCopyStatus
<1>10. ASSUME RipClearPid PROVE UNCHANGED AbsVars
  BY <1>10, FateStable DEF RipClearPid
<1>11. ASSUME RipClearStatus PROVE UNCHANGED AbsVars
  BY <1>11, FateStable DEF RipClearStatus
<1>12. ASSUME RipLoad PROVE UNCHANGED AbsVars
  BY <1>12, FateStable DEF RipLoad
<1>13. ASSUME RipStore PROVE UNCHANGED AbsVars
  BY <1>13, FateStable DEF RipStore
<1>14. ASSUME Suspend PROVE UNCHANGED AbsVars
  BY <1>14, FateStable DEF Suspend
<1>15. ASSUME NEW p \in Pids, Exit(p) PROVE Promise!End(p)
  <2>1. PICK f \in Fates : proc[p] = "running" /\ Change(p, "zombie", f)
    BY <1>15, <1>a DEF Exit, AnswerInv, Lives
  <2>2. Fate[p] = "running"
    BY <2>1, FateValue
  <2>3. Fate' = [Fate EXCEPT ![p] = f]
    <3>1. Fate'[p] = f
      BY <1>a, <2>1 DEF Change, Fate, FateOf
    <3>2. QED
      BY <1>a, <2>1, <3>1, FateExcept DEF Change
  <2>4. QED
    BY <2>1, <2>2, <2>3 DEF Change, Promise!End
<1>16. ASSUME NEW p \in Pids, Stop(p) \/ Cont(p) PROVE FALSE
  BY <1>16 DEF Stop, Cont, AnswerInv, Lives
<1>17. ASSUME NEW p \in Pids, HandlerReap(p) PROVE UNCHANGED AbsVars
  BY <1>17, CollectedSilent DEF HandlerReap
<1>18. ASSUME NEW p \in Pids, Drain(p) PROVE UNCHANGED AbsVars
  BY <1>18, CollectedSilent DEF Drain
<1>19. ASSUME NEW p \in Pids, StartBackground(p) PROVE Promise!Background(p)
  <2>1. Fate[p] = "unborn" /\ Fate' = [Fate EXCEPT ![p] = "running"]
    <3>1. Fate[p] = "unborn" /\ Fate'[p] = "running"
      BY <1>19, <1>a DEF StartBackground, Forked, Fate, FateOf
    <3>2. QED
      BY <1>19, <1>a, <3>1, FateExcept DEF StartBackground, Forked
  <2>2. QED
    BY <1>19, <2>1 DEF StartBackground, Promise!Background, Promise!Start
<1>20. ASSUME NEW p \in Pids, StartForeground(p) PROVE Promise!Foreground(p)
  <2>1. Fate[p] = "unborn" /\ Fate' = [Fate EXCEPT ![p] = "running"]
    <3>1. Fate[p] = "unborn" /\ Fate'[p] = "running"
      BY <1>20, <1>a DEF StartForeground, Forked, Fate, FateOf
    <3>2. QED
      BY <1>20, <1>a, <3>1, FateExcept DEF StartForeground, Forked
  <2>2. QED
    BY <1>20, <2>1 DEF StartForeground, Promise!Foreground, Promise!Start
<1>21. ASSUME StartWait PROVE Promise!Wait
  BY <1>21, FateStable DEF StartWait, Promise!Wait
<1>22. ASSUME CheckInterrupt PROVE Promise!GiveUp \/ UNCHANGED AbsVars
  BY <1>22, FateStable DEF CheckInterrupt, Promise!GiveUp, SourceInv
<1>23. ASSUME Collect PROVE Promise!Answer \/ Promise!Lose \/ UNCHANGED AbsVars
  <2>1. Fate' = Fate /\ UNCHANGED <<job, monitor>> /\ pc = "collect"
    BY <1>23, FateStable DEF Collect
  <2>2. CASE pc' \in {"note", "rip"}
    BY <2>1, <2>2
  <2>3. CASE pc' = "killed"
    <3>1. monitor /\ status \in Signalled
      BY <1>23, <2>3 DEF Collect, Signalled
    <3>2. Promise!Signal
      BY <3>1, HeardSignal DEF SourceInv, Genuine
    <3>3. QED
      BY <2>1, <2>3, <3>2 DEF Promise!Lose
  <2>4. CASE pc' = "return"
    <3>1. JobDone(Marked) /\ res' = Result
      BY <1>23, <2>4 DEF Collect
    <3>2. Result \in delivered[job[1]]
      BY <2>1 DEF Result, AnswerInv, FirstRipped, FirstKept, Ripping
    <3>3. Result = Fate[job[1]] /\ Promise!Ended(job[1])
      BY <1>a, <2>1, <3>2, AnswerValue
    <3>4. \A q \in Marked : q \in Pids /\ proc[q] = "gone"
      BY <2>1 DEF Marked, AnswerInv, MarkedGone, RippedGone, Ripping, TypeInv, TypeOK, Attached
    <3>5. \A q \in Marked : Promise!Ended(q)
      BY <3>4, FateValue, FatesAssumption DEF Promise!Ended, Ended, Exited, Signalled
    <3>6. Promise!Over
      BY <3>1, <3>5 DEF JobDone, Members, Promise!Over
    <3>7. QED
      BY <2>1, <2>4, <3>1, <3>3, <3>6 DEF Promise!Answer
  <2>5. QED
    BY <1>23, <2>2, <2>3, <2>4 DEF Collect
<1>24. ASSUME NoteTermination
       PROVE  Promise!Answer \/ Promise!Lose \/ UNCHANGED AbsVars
  <2>1. /\ Fate' = Fate /\ UNCHANGED <<job, monitor, res>> /\ pc \in Noting
        /\ pc' \in Noting \cup {"return", "crashed"}
    BY <1>24, FateStable
    DEF NoteTermination, NoteSearch, NoteUpdate, NoteWrite, NoteStatus, NoteLoad, NoteStore, Noting
  <2>2. Promise!Signal
    BY <2>1, HeardSignal DEF SourceInv, AnswerInv, Noted
  <2>3. res = Fate[job[1]] /\ Promise!Ended(job[1])
    BY <1>a, <2>1, AnswerValue DEF AnswerInv, Noted, Noting
  <2>4. CASE pc' = "return"
    BY <2>1, <2>2, <2>3, <2>4 DEF Promise!Answer, Promise!Over, Noting
  <2>5. CASE pc' = "crashed"
    BY <2>1, <2>2, <2>5 DEF Promise!Lose, Noting
  <2>6. CASE pc' \in Noting
    BY <2>1, <2>6 DEF Noting
  <2>7. QED
    BY <2>1, <2>4, <2>5, <2>6
<1>25. ASSUME Return PROVE Promise!Resume
  BY <1>25, FateStable DEF Return, Promise!Resume
<1>26. ASSUME UNCHANGED vars PROVE UNCHANGED AbsVars
  BY <1>26, FateStable DEF vars
<1>27. QED
  BY <1>1, <1>2, <1>3, <1>4, <1>5, <1>6, <1>7, <1>8, <1>9, <1>10, <1>11, <1>12, <1>13, <1>14, <1>15, <1>16, <1>17, <1>18, <1>19, <1>20, <1>21, <1>22, <1>23, <1>24, <1>25, <1>26
  DEF Next, Child, Handler, Prompt, Start, WaitOnChild, RipDead, Promise!Next

(* If no child is ever stopped, every behaviour of the dead list, its       *)
(* handler and wait_on_child() is one CommandRun allows                     *)
(* (backend.c:138-249, jobs.c:1134-1282, sig.c:279-337).                    *)
THEOREM Implements == Stoppable = {} => (Spec => ImplementsCommandRun)
<1> SUFFICES ASSUME Stoppable = {} PROVE Spec => ImplementsCommandRun
  OBVIOUS
<1>1. TypeInv /\ AnswerInv /\ [Next]_vars => AnswerInv'
  BY NextAnswerInv
<1>2. TypeInv /\ AnswerInv /\ SourceInv /\ [Next]_vars => SourceInv'
  BY NextSourceInv
<1>3. TypeInv /\ AnswerInv /\ SourceInv /\ [Next]_vars => [Promise!Next]_Promise!vars
  BY ImplementsStep DEF AbsVars, Promise!vars
<1>4. QED
  BY InitTypeInv, NextTypeInv, InitAnswerInv, InitSourceInv, ImplementsInit,
     <1>1, <1>2, <1>3, PTL DEF Spec, ImplementsCommandRun, Promise!Spec

-----------------------------------------------------------------------------
(***************************************************************************)
(* What the dead list still says when SIGCHLD happens to stay out of the    *)
(* windows in which the main program changes it: the shell does not sleep  *)
(* over an answer, it does not read a status that belongs to another child, *)
(* and no child it waits for is lost.  Each theorem names the pcs at which  *)
(* the handler must not run; each is false if one of them is left out.      *)
(***************************************************************************)
(* Falling asleep: between rip_dead()'s search and sigsuspend() nothing may *)
(* be listed; asleep, the handler may run, and it then wakes the shell.     *)
SleepInv ==
    /\ pc \in {"sigint", "suspend"} => ~handling /\ ~Listed(pid)
    /\ pc = "asleep" /\ ~handling => ~Listed(pid)

LEMMA ListedStable == ASSUME UNCHANGED <<dead, listindex, pid>> PROVE Listed(pid)' = Listed(pid)
  BY DEF Listed, Live, Holds, Slot

LEMMA NextSleepInv ==
  ASSUME {"sigint", "suspend"} \subseteq Quiet, SleepInv, [Next]_vars
  PROVE  SleepInv'
<1> USE DEF SleepInv, kernel, list, wait, setup
<1>1. ASSUME NEW p \in Pids, Child(p) \/ StartBackground(p) \/ StartForeground(p) \/ Drain(p)
      PROVE  SleepInv'
  BY <1>1, ListedStable DEF Child, Exit, Stop, Cont, Change, StartBackground, StartForeground, Drain
<1>2. ASSUME HandlerEnter PROVE SleepInv'
  BY <1>2, ListedStable DEF HandlerEnter
<1>3. ASSUME NEW p \in Pids, HandlerReap(p) PROVE SleepInv'
  BY <1>3 DEF HandlerReap
<1>4. ASSUME HandlerExit PROVE SleepInv'
  BY <1>4, ListedStable DEF HandlerExit, Woken
<1>5. ASSUME Interrupt PROVE SleepInv'
  BY <1>5, ListedStable DEF Interrupt, Woken
<1>6. ASSUME CheckOnChildren \/ ReadCommand \/ EndUnit \/ StartWait PROVE SleepInv'
  BY <1>6 DEF CheckOnChildren, ReadCommand, EndUnit, StartWait
<1>7. ASSUME RipSearch PROVE SleepInv'
  BY <1>7, ListedStable DEF RipSearch
<1>8. ASSUME RipCopyPid \/ RipCopyStatus \/ RipClearPid \/ RipClearStatus \/ RipLoad \/ RipStore
      PROVE  SleepInv'
  BY <1>8 DEF RipCopyPid, RipCopyStatus, RipClearPid, RipClearStatus, RipLoad, RipStore
<1>9. ASSUME CheckInterrupt \/ Suspend PROVE SleepInv'
  BY <1>9, ListedStable DEF CheckInterrupt, Suspend
<1>10. ASSUME Collect \/ NoteTermination \/ Return PROVE SleepInv'
  BY <1>10 DEF Collect, NoteTermination, NoteSearch, NoteUpdate, NoteWrite, NoteStatus, NoteLoad, NoteStore,
               Return
<1>11. ASSUME UNCHANGED vars PROVE SleepInv'
  BY <1>11, ListedStable DEF vars
<1>12. QED
  BY <1>1, <1>2, <1>3, <1>4, <1>5, <1>6, <1>7, <1>8, <1>9, <1>10, <1>11
  DEF Next, Handler, Prompt, Start, WaitOnChild, RipDead

(* If no SIGCHLD comes between rip_dead()'s search and sigsuspend(), the    *)
(* shell does not sleep while its child is on the list, whatever else the   *)
(* handler interrupts and however children stop (backend.c:146-181).        *)
THEOREM NoAnswerSleptOver ==
  {"sigint", "suspend"} \subseteq Quiet => (Spec => []SleepsOnlyWithoutAnswer)
<1> SUFFICES ASSUME {"sigint", "suspend"} \subseteq Quiet
             PROVE  Spec => []SleepsOnlyWithoutAnswer
  OBVIOUS
<1>1. Init => SleepInv
  BY DEF Init, SleepInv
<1>2. SleepInv /\ [Next]_vars => SleepInv'
  BY NextSleepInv
<1>3. SleepInv => SleepsOnlyWithoutAnswer
  BY DEF SleepInv, SleepsOnlyWithoutAnswer
<1>4. QED
  BY <1>1, <1>2, <1>3, PTL DEF Spec

----------------------------------------------------------------------------
(* Listed statuses.  rip_dead() moves an entry by its pid first and its     *)
(* status after, and clears one and notice_termination() adds one the same  *)
(* way; between the two accesses the entry is torn, and the handler must    *)
(* not add another at that place.                                           *)
Right(k) == dead[k].pid # NoPid => dead[k].status \in delivered[dead[k].pid]

EntryInv ==
    /\ pc \in {"copyStatus", "clearStatus", "noteStatus"} => ~handling
    /\ \A k \in 0 .. DeadMax - 1 :
            ~(pc = "copyStatus" /\ k = i) /\ ~(pc = "noteStatus" /\ k = listindex) => Right(k)
    /\ pc = "copyStatus" /\ i < DeadMax => dead[i].pid = Slot(i + 1).pid
    /\ pc = "clearStatus" /\ i < DeadMax => dead[i].pid = NoPid
    /\ pc \in Ripping \cup Noting => status \in delivered[pid]
    /\ pc = "noteUpdate" => i < DeadMax /\ i < listindex /\ dead[i].pid = pid
    /\ pc = "noteStatus" /\ listindex < DeadMax => dead[listindex].pid = pid

(* What notice_termination() leaves of the entries that are there already.  *)
LEMMA NoticeKeepsPids ==
  ASSUME dead \in DeadList, listindex \in -1 .. DeadMax + 1,
         NEW p \in Pids, NEW s \in Status, Notice(p, s)
  PROVE  \A k \in 0 .. DeadMax - 1 : k < listindex =>
             dead'[k].pid = dead[k].pid /\ k < listindex'
<1>1. CASE \E k \in 0 .. DeadMax - 1 :
              First(k, p) /\ dead' = [dead EXCEPT ![k].status = s] /\ UNCHANGED listindex
  <2>1. PICK k \in 0 .. DeadMax - 1 :
                dead' = [dead EXCEPT ![k].status = s] /\ UNCHANGED listindex
    BY <1>1
  <2>2. dead' = [dead EXCEPT ![k] = [dead[k] EXCEPT !.status = s]]
    BY <2>1
  <2>3. dead[k] \in [pid : Pids \cup {NoPid}, status : Status]
    BY DeadMaxAssumption DEF DeadList
  <2>4. [dead[k] EXCEPT !.status = s].pid = dead[k].pid
    BY <2>3
  <2>5. QED
    BY <2>1, <2>2, <2>4 DEF DeadList
<1>2. CASE /\ Room /\ dead' = [dead EXCEPT ![listindex] = [pid |-> p, status |-> s]]
           /\ listindex' = listindex + 1
  BY <1>2 DEF Room, DeadList
<1>3. CASE UNCHANGED list
  BY <1>3 DEF list
<1>4. QED
  BY <1>1, <1>2, <1>3 DEF Notice

LEMMA PutPidAt ==
  ASSUME dead \in DeadList, NEW k \in 0 .. DeadMax + 1, NEW p \in Pids \cup {NoPid},
         PutPid(k, p)
  PROVE  /\ \A l \in 0 .. DeadMax - 1 : l # k => dead'[l] = dead[l]
         /\ k < DeadMax => dead'[k].pid = p /\ dead'[k].status = dead[k].status
<1>1. CASE k < DeadMax
  <2>1. dead' = [dead EXCEPT ![k] = [dead[k] EXCEPT !.pid = p]]
    BY <1>1 DEF PutPid
  <2>2. dead[k] \in [pid : Pids \cup {NoPid}, status : Status]
    BY <1>1, DeadMaxAssumption DEF DeadList
  <2>3. QED
    BY <1>1, <2>1, <2>2, DeadMaxAssumption DEF DeadList
<1>2. CASE ~(k < DeadMax)
  BY <1>2 DEF PutPid
<1>3. QED
  BY <1>1, <1>2

LEMMA PutStatusAt ==
  ASSUME dead \in DeadList, NEW k \in 0 .. DeadMax + 1, NEW s \in Status, PutStatus(k, s)
  PROVE  \A l \in 0 .. DeadMax - 1 :
            /\ dead'[l].pid = dead[l].pid
            /\ dead'[l].status = IF l = k THEN s ELSE dead[l].status
<1>1. CASE k < DeadMax
  <2>1. dead' = [dead EXCEPT ![k] = [dead[k] EXCEPT !.status = s]]
    BY <1>1 DEF PutStatus
  <2>2. dead[k] \in [pid : Pids \cup {NoPid}, status : Status]
    BY <1>1, DeadMaxAssumption DEF DeadList
  <2>3. QED
    BY <1>1, <2>1, <2>2, DeadMaxAssumption DEF DeadList
<1>2. CASE ~(k < DeadMax)
  BY <1>2, DeadMaxAssumption DEF PutStatus, DeadList
<1>3. QED
  BY <1>1, <1>2

LEMMA NextEntryInv ==
  ASSUME {"copyStatus", "clearStatus", "noteStatus"} \subseteq Quiet, TypeInv, EntryInv, [Next]_vars
  PROVE  EntryInv'
<1> USE PidsAssumption, DeadMaxAssumption, FatesAssumption
<1> USE DEF EntryInv, Right, kernel, list, wait, setup, Ripping, Noting
<1>a. /\ proc \in [Pids -> {"unborn", "running", "stopped", "zombie", "gone"}]
      /\ report \in [Pids -> Status \cup {"none"}]
      /\ delivered \in [Pids -> SUBSET Status]
      /\ dead \in DeadList /\ listindex \in -1 .. DeadMax + 1
      /\ i \in 0 .. DeadMax + 1 /\ status \in Status /\ job \in Seq(Pids)
      /\ pc \in Ripping \cup Noting \cup {"rip"} => pid \in Pids
  BY DEF TypeInv, TypeOK, DeadList, Attached, Waiting
<1>b. \A k \in 0 .. DeadMax - 1 : dead[k].pid \in Pids \cup {NoPid} /\ dead[k].status \in Status
  BY <1>a DEF DeadList
<1>1. ASSUME NEW p \in Pids, Child(p) \/ StartBackground(p) \/ StartForeground(p)
      PROVE  EntryInv'
  BY <1>1 DEF Child, Exit, Stop, Cont, Change, StartBackground, StartForeground,
              Forked, Slot
<1>2. ASSUME HandlerEnter PROVE EntryInv'
  BY <1>2 DEF HandlerEnter
<1>3. ASSUME NEW p \in Pids, Collected(p)
      PROVE  /\ report[p] \in Status /\ delivered'[p] = delivered[p] \cup {report[p]}
             /\ \A q \in Pids : delivered[q] \subseteq delivered'[q]
  BY <1>a, <1>3 DEF Collected
<1>4. ASSUME NEW p \in Pids, HandlerReap(p) PROVE EntryInv'
  <2>1. Collected(p) /\ Notice(p, report[p]) /\ UNCHANGED <<wait, handling, pc>> /\ handling
    BY <1>4 DEF HandlerReap
  <2>2. /\ report[p] \in Status /\ report[p] \in delivered'[p]
        /\ \A q \in Pids : delivered[q] \subseteq delivered'[q]
    BY <2>1, <1>3
  <2>3. \A k \in 0 .. DeadMax - 1 :
            \/ dead'[k] = dead[k]
            \/ dead'[k].pid = p /\ dead'[k].status = report[p]
    BY <1>a, <2>1, <2>2, NoticeEffect
  <2>4. \A k \in 0 .. DeadMax - 1 : k < listindex =>
            dead'[k].pid = dead[k].pid /\ k < listindex'
    BY <1>a, <2>1, <2>2, NoticeKeepsPids
  <2>5. pc \notin {"copyStatus", "clearStatus", "noteStatus"}
    BY <2>1
  <2>6. \A k \in 0 .. DeadMax - 1 : Right(k)'
    BY <1>b, <2>2, <2>3, <2>5
  <2>7. pc' \in Ripping \cup Noting => status' \in delivered'[pid']
    BY <1>a, <2>1, <2>2
  <2>8. pc' = "noteUpdate" => i' < DeadMax /\ i' < listindex' /\ dead'[i'].pid = pid'
    BY <1>a, <2>1, <2>4
  <2>9. QED
    BY <2>1, <2>5, <2>6, <2>7, <2>8
<1>5. ASSUME HandlerExit PROVE EntryInv'
  BY <1>5 DEF HandlerExit, Woken, Slot
<1>6. ASSUME Interrupt PROVE EntryInv'
  BY <1>6 DEF Interrupt, Woken, Slot
<1>7. ASSUME CheckOnChildren \/ ReadCommand \/ EndUnit \/ StartWait PROVE EntryInv'
  BY <1>7 DEF CheckOnChildren, ReadCommand, EndUnit, StartWait
<1>8. ASSUME NEW p \in Pids, Drain(p) PROVE EntryInv'
  <2>1. Collected(p) /\ UNCHANGED <<list, wait, handling, pc>> /\ pc = "drain"
    BY <1>8 DEF Drain
  <2>2. \A q \in Pids : delivered[q] \subseteq delivered'[q]
    BY <2>1, <1>3
  <2>3. QED
    BY <1>b, <2>1, <2>2
<1>9. ASSUME RipSearch PROVE EntryInv'
  <2>1. CASE pc' = "copyPid"
    <3>1. PICK k \in 0 .. DeadMax - 1 : First(k, pid) /\ status' = dead[k].status
      BY <1>9, <2>1 DEF RipSearch, StatusAt
    <3>2. dead[k].pid = pid /\ pid \in Pids
      BY <1>9, <1>a, <3>1 DEF First, Holds, Slot, RipSearch
    <3>3. status' \in delivered[pid]
      BY <1>9, <3>1, <3>2 DEF RipSearch
    <3>4. QED
      BY <1>9, <2>1, <3>3 DEF RipSearch
  <2>2. CASE pc' # "copyPid"
    BY <1>9, <2>2 DEF RipSearch
  <2>3. QED
    BY <2>1, <2>2
<1>10. ASSUME RipCopyPid PROVE EntryInv'
  <2>1. Slot(i + 1).pid \in Pids \cup {NoPid}
    BY <1>a, SlotType
  <2>2. UNCHANGED <<delivered, wait, handling>> /\ pc = "copyPid" /\ ~handling
    BY <1>10 DEF RipCopyPid
  <2>3. CASE pc' = "clearPid" /\ UNCHANGED list
    BY <2>2, <2>3
  <2>4. CASE pc' = "copyStatus" /\ PutPid(i, Slot(i + 1).pid)
    <3>1. /\ \A l \in 0 .. DeadMax - 1 : l # i => dead'[l] = dead[l]
          /\ i < DeadMax => dead'[i].pid = Slot(i + 1).pid
      BY <1>a, <2>1, <2>4, PutPidAt
    <3>2. Slot(i + 1)' = Slot(i + 1)
      BY <1>a, <2>2, <3>1 DEF Slot
    <3>3. \A k \in 0 .. DeadMax - 1 : k # i => Right(k)'
      BY <2>2, <3>1
    <3>4. QED
      BY <2>2, <2>4, <3>1, <3>2, <3>3
  <2>5. QED
    BY <1>10, <2>3, <2>4 DEF RipCopyPid
<1>11. ASSUME RipCopyStatus PROVE EntryInv'
  <2>1. Slot(i + 1).status \in Status
    BY <1>a, SlotType
  <2>2. /\ UNCHANGED <<delivered, handling, pid, status>>
        /\ pc = "copyStatus" /\ pc' = "copyPid" /\ ~handling
    BY <1>11 DEF RipCopyStatus
  <2>3. \A l \in 0 .. DeadMax - 1 :
            /\ dead'[l].pid = dead[l].pid
            /\ dead'[l].status = IF l = i THEN Slot(i + 1).status ELSE dead[l].status
    BY <1>a, <1>11, <2>1, PutStatusAt DEF RipCopyStatus
  <2>4. ASSUME NEW k \in 0 .. DeadMax - 1, k = i PROVE Right(k)'
    <3>1. CASE i + 1 < DeadMax
      <4>1. Slot(i + 1) = dead[i + 1] /\ i + 1 \in 0 .. DeadMax - 1
        BY <1>a, <3>1 DEF Slot
      <4>2. Right(k + 1)
        BY <1>a, <2>2, <2>4, <4>1
      <4>3. dead[k].pid = dead[k + 1].pid
        BY <2>2, <2>4, <4>1
      <4>4. dead'[k].pid = dead[k + 1].pid /\ dead'[k].status = dead[k + 1].status
        BY <2>3, <2>4, <4>1, <4>3
      <4>5. QED
        BY <2>2, <4>2, <4>4
    <3>2. CASE ~(i + 1 < DeadMax)
      <4>1. dead[k].pid = NoPid
        BY <2>2, <2>4, <3>2 DEF Slot, NoSlot
      <4>2. dead'[k].pid = NoPid
        BY <2>3, <2>4, <4>1
      <4>3. QED
        BY <4>2
    <3>3. QED
      BY <3>1, <3>2
  <2>5. \A k \in 0 .. DeadMax - 1 : k # i => Right(k)'
    BY <2>2, <2>3
  <2>6. \A k \in 0 .. DeadMax - 1 : Right(k)'
    BY <2>4, <2>5
  <2>7. QED
    BY <2>2, <2>6
<1>12. ASSUME RipClearPid PROVE EntryInv'
  <2>1. /\ UNCHANGED <<delivered, wait, handling>>
        /\ pc = "clearPid" /\ pc' = "clearStatus" /\ ~handling
    BY <1>12 DEF RipClearPid
  <2>2. /\ \A l \in 0 .. DeadMax - 1 : l # i => dead'[l] = dead[l]
        /\ i < DeadMax => dead'[i].pid = NoPid
    BY <1>a, <1>12, PutPidAt DEF RipClearPid
  <2>3. \A k \in 0 .. DeadMax - 1 : Right(k)'
    <3>1. SUFFICES ASSUME NEW k \in 0 .. DeadMax - 1 PROVE Right(k)'
      OBVIOUS
    <3>2. CASE k = i
      BY <2>2, <3>2
    <3>3. CASE k # i
      BY <2>1, <2>2, <3>3
    <3>4. QED
      BY <3>2, <3>3
  <2>4. i' < DeadMax => dead'[i'].pid = NoPid
    BY <2>1, <2>2
  <2>5. QED
    BY <2>1, <2>3, <2>4
<1>13. ASSUME RipClearStatus PROVE EntryInv'
  <2>1. UNCHANGED <<delivered, wait, handling>> /\ pc = "clearStatus" /\ pc' = "load"
    BY <1>13 DEF RipClearStatus
  <2>2. \A l \in 0 .. DeadMax - 1 :
            /\ dead'[l].pid = dead[l].pid
            /\ l # i => dead'[l].status = dead[l].status
    BY <1>a, <1>13, PutStatusAt DEF RipClearStatus, Status, Ended, Exited
  <2>3. QED
    BY <1>a, <2>1, <2>2
<1>14. ASSUME RipLoad \/ RipStore PROVE EntryInv'
  BY <1>14 DEF RipLoad, RipStore
<1>15. ASSUME CheckInterrupt \/ Suspend \/ Return PROVE EntryInv'
  BY <1>15 DEF CheckInterrupt, Suspend, Return
<1>16. ASSUME Collect PROVE EntryInv'
  <2>1. /\ UNCHANGED <<delivered, list, i, status, handling>> /\ pc = "collect"
        /\ (pc' = "note" /\ pid' = pid) \/ pc' \in {"killed", "return", "rip"}
    BY <1>16 DEF Collect
  <2>2. QED
    BY <2>1
<1>17. ASSUME NoteSearch PROVE EntryInv'
  <2>1. UNCHANGED <<delivered, list, pid, status, handling>> /\ pc = "note"
    BY <1>17 DEF NoteSearch
  <2>2. CASE \E k \in 0 .. DeadMax - 1 : First(k, pid) /\ i' = k /\ pc' = "noteUpdate"
    <3>1. PICK k \in 0 .. DeadMax - 1 : First(k, pid) /\ i' = k
      BY <2>2
    <3>2. k < listindex /\ dead[k].pid = pid
      BY <1>a, <3>1 DEF First, Holds, Slot, Live
    <3>3. \A l \in 0 .. DeadMax - 1 : Right(l)'
      BY <2>1
    <3>4. i' < DeadMax /\ i' < listindex' /\ dead'[i'].pid = pid'
      BY <2>1, <3>1, <3>2
    <3>5. QED
      BY <2>1, <2>2, <3>3, <3>4
  <2>3. CASE pc' \in {"noteWrite", "return"}
    BY <2>1, <2>3
  <2>4. QED
    BY <1>17, <2>2, <2>3 DEF NoteSearch
<1>18. ASSUME NoteUpdate PROVE EntryInv'
  <2>1. UNCHANGED <<delivered, wait, handling>> /\ pc = "noteUpdate" /\ pc' = "return"
    BY <1>18 DEF NoteUpdate
  <2>2. \A l \in 0 .. DeadMax - 1 :
            /\ dead'[l].pid = dead[l].pid
            /\ dead'[l].status = IF l = i THEN status ELSE dead[l].status
    BY <1>a, <1>18, PutStatusAt DEF NoteUpdate
  <2>3. QED
    BY <1>a, <2>1, <2>2
<1>19. ASSUME NoteWrite PROVE EntryInv'
  <2>1. /\ UNCHANGED <<delivered, listindex, wait, handling>> /\ pc = "noteWrite" /\ ~handling
        /\ pc' = "noteStatus" \/ (pc' = "crashed" /\ ~(listindex < DeadMax))
        /\ listindex \in 0 .. DeadMax
    BY <1>19 DEF NoteWrite, TypeInv, Indices
  <2>2. /\ \A l \in 0 .. DeadMax - 1 : l # listindex => dead'[l] = dead[l]
        /\ listindex < DeadMax => dead'[listindex].pid = pid
    BY <1>a, <1>19, <2>1 DEF NoteWrite, DeadList
  <2>3. \A k \in 0 .. DeadMax - 1 : k # listindex => Right(k)'
    BY <2>1, <2>2
  <2>4. QED
    BY <2>1, <2>2, <2>3
<1>23. ASSUME NoteStatus PROVE EntryInv'
  <2>1. /\ UNCHANGED <<delivered, listindex, wait, handling>> /\ pc = "noteStatus"
        /\ pc' = "noteLoad" /\ listindex \in 0 .. DeadMax
    BY <1>23 DEF NoteStatus, TypeInv, Indices
  <2>2. \A l \in 0 .. DeadMax - 1 :
            /\ dead'[l].pid = dead[l].pid
            /\ dead'[l].status = IF l = listindex THEN status ELSE dead[l].status
    BY <1>a, <1>23, <2>1, PutStatusAt DEF NoteStatus
  <2>3. \A k \in 0 .. DeadMax - 1 : Right(k)'
    BY <1>a, <2>1, <2>2
  <2>4. QED
    BY <2>1, <2>3
<1>20. ASSUME NoteLoad \/ NoteStore PROVE EntryInv'
  BY <1>20 DEF NoteLoad, NoteStore
<1>21. ASSUME UNCHANGED vars PROVE EntryInv'
  BY <1>21 DEF vars, Slot
<1>22. QED
  BY <1>1, <1>2, <1>4, <1>5, <1>6, <1>7, <1>8, <1>9, <1>10, <1>11, <1>12, <1>13, <1>14, <1>15, <1>16, <1>17, <1>18, <1>19, <1>20, <1>21, <1>23
  DEF Next, Handler, Prompt, Start, WaitOnChild, RipDead, NoteTermination

(* If no SIGCHLD comes after rip_dead() copied or cleared the pid of an     *)
(* entry, or notice_termination() wrote the pid of a new one, and before it *)
(* did so with its status, every entry the shell can read says of its       *)
(* process what the kernel reported (jobs.c:1169-1173, 1258-1282); wherever *)
(* else the handler runs, and in either layout of the list.                 *)
THEOREM EntriesAreRight ==
  {"copyStatus", "clearStatus", "noteStatus"} \subseteq Quiet => (Spec => []RightEntries)
<1> SUFFICES ASSUME {"copyStatus", "clearStatus", "noteStatus"} \subseteq Quiet
             PROVE  Spec => []RightEntries
  OBVIOUS
<1>1. Init => EntryInv
  BY DEF Init, EntryInv, Right, NoSlot, Ripping, Noting
<1>2. TypeInv /\ EntryInv /\ [Next]_vars => EntryInv'
  BY NextEntryInv
<1>3. TypeInv /\ EntryInv => RightEntries
  BY DeadMaxAssumption
  DEF EntryInv, Right, RightEntries, Live, Slot, NoSlot, TypeInv, TypeOK
<1>4. QED
  BY InitTypeInv, NextTypeInv, <1>1, <1>2, <1>3, PTL DEF Spec

----------------------------------------------------------------------------
(* Children that are waited for.  While rip_dead() shifts the entries down, *)
(* one entry is the hole: the rest of the list, Kept, is whole at every     *)
(* access, and an entry leaves it only when rip_dead() has its status.      *)
Shifting == {"copyPid", "copyStatus", "clearPid", "clearStatus", "load", "store"}
Updates  == Shifting \cup {"noteWrite", "noteStatus", "noteLoad", "noteStore"}
Seeking  == {"forking", "rip", "sigint", "suspend", "asleep"} \cup Ripping

Hole    == IF i < listindex THEN i ELSE listindex - 1
Kept    == IF pc \in Shifting THEN Live \ {Hole} ELSE Live
Held(p) == \E k \in Kept : dead[k].pid = p

Undisturbed == pc \in Updates => ~handling

Reports == \A p \in Pids :
    /\ proc[p] \in {"unborn", "gone"} => report[p] = "none"
    /\ proc[p] = "zombie" => report[p] \in Ended

Indexed ==
    /\ listindex \in 0 .. DeadMax
    /\ pc = "copyPid" => i \in 0 .. listindex
    /\ pc = "copyStatus" => i \in 0 .. listindex - 1 /\ dead[i].pid = Slot(i + 1).pid
    /\ pc \in {"clearPid", "clearStatus", "load", "store"} => i = listindex
    /\ pc \in Shifting => listindex >= 1
    /\ pc = "store" => reg = listindex

\* A child is listed once, and not before it was started.
Once ==
    /\ \A k \in Kept : dead[k].pid \in Pids /\ proc[dead[k].pid] # "unborn"
    /\ \A k, l \in Kept : k # l => dead[k].pid # dead[l].pid
    /\ pc \in Shifting => ~Held(pid)

Adding ==
    /\ pc \in {"noteWrite", "noteStatus", "noteLoad", "noteStore"} =>
           ~Held(pid) /\ listindex < DeadMax
    /\ pc \in {"noteStatus", "noteLoad", "noteStore"} => dead[listindex].pid = pid
    /\ pc = "noteStore" => reg = listindex

\* What is listed of a process of the job is the last the kernel reported.
Current == pc \in Seeking => \A k \in Kept :
    dead[k].pid \in Members(job) /\ proc[dead[k].pid] = "gone" => dead[k].status \in Ended

Remembered == pc \in Seeking => \A p \in Members(job) :
    proc[p] = "gone" /\ p \notin exits =>
        Held(p) \/ (pc \in Ripping /\ p = pid /\ status \in Ended)

Begun ==
    /\ pc \in {"forking"} \cup Waiting => \A p \in Members(job) : proc[p] # "unborn"
    /\ pc \in Waiting => pid \in Members(job)
    /\ pc \in Seeking /\ pc # "forking" => pid \notin exits
    /\ pc = "forking" => exits = {}

HeldInv == /\ Undisturbed /\ Reports /\ Indexed /\ Once
           /\ Adding /\ Current /\ Remembered /\ Begun

LEMMA InitHeldInv == Init => HeldInv
  BY DeadMaxAssumption
  DEF Init, HeldInv, Undisturbed, Reports, Indexed, Once, Adding, Current, Remembered, Begun,
      Kept, Live, Held, Shifting, Updates, Seeking, Ripping, Waiting, Ended

LEMMA KeptRange ==
  ASSUME HeldInv
  PROVE  Kept \subseteq 0 .. DeadMax - 1 /\ \A k \in Kept : k < listindex
  BY DeadMaxAssumption DEF HeldInv, Indexed, Kept, Live

(* A list that holds each child once has room for one that is not on it.    *)
LEMMA ThereIsRoom ==
  ASSUME IsFiniteSet(Pids), Cardinality(Pids) <= DeadMax, HeldInv, Kept = Live,
         NEW p \in Pids, ~Listed(p)
  PROVE  listindex < DeadMax
<1> SUFFICES ASSUME listindex = DeadMax PROVE FALSE
  BY DeadMaxAssumption DEF HeldInv, Indexed
<1>1. /\ IsFiniteSet(Pids \ {p}) /\ Cardinality(Pids \ {p}) = Cardinality(Pids) - 1
      /\ Cardinality(Pids) \in Nat
  BY FS_RemoveElement, FS_CardinalityType
<1>2. IsFiniteSet(Live) /\ Cardinality(Live) = DeadMax
  <2>1. Live = 0 .. DeadMax - 1 /\ 0 \in Int /\ DeadMax - 1 \in Int
    BY DeadMaxAssumption DEF Live
  <2>2. QED
    BY <2>1, FS_Interval, DeadMaxAssumption
<1>3. [k \in Live |-> dead[k].pid] \in [Live -> Pids \ {p}]
  BY DeadMaxAssumption DEF HeldInv, Once, Listed, Holds, Slot, Live
<1>4. Cardinality(Pids \ {p}) < Cardinality(Live)
  BY <1>1, <1>2, DeadMaxAssumption
<1>5. \E k, l \in Live : k # l /\ dead[k].pid = dead[l].pid
  <2> DEFINE f == [k \in Live |-> dead[k].pid]
  <2>1. f \in [Live -> Pids \ {p}]
    BY <1>3
  <2>2. \E k, l \in Live : k # l /\ f[k] = f[l]
    <3> HIDE DEF f
    <3>1. QED
      BY <1>1, <1>2, <1>4, <2>1, FS_PigeonHole
  <2>3. QED
    BY <2>2
<1>6. QED
  BY <1>5 DEF HeldInv, Once

(* A step that leaves the kept entries, the children and the job alone.     *)
LEMMA SameEntries ==
  ASSUME HeldInv, Kept' = Kept, \A k \in Kept : dead'[k] = dead[k], UNCHANGED <<proc, job, exits>>
  PROVE  /\ \A p : Held(p)' <=> Held(p)
         /\ \A k \in Kept' : dead'[k].pid \in Pids /\ proc'[dead'[k].pid] # "unborn"
         /\ \A k, l \in Kept' : k # l => dead'[k].pid # dead'[l].pid
         /\ pc \in Seeking => Current'
         /\ pc \in Seeking => \A p \in Members(job) : proc'[p] = "gone" /\ p \notin exits =>
                Held(p)' \/ (pc \in Ripping /\ p = pid /\ status \in Ended)
<1>1. \A p : Held(p)' <=> Held(p)
  BY DEF Held
<1>2. /\ \A k \in Kept' : dead'[k].pid \in Pids /\ proc'[dead'[k].pid] # "unborn"
      /\ \A k, l \in Kept' : k # l => dead'[k].pid # dead'[l].pid
  BY DEF HeldInv, Once
<1>3. pc \in Seeking => Current'
  BY DEF HeldInv, Current, Members
<1>4. pc \in Seeking => \A p \in Members(job) : proc'[p] = "gone" /\ p \notin exits =>
          Held(p)' \/ (pc \in Ripping /\ p = pid /\ status \in Ended)
  BY <1>1 DEF HeldInv, Remembered
<1>5. QED
  BY <1>1, <1>2, <1>3, <1>4

(* A step of the children, the kernel or a handler's entry.                 *)
LEMMA KernelStep ==
  ASSUME TypeInv, HeldInv, UNCHANGED <<list, wait, pc>>, Undisturbed', Reports',
         \A q \in Pids : /\ proc'[q] = "gone" <=> proc[q] = "gone"
                         /\ proc'[q] = "unborn" => proc[q] = "unborn"
  PROVE  HeldInv'
<1>a. job \in Seq(Pids) /\ Members(job) \subseteq Pids
  BY DEF TypeInv, TypeOK, Members
<1>1. Kept' = Kept /\ \A p : Held(p)' <=> Held(p)
  BY DEF Kept, Held, Live, Hole, list, wait
<1>2. Indexed' /\ Adding'
  BY <1>1 DEF HeldInv, Indexed, Adding, Slot, list, wait
<1>3. Once'
  BY <1>1 DEF HeldInv, Once, list, wait
<1>4. Current'
  BY <1>1 DEF HeldInv, Current, Once, Members, list, wait
<1>5. Remembered'
  BY <1>a, <1>1 DEF HeldInv, Remembered, Members, list, wait
<1>6. Begun'
  BY <1>a DEF HeldInv, Begun, Members, list, wait
<1>7. QED
  BY <1>2, <1>3, <1>4, <1>5, <1>6 DEF HeldInv

LEMMA ReapHeldInv ==
  ASSUME IsFiniteSet(Pids), Cardinality(Pids) <= DeadMax, TypeInv, HeldInv,
         NEW p \in Pids, HandlerReap(p)
  PROVE  HeldInv'
<1> USE DeadMaxAssumption
<1>a. /\ report \in [Pids -> Status \cup {"none"}]
      /\ proc \in [Pids -> {"unborn", "running", "stopped", "zombie", "gone"}]
      /\ dead \in DeadList
      /\ job \in Seq(Pids) /\ Members(job) \subseteq Pids
  BY DEF TypeInv, TypeOK, DeadList, Members
<1>1. /\ handling /\ UNCHANGED <<wait, pc, handling>> /\ Notice(p, report[p])
      /\ report[p] # "none" /\ report' = [report EXCEPT ![p] = "none"]
      /\ proc' = [proc EXCEPT ![p] = IF @ = "zombie" THEN "gone" ELSE @]
  BY DEF HandlerReap, Collected
<1>2. pc \notin Updates /\ Kept = Live /\ Kept' = Live'
  BY <1>1 DEF HeldInv, Undisturbed, Updates, Kept
<1>3. /\ proc[p] \notin {"unborn", "gone"} /\ report[p] \in Status
      /\ proc'[p] = "gone" => report[p] \in Ended
      /\ \A q \in Pids : /\ proc'[q] = "gone" <=> proc[q] = "gone" \/ (q = p /\ proc[p] = "zombie")
                         /\ proc'[q] = "unborn" <=> proc[q] = "unborn"
  BY <1>a, <1>1 DEF HeldInv, Reports
<1>4. Undisturbed' /\ Reports'
  BY <1>a, <1>1, <1>2, <1>3 DEF HeldInv, Undisturbed, Reports
<1>5. Begun'
  BY <1>a, <1>1, <1>3 DEF HeldInv, Begun, Members, wait
<1>6. /\ Indexed' /\ Once' /\ Held(p)'
      /\ \A q : Held(q) => Held(q)'
      /\ \A k \in Kept' : /\ dead'[k].pid = p => dead'[k].status = report[p]
                          /\ dead'[k].pid # p => k \in Kept /\ dead'[k] = dead[k]
  <2>1. CASE Listed(p)
    <3>1. PICK k \in 0 .. DeadMax - 1 : /\ First(k, p) /\ UNCHANGED listindex
                                        /\ dead' = [dead EXCEPT ![k].status = report[p]]
      BY <1>1, <2>1 DEF Notice
    <3>2. k \in Live /\ dead[k].pid = p
      BY <3>1 DEF First, Holds, Slot
    <3>3. Kept' = Kept
      BY <1>2, <3>1 DEF Live
    <3>4. dead' = [dead EXCEPT ![k] = [dead[k] EXCEPT !.status = report[p]]]
      BY <3>1
    <3>5. dead[k] \in [pid : Pids \cup {NoPid}, status : Status]
      BY <1>a
      DEF DeadList
    <3>6. [dead[k] EXCEPT !.status = report[p]].pid = p /\ [dead[k] EXCEPT !.status = report[p]].status = report[p]
      BY <3>2, <3>5
    <3>7. /\ \A l \in 0 .. DeadMax - 1 : l # k => dead'[l] = dead[l]
          /\ dead'[k].pid = p /\ dead'[k].status = report[p]
          /\ \A l \in 0 .. DeadMax - 1 : dead'[l].pid = dead[l].pid
      BY <1>a, <3>2, <3>4, <3>6 DEF DeadList
    <3>8. \A l \in Kept : l \in 0 .. DeadMax - 1
      BY KeptRange
    <3>9. Held(p)' /\ \A q : Held(q) <=> Held(q)'
      BY <1>2, <3>2, <3>3, <3>7, <3>8 DEF Held
    <3>10. Indexed'
      BY <1>1, <1>2, <3>1 DEF HeldInv, Indexed, Updates, Shifting
    <3>11. \A l \in Kept : l # k => dead[l].pid # p
      BY <1>2, <3>2 DEF HeldInv, Once
    <3>12. Once'
      <4>1. \A l \in Kept' : dead'[l].pid \in Pids /\ proc'[dead'[l].pid] # "unborn"
        BY <1>3, <3>3, <3>7, <3>8 DEF HeldInv, Once
      <4>2. \A l, m \in Kept' : l # m => dead'[l].pid # dead'[m].pid
        BY <3>3, <3>7, <3>8 DEF HeldInv, Once
      <4>3. QED
        BY <1>1, <1>2, <4>1, <4>2 DEF Once, Updates
    <3>13. QED
      BY <1>2, <3>3, <3>7, <3>8, <3>9, <3>10, <3>11, <3>12
  <2>2. CASE ~Listed(p)
    <3>1. listindex \in 0 .. DeadMax - 1
      BY <1>2, <2>2, ThereIsRoom DEF HeldInv, Indexed
    <3>2. /\ dead' = [dead EXCEPT ![listindex] = [pid |-> p, status |-> report[p]]]
          /\ listindex' = listindex + 1
      <4>1. ~\E k \in 0 .. DeadMax - 1 : First(k, p)
        BY <2>2 DEF First, Listed
      <4>2. Room
        BY <3>1 DEF Room
      <4>3. QED
        BY <1>1, <2>2, <4>1, <4>2 DEF Notice
    <3>3. /\ Kept' = Kept \cup {listindex} /\ listindex \notin Kept
          /\ \A l \in Kept : l \in 0 .. DeadMax - 1
      BY <1>2, <3>1, <3>2, KeptRange DEF Live
    <3>4. /\ \A l \in Kept : dead'[l] = dead[l] /\ dead[l].pid # p
          /\ dead'[listindex].pid = p /\ dead'[listindex].status = report[p]
      BY <1>a, <1>2, <2>2, <3>1, <3>2, <3>3 DEF DeadList, Listed, Holds, Slot
    <3>5. Held(p)' /\ \A q : Held(q) => Held(q)'
      BY <3>3, <3>4 DEF Held
    <3>6. Indexed'
      BY <1>1, <1>2, <3>1, <3>2 DEF HeldInv, Indexed, Updates, Shifting
    <3>7. Once'
      <4>1. \A l \in Kept' : dead'[l].pid \in Pids /\ proc'[dead'[l].pid] # "unborn"
        BY <1>3, <3>3, <3>4 DEF HeldInv, Once
      <4>2. \A l, m \in Kept' : l # m => dead'[l].pid # dead'[m].pid
        BY <3>3, <3>4 DEF HeldInv, Once
      <4>3. QED
        BY <1>1, <1>2, <4>1, <4>2 DEF Once, Updates
    <3>8. QED
      BY <3>3, <3>4, <3>5, <3>6, <3>7
  <2>3. QED
    BY <2>1, <2>2
<1>7. Adding'
  BY <1>1, <1>2 DEF Adding, Updates
<1>8. Current'
  <2>1. SUFFICES ASSUME pc \in Seeking, NEW k \in Kept',
                        dead'[k].pid \in Members(job), proc'[dead'[k].pid] = "gone"
                 PROVE  dead'[k].status \in Ended
    BY <1>1 DEF Current, Members, wait
  <2>2. CASE dead'[k].pid = p
    BY <1>3, <1>6, <2>1, <2>2
  <2>3. CASE dead'[k].pid # p
    <3>1. k \in Kept /\ dead'[k] = dead[k]
      BY <1>6, <2>3
    <3>2. proc[dead[k].pid] = "gone"
      BY <1>a, <1>3, <2>1, <2>3, <3>1
    <3>3. QED
      BY <2>1, <3>1, <3>2 DEF HeldInv, Current
  <2>4. QED
    BY <2>2, <2>3
<1>9. Remembered'
  <2>1. SUFFICES ASSUME pc \in Seeking, NEW q \in Members(job), proc'[q] = "gone", q \notin exits
                 PROVE  Held(q)' \/ (pc \in Ripping /\ q = pid /\ status \in Ended)
    BY <1>1 DEF Remembered, Members, wait
  <2>2. CASE q = p
    BY <1>6, <2>2
  <2>3. CASE q # p
    <3>1. proc[q] = "gone"
      BY <1>a, <1>3, <2>1, <2>3
    <3>2. QED
      BY <1>6, <2>1, <3>1 DEF HeldInv, Remembered
  <2>4. QED
    BY <2>2, <2>3
<1>10. QED
  BY <1>4, <1>5, <1>6, <1>7, <1>8, <1>9 DEF HeldInv

(* One access of rip_dead().                                                *)
LEMMA RipHeldInv ==
  ASSUME "adjacent" \notin Layouts, TypeInv, HeldInv, RipDead
  PROVE  HeldInv'
<1> USE DeadMaxAssumption
<1> USE DEF kernel, list, wait, setup
<1>a. /\ dead \in DeadList /\ i \in 0 .. DeadMax + 1 /\ listindex \in 0 .. DeadMax
      /\ layout # "adjacent" /\ job \in Seq(Pids)
  BY DEF TypeInv, TypeOK, DeadList, HeldInv, Indexed
<1>b. pc \in Waiting /\ ~handling /\ ~handling' /\ UNCHANGED <<proc, report, job, exits, pid>>
  BY DEF RipDead, RipSearch, RipCopyPid, RipCopyStatus, RipClearPid, RipClearStatus, RipLoad,
         RipStore, Waiting
<1>c. Undisturbed' /\ Reports'
  BY <1>b DEF HeldInv, Undisturbed, Reports
<1>d. \A k \in Kept : k \in 0 .. DeadMax - 1 /\ k < listindex
  BY KeptRange
<1>e. ASSUME pc \in Seeking, pc' \in Seeking \ {"forking"}
      PROVE  Begun'
  BY <1>b, <1>e DEF HeldInv, Begun, Members, Seeking, Ripping, Waiting
<1>f. ASSUME Kept' = Kept, \A k \in Kept : dead'[k] = dead[k], pc \in Ripping, pc' \in Ripping,
             status' = status, pc' \in Shifting => pc \in Shifting, Indexed'
      PROVE  HeldInv'
  <2>1. pc \in Seeking /\ pc' \in Seeking \ {"forking"}
    BY <1>f DEF Seeking, Ripping
  <2>2. /\ \A p : Held(p)' <=> Held(p)
        /\ \A k \in Kept' : dead'[k].pid \in Pids /\ proc'[dead'[k].pid] # "unborn"
        /\ \A k, l \in Kept' : k # l => dead'[k].pid # dead'[l].pid
        /\ Current'
        /\ \A p \in Members(job) : proc'[p] = "gone" /\ p \notin exits =>
               Held(p)' \/ (pc \in Ripping /\ p = pid /\ status \in Ended)
    BY <1>b, <1>f, <2>1, SameEntries
  <2>3. Once'
    BY <1>b, <1>f, <2>2 DEF HeldInv, Once
  <2>4. Remembered'
    BY <1>b, <1>f, <2>2 DEF Remembered, Members
  <2>5. Adding'
    BY <1>f DEF Adding, Ripping
  <2>6. QED
    BY <1>c, <1>e, <1>f, <2>1, <2>2, <2>3, <2>4, <2>5 DEF HeldInv
<1>1. ASSUME RipSearch, pc' = "sigint" PROVE HeldInv'
  <2>1. UNCHANGED <<dead, listindex, i, status>> /\ pc = "rip"
    BY <1>1, <1>a DEF RipSearch
  <2>2. Kept' = Kept /\ pc \in Seeking /\ pc' \in Seeking \ {"forking"}
    BY <1>1, <2>1 DEF Kept, Live, Hole, Shifting, Seeking
  <2>3. /\ \A p : Held(p)' <=> Held(p)
        /\ \A k \in Kept' : dead'[k].pid \in Pids /\ proc'[dead'[k].pid] # "unborn"
        /\ \A k, l \in Kept' : k # l => dead'[k].pid # dead'[l].pid
        /\ Current'
        /\ \A p \in Members(job) : proc'[p] = "gone" /\ p \notin exits =>
               Held(p)' \/ (pc \in Ripping /\ p = pid /\ status \in Ended)
    BY <1>b, <2>1, <2>2, SameEntries
  <2>4. Once' /\ Indexed' /\ Adding'
    BY <1>1, <1>a, <2>1, <2>3 DEF Once, Indexed, Adding, Shifting
  <2>5. Remembered'
    BY <1>1, <1>b, <2>1, <2>3 DEF Remembered, Members, Ripping
  <2>6. QED
    BY <1>c, <1>e, <2>2, <2>3, <2>4, <2>5 DEF HeldInv
<1>2. ASSUME RipSearch, pc' # "sigint" PROVE HeldInv'
  <2>1. PICK k \in 0 .. DeadMax - 1 : First(k, pid) /\ i' = k /\ status' = dead[k].status
    BY <1>2 DEF RipSearch, StatusAt
  <2>2. UNCHANGED <<dead, listindex>> /\ pc = "rip" /\ pc' = "copyPid"
    BY <1>2 DEF RipSearch
  <2>3. k \in Live /\ dead[k].pid = pid
    BY <2>1 DEF First, Holds, Slot
  <2>4. Kept = Live /\ Kept' = Live \ {k}
    <3>1. Hole' = k /\ Live' = Live
      BY <1>a, <2>1, <2>2, <2>3 DEF Hole, Live
    <3>2. QED
      BY <2>2, <3>1 DEF Kept, Shifting
  <2>5. \A l \in Kept' : l \in Kept /\ dead'[l] = dead[l] /\ dead[l].pid # pid
    BY <2>2, <2>3, <2>4 DEF HeldInv, Once
  <2>6. Indexed' /\ Adding'
    BY <1>a, <2>1, <2>2, <2>3 DEF Indexed, Adding, Live
  <2>7. Once'
    <3>1. ~Held(pid)'
      BY <1>b, <2>5 DEF Held
    <3>2. QED
      BY <1>b, <2>5, <3>1 DEF HeldInv, Once
  <2>8. Current'
    BY <1>b, <2>2, <2>5 DEF HeldInv, Current, Members, Seeking
  <2>9. Remembered'
    <3>1. SUFFICES ASSUME NEW p \in Members(job), proc[p] = "gone", p \notin exits
                   PROVE  Held(p)' \/ (p = pid /\ status' \in Ended)
      BY <1>b, <2>2 DEF Remembered, Members, Ripping
    <3>2. CASE p = pid
      BY <2>1, <2>2, <2>3, <2>4, <3>1, <3>2 DEF HeldInv, Current, Seeking
    <3>3. CASE p # pid
      <4>1. Held(p)
        BY <2>2, <3>1, <3>3 DEF HeldInv, Remembered, Seeking, Ripping
      <4>2. PICK l \in Kept : dead[l].pid = p
        BY <4>1 DEF Held
      <4>3. l \in Kept'
        BY <2>3, <2>4, <3>3, <4>2
      <4>4. QED
        BY <2>5, <4>2, <4>3 DEF Held
    <3>4. QED
      BY <3>2, <3>3
  <2>10. QED
    <3>1. Begun'
      BY <1>e, <2>2 DEF Seeking, Ripping
    <3>2. QED
      BY <1>c, <2>6, <2>7, <2>8, <2>9, <3>1 DEF HeldInv
<1>3. ASSUME RipCopyPid PROVE HeldInv'
  <2>1. pc = "copyPid" /\ i' = i /\ i \in 0 .. listindex /\ listindex >= 1 /\ status' = status
    BY <1>3 DEF RipCopyPid, HeldInv, Indexed, Shifting
  <2>2. CASE i < listindex
    <3>1. /\ dead' = [dead EXCEPT ![i].pid = Slot(i + 1).pid] /\ listindex' = listindex
          /\ pc' = "copyStatus"
      BY <1>a, <1>3, <2>1, <2>2 DEF RipCopyPid, PutPid
    <3>2. Slot(i + 1).pid \in Pids \cup {NoPid}
      BY <1>a, SlotType
    <3>3. /\ \A l \in 0 .. DeadMax - 1 : l # i => dead'[l] = dead[l]
          /\ i < DeadMax => dead'[i].pid = Slot(i + 1).pid
      BY <1>a, <1>3, <2>1, <2>2, <3>2, PutPidAt DEF RipCopyPid
    <3>4. Kept = Live \ {i} /\ Kept' = Kept
      BY <2>1, <2>2, <3>1 DEF Kept, Live, Hole, Shifting
    <3>5. Slot(i + 1)' = Slot(i + 1)
      BY <1>a, <2>1, <3>3 DEF Slot
    <3>6. Indexed'
      BY <1>a, <2>1, <2>2, <3>1, <3>3, <3>5 DEF Indexed
    <3>7. QED
      BY <1>d, <1>f, <2>1, <3>1, <3>3, <3>4, <3>6 DEF Ripping, Shifting
  <2>3. CASE ~(i < listindex)
    <3>1. UNCHANGED <<dead, listindex>> /\ pc' = "clearPid"
      BY <1>3, <2>3 DEF RipCopyPid
    <3>2. Kept' = Kept
      BY <2>1, <3>1 DEF Kept, Live, Hole, Shifting
    <3>3. Indexed'
      BY <1>a, <2>1, <2>3, <3>1 DEF Indexed
    <3>4. QED
      BY <1>f, <2>1, <3>1, <3>2, <3>3 DEF Ripping, Shifting
  <2>4. QED
    BY <2>2, <2>3
<1>4. ASSUME RipCopyStatus PROVE HeldInv'
  <2>1. /\ pc = "copyStatus" /\ pc' = "copyPid" /\ i' = i + 1 /\ listindex' = listindex
        /\ status' = status
        /\ i \in 0 .. listindex - 1 /\ listindex >= 1 /\ dead[i].pid = Slot(i + 1).pid
    BY <1>4 DEF RipCopyStatus, HeldInv, Indexed, Shifting
  <2>2. Slot(i + 1).status \in Status
    BY <1>a, SlotType
  <2>3. \A l \in 0 .. DeadMax - 1 :
            /\ dead'[l].pid = dead[l].pid
            /\ dead'[l].status = IF l = i THEN Slot(i + 1).status ELSE dead[l].status
    BY <1>a, <1>4, <2>2, PutStatusAt DEF RipCopyStatus
  <2>4. Kept = Live \ {i}
    <3>1. Hole = i
      BY <1>a, <2>1 DEF Hole
    <3>2. QED
      BY <2>1, <3>1 DEF Kept, Shifting
  <2>5. Indexed'
    BY <1>a, <2>1 DEF Indexed
  <2>6. CASE i + 1 < listindex
    <3>1. Kept' = Live \ {i + 1}
      BY <1>a, <2>1, <2>6 DEF Kept, Live, Hole, Shifting
    <3>2. Slot(i + 1) = dead[i + 1] /\ i + 1 \in Kept
      BY <1>a, <2>1, <2>4, <2>6 DEF Slot, Live
    <3> DEFINE from(l) == IF l = i THEN i + 1 ELSE l
    <3>3. \A l \in Kept' : /\ from(l) \in Kept
                           /\ dead'[l].pid = dead[from(l)].pid
                           /\ dead'[l].status = dead[from(l)].status
      <4>1. SUFFICES ASSUME NEW l \in Kept'
                     PROVE  /\ from(l) \in Kept
                            /\ dead'[l].pid = dead[from(l)].pid
                            /\ dead'[l].status = dead[from(l)].status
        OBVIOUS
      <4>2. CASE l = i
        BY <1>a, <2>1, <2>3, <2>6, <3>2, <4>2
      <4>3. CASE l # i
        <5>1. l \in Kept /\ l \in 0 .. DeadMax - 1
          BY <1>d, <2>4, <3>1, <4>3
        <5>2. QED
          BY <2>3, <4>3, <5>1
      <4>4. QED
        BY <4>2, <4>3
    <3>4. \A l, m \in Kept' : l # m => from(l) # from(m)
      BY <1>a, <3>1 DEF Live
    <3>5. \A p : Held(p) => Held(p)'
      <4>1. SUFFICES ASSUME NEW p, NEW l \in Kept, dead[l].pid = p PROVE Held(p)'
        BY DEF Held
      <4>2. CASE l = i + 1
        <5>1. i \in Kept' /\ dead'[i].pid = p
          BY <1>a, <2>1, <2>3, <2>6, <3>1, <3>2, <4>1, <4>2 DEF Live
        <5>2. QED
          BY <5>1 DEF Held
      <4>3. CASE l # i + 1
        <5>1. l \in Kept' /\ dead'[l].pid = p
          BY <1>d, <2>3, <2>4, <3>1, <4>1, <4>3
        <5>2. QED
          BY <5>1 DEF Held
      <4>4. QED
        BY <4>2, <4>3
    <3> HIDE DEF from
    <3>6. Once'
      <4>1. \A l \in Kept' : dead'[l].pid # pid
        BY <2>1, <3>3 DEF HeldInv, Once, Held, Shifting
      <4>2. ~Held(pid)'
        BY <1>b, <4>1 DEF Held
      <4>3. \A l \in Kept' : dead'[l].pid \in Pids /\ proc'[dead'[l].pid] # "unborn"
        BY <1>b, <3>3 DEF HeldInv, Once
      <4>4. \A l, m \in Kept' : l # m => dead'[l].pid # dead'[m].pid
        BY <3>3, <3>4 DEF HeldInv, Once
      <4>5. QED
        BY <4>2, <4>3, <4>4 DEF Once
    <3>7. Current'
      BY <1>b, <2>1, <3>3 DEF HeldInv, Current, Members, Seeking, Ripping
    <3>8. Remembered'
      BY <1>b, <2>1, <3>5 DEF HeldInv, Remembered, Members, Seeking, Ripping
    <3>9. Begun' /\ Adding'
      BY <1>e, <2>1 DEF Seeking, Ripping, Adding
    <3>10. QED
      BY <1>c, <2>5, <3>6, <3>7, <3>8, <3>9 DEF HeldInv
  <2>7. CASE ~(i + 1 < listindex)
    <3>1. Kept' = Kept
      BY <1>a, <2>1, <2>4, <2>7 DEF Kept, Live, Hole, Shifting
    <3>2. dead' = [dead EXCEPT ![i].status = Slot(i + 1).status]
      BY <1>a, <1>4, <2>1 DEF RipCopyStatus, PutStatus
    <3>3. \A l \in Kept : dead'[l] = dead[l]
      BY <1>a, <1>d, <2>4, <3>2 DEF DeadList
    <3>4. QED
      BY <1>f, <2>1, <2>5, <3>1, <3>3 DEF Ripping, Shifting
  <2>8. QED
    BY <2>6, <2>7
<1>5. ASSUME RipClearPid PROVE HeldInv'
  <2>1. /\ pc = "clearPid" /\ pc' = "clearStatus" /\ i' = i /\ i = listindex
        /\ listindex >= 1 /\ status' = status
    BY <1>5 DEF RipClearPid, HeldInv, Indexed, Shifting
  <2>2. listindex' = listindex /\ \A l \in 0 .. DeadMax - 1 : l # i => dead'[l] = dead[l]
    BY <1>a, <1>5, PutPidAt DEF RipClearPid, PutPid
  <2>3. Kept' = Kept /\ Indexed'
    BY <1>a, <2>1, <2>2 DEF Kept, Live, Hole, Shifting, Indexed
  <2>4. \A k \in Kept : dead'[k] = dead[k]
    BY <1>a, <1>d, <2>1, <2>2
  <2>5. QED
    BY <1>f, <2>1, <2>3, <2>4 DEF Ripping, Shifting
<1>6. ASSUME RipClearStatus PROVE HeldInv'
  <2>1. /\ pc = "clearStatus" /\ pc' = "load" /\ i' = i /\ i = listindex
        /\ listindex' = listindex /\ listindex >= 1 /\ status' = status
    BY <1>6 DEF RipClearStatus, HeldInv, Indexed, Shifting
  <2>2. dead' = IF i < DeadMax THEN [dead EXCEPT ![i].status = "exit0"] ELSE dead
    BY <1>6 DEF RipClearStatus, PutStatus
  <2>3. Kept' = Kept /\ Indexed'
    BY <1>a, <2>1 DEF Kept, Live, Hole, Shifting, Indexed
  <2>4. \A k \in Kept : dead'[k] = dead[k]
    BY <1>a, <1>d, <2>1, <2>2 DEF DeadList
  <2>5. QED
    BY <1>f, <2>1, <2>3, <2>4 DEF Ripping, Shifting
<1>7. ASSUME RipLoad PROVE HeldInv'
  <2>1. /\ pc = "load" /\ pc' = "store" /\ reg' = listindex /\ i' = i /\ i = listindex
        /\ UNCHANGED <<dead, listindex, status>> /\ listindex >= 1
    BY <1>7 DEF RipLoad, HeldInv, Indexed, Shifting
  <2>2. Kept' = Kept /\ Indexed'
    BY <1>a, <2>1 DEF Kept, Live, Hole, Shifting, Indexed
  <2>3. QED
    BY <1>f, <2>1, <2>2 DEF Ripping, Shifting
<1>8. ASSUME RipStore PROVE HeldInv'
  <2>1. /\ pc = "store" /\ pc' = "collect" /\ listindex' = listindex - 1 /\ i = listindex
        /\ UNCHANGED <<dead, status>> /\ listindex >= 1
    BY <1>8 DEF RipStore, HeldInv, Indexed, Shifting
  <2>2. Kept' = Kept
    BY <1>a, <2>1 DEF Kept, Live, Hole, Shifting
  <2>3. Indexed'
    BY <1>a, <2>1 DEF Indexed, Shifting
  <2>4. QED
    BY <1>f, <2>1, <2>2, <2>3 DEF Ripping, Shifting
<1>9. QED
  BY <1>1, <1>2, <1>3, <1>4, <1>5, <1>6, <1>7, <1>8 DEF RipDead

LEMMA NextHeldInv ==
  ASSUME IsFiniteSet(Pids), Cardinality(Pids) <= DeadMax, "adjacent" \notin Layouts,
         Updates \subseteq Quiet, TypeInv, HeldInv, [Next]_vars
  PROVE  HeldInv'
<1> USE DeadMaxAssumption, FatesAssumption
<1> USE DEF kernel, list, wait, setup
<1>a. /\ dead \in DeadList /\ listindex \in 0 .. DeadMax
      /\ proc \in [Pids -> {"unborn", "running", "stopped", "zombie", "gone"}]
      /\ report \in [Pids -> Status \cup {"none"}]
      /\ job \in Seq(Pids) /\ Members(job) \subseteq Pids
      /\ pc \in Waiting => pid \in Pids
  BY DEF TypeInv, TypeOK, Attached, DeadList, HeldInv, Indexed, Members
<1>b. \A k \in Kept : k \in 0 .. DeadMax - 1 /\ k < listindex
  BY KeptRange
<1>1. ASSUME NEW p \in Pids, Child(p) PROVE HeldInv'
  <2>1. UNCHANGED <<list, wait, pc, handling>>
    BY <1>1 DEF Child, Exit, Stop, Cont, Change
  <2>2. Undisturbed' /\ Reports'
    BY <1>1, <1>a, <2>1
    DEF Child, Exit, Stop, Cont, Change, HeldInv, Undisturbed, Reports, Status
  <2>3. \A q \in Pids : /\ proc'[q] = "gone" <=> proc[q] = "gone"
                        /\ proc'[q] = "unborn" => proc[q] = "unborn"
    BY <1>1, <1>a DEF Child, Exit, Stop, Cont, Change
  <2>4. QED
    BY <2>1, <2>2, <2>3, KernelStep
<1>2. ASSUME HandlerEnter PROVE HeldInv'
  <2>1. UNCHANGED <<proc, report, list, wait, pc>> /\ pc \notin Quiet
    BY <1>2 DEF HandlerEnter
  <2>2. Undisturbed' /\ Reports'
    BY <2>1 DEF HeldInv, Undisturbed, Reports
  <2>3. QED
    BY <2>1, <2>2, KernelStep
<1>3. ASSUME NEW p \in Pids, HandlerReap(p) PROVE HeldInv'
  BY <1>3, ReapHeldInv
<1>4. ASSUME NEW p \in Pids, StartBackground(p) PROVE HeldInv'
  <2>1. /\ UNCHANGED <<report, list, wait, pc, handling>> /\ proc[p] = "unborn"
        /\ proc' = [proc EXCEPT ![p] = "running"]
    BY <1>4 DEF StartBackground, Forked
  <2>2. Undisturbed' /\ Reports'
    BY <1>a, <2>1 DEF HeldInv, Undisturbed, Reports
  <2>3. \A q \in Pids : /\ proc'[q] = "gone" <=> proc[q] = "gone"
                        /\ proc'[q] = "unborn" => proc[q] = "unborn"
    BY <1>a, <2>1
  <2>4. QED
    BY <2>1, <2>2, <2>3, KernelStep
(* Steps that move the main program on and leave the list alone.            *)
<1>c. ASSUME UNCHANGED <<proc, report, dead, listindex, job, exits>>,
             pc \notin Shifting, pc' \notin Shifting
      PROVE  /\ \A p : Held(p)' <=> Held(p)
             /\ Indexed' /\ Once' /\ Reports'
             /\ pc \in Seeking => Current'
             /\ pc \in Seeking \ Ripping /\ pid' = pid => Remembered'
  <2>1. Kept' = Kept
    BY <1>c DEF Kept, Live
  <2>2. /\ \A p : Held(p)' <=> Held(p)
        /\ \A k \in Kept' : dead'[k].pid \in Pids /\ proc'[dead'[k].pid] # "unborn"
        /\ \A k, l \in Kept' : k # l => dead'[k].pid # dead'[l].pid
        /\ pc \in Seeking => Current'
        /\ pc \in Seeking => \A p \in Members(job) : proc'[p] = "gone" /\ p \notin exits =>
               Held(p)' \/ (pc \in Ripping /\ p = pid /\ status \in Ended)
    BY <1>c, <2>1, SameEntries
  <2>3. Indexed' /\ Once' /\ Reports'
    BY <1>a, <1>c, <2>2 DEF HeldInv, Indexed, Once, Reports, Shifting
  <2>4. pc \in Seeking \ Ripping /\ pid' = pid => Remembered'
    BY <1>c, <2>2 DEF Remembered, Members
  <2>5. QED
    BY <2>2, <2>3, <2>4
<1>d. ASSUME pc' = pc \/ (pc' = "rip" /\ pc = "asleep"), UNCHANGED <<proc, report, list, wait>>,
             Undisturbed'
      PROVE  HeldInv'
  <2>1. CASE pc' = pc
    BY <1>d, <2>1, KernelStep DEF HeldInv, Reports
  <2>2. CASE pc' = "rip" /\ pc = "asleep"
    <3>1. Indexed' /\ Once' /\ Reports' /\ Current' /\ Remembered'
      BY <1>c, <1>d, <2>2 DEF Seeking, Ripping, Shifting
    <3>2. Adding' /\ Begun'
      BY <1>d, <2>2 DEF HeldInv, Adding, Begun, Members, Seeking, Waiting
    <3>3. QED
      BY <1>d, <3>1, <3>2 DEF HeldInv
  <2>3. QED
    BY <1>d, <2>1, <2>2
<1>5. ASSUME HandlerExit PROVE HeldInv'
  BY <1>5, <1>d DEF HandlerExit, Woken, Undisturbed
<1>6. ASSUME Interrupt PROVE HeldInv'
  BY <1>6, <1>d DEF Interrupt, Woken, HeldInv, Undisturbed, Updates, Shifting
<1>7. ASSUME CheckOnChildren PROVE HeldInv'
  <2>1. CASE listindex' = listindex
    <3>1. /\ UNCHANGED <<proc, report, dead, listindex, job, exits>>
          /\ pc = "prompt" /\ pc' \in {"drain", "ready"}
      BY <1>7, <2>1 DEF CheckOnChildren
    <3>2. Indexed' /\ Once' /\ Reports'
      BY <1>c, <3>1 DEF Shifting
    <3>3. QED
      BY <3>1, <3>2 DEF HeldInv, Undisturbed, Adding, Current, Remembered, Begun, Updates, Shifting,
                        Seeking, Ripping, Waiting
  <2>2. CASE listindex' = 0
    <3>1. UNCHANGED <<proc, report>> /\ pc' \in {"drain", "ready"}
      BY <1>7 DEF CheckOnChildren
    <3>2. Kept' = {}
      BY <2>2, <3>1 DEF Kept, Live, Shifting
    <3>3. Indexed' /\ Once'
      BY <2>2, <3>1, <3>2 DEF Indexed, Once, Shifting
    <3>4. QED
      BY <3>1, <3>3 DEF HeldInv, Reports, Undisturbed, Adding, Current, Remembered, Begun, Updates,
                        Shifting, Seeking, Ripping, Waiting
  <2>3. QED
    BY <1>7, <2>1, <2>2 DEF CheckOnChildren
<1>8. ASSUME NEW p \in Pids, Drain(p) PROVE HeldInv'
  <2>1. /\ UNCHANGED <<list, wait, handling, pc>> /\ pc = "drain" /\ report[p] # "none"
        /\ report' = [report EXCEPT ![p] = "none"]
        /\ proc' = [proc EXCEPT ![p] = IF @ = "zombie" THEN "gone" ELSE @]
    BY <1>8 DEF Drain, Collected
  <2>2. /\ \A q \in Pids : proc'[q] = "unborn" <=> proc[q] = "unborn"
        /\ Reports'
    BY <1>a, <2>1 DEF HeldInv, Reports
  <2>3. Kept' = Kept
    BY <2>1 DEF Kept, Live, Hole
  <2>4. Indexed' /\ Once'
    BY <2>1, <2>2, <2>3 DEF HeldInv, Indexed, Once, Shifting
  <2>5. QED
    BY <2>1, <2>2, <2>4 DEF HeldInv, Undisturbed, Adding, Current, Remembered, Begun, Updates,
                            Shifting, Seeking, Ripping, Waiting
<1>9. ASSUME ReadCommand \/ EndUnit \/ Return PROVE HeldInv'
  <2>1. /\ UNCHANGED <<proc, report, dead, listindex, job, exits>>
        /\ pc \in {"drain", "ready", "return"} /\ pc' \in {"ready", "prompt"}
    BY <1>9 DEF ReadCommand, EndUnit, Return
  <2>2. Indexed' /\ Once' /\ Reports'
    BY <1>c, <2>1 DEF Shifting
  <2>3. QED
    BY <2>1, <2>2 DEF HeldInv, Undisturbed, Adding, Current, Remembered, Begun, Updates, Shifting,
                      Seeking, Ripping, Waiting
<1>10. ASSUME NEW p \in Pids, StartForeground(p) PROVE HeldInv'
  <2>1. /\ pc \in {"ready", "forking"} /\ pc' = "forking" /\ ~handling' /\ exits' = {}
        /\ UNCHANGED <<report, dead, listindex, i, reg, pid, status>>
        /\ proc[p] = "unborn" /\ proc' = [proc EXCEPT ![p] = "running"]
        /\ job' = IF pc = "ready" THEN <<p>> ELSE Append(job, p)
    BY <1>10 DEF StartForeground, Forked
  <2>2. Members(job)' \subseteq {p} \cup (IF pc = "ready" THEN {} ELSE Members(job))
    BY <1>a, <2>1 DEF Members
  <2>3. \A q \in Pids : /\ proc'[q] = "gone" <=> proc[q] = "gone"
                        /\ proc'[q] = "unborn" => proc[q] = "unborn"
                        /\ q = p => proc'[q] = "running"
    BY <1>a, <2>1
  <2>4. Kept' = Kept /\ \A q : Held(q)' <=> Held(q)
    BY <2>1 DEF Kept, Live, Held, Shifting
  <2>5. Undisturbed' /\ Reports' /\ Indexed' /\ Adding'
    BY <1>a, <2>1 DEF HeldInv, Undisturbed, Reports, Indexed, Adding, Shifting
  <2>6. Once'
    BY <2>1, <2>3, <2>4 DEF HeldInv, Once, Shifting
  <2>7. Current'
    <3>1. SUFFICES ASSUME NEW k \in Kept, dead[k].pid \in Members(job)',
                          proc'[dead[k].pid] = "gone"
                   PROVE  dead[k].status \in Ended
      BY <2>1, <2>4 DEF Current
    <3>2. dead[k].pid \in Pids /\ dead[k].pid # p
      BY <2>3, <3>1 DEF HeldInv, Once
    <3>3. pc = "forking" /\ dead[k].pid \in Members(job) /\ proc[dead[k].pid] = "gone"
      BY <2>1, <2>2, <2>3, <3>1, <3>2
    <3>4. QED
      BY <3>1, <3>3 DEF HeldInv, Current, Seeking
  <2>8. Remembered'
    <3>1. SUFFICES ASSUME NEW q \in Members(job)', proc'[q] = "gone" PROVE Held(q)
      BY <2>4 DEF Remembered
    <3>2. pc = "forking" /\ q \in Members(job) /\ proc[q] = "gone"
      BY <1>a, <2>1, <2>2, <2>3, <3>1
    <3>3. QED
      BY <3>2 DEF HeldInv, Remembered, Begun, Seeking, Ripping
  <2>9. Begun'
    <3>1. \A q \in Members(job)' : proc'[q] # "unborn"
      BY <1>a, <2>1, <2>2, <2>3 DEF HeldInv, Begun
    <3>2. QED
      BY <2>1, <3>1 DEF Begun, Waiting
  <2>10. QED
    BY <2>5, <2>6, <2>7, <2>8, <2>9 DEF HeldInv
<1>11. ASSUME StartWait PROVE HeldInv'
  <2>1. /\ pc = "forking" /\ pc' = "rip" /\ pid' = job[1] /\ ~handling /\ ~handling'
        /\ UNCHANGED <<proc, report, dead, listindex, job, exits>>
    BY <1>11 DEF StartWait
  <2>2. Indexed' /\ Once' /\ Reports' /\ Current' /\ \A p : Held(p)' <=> Held(p)
    BY <1>c, <2>1 DEF Shifting, Seeking
  <2>3. Remembered'
    BY <2>1, <2>2 DEF HeldInv, Remembered, Members, Seeking, Ripping
  <2>4. job[1] \in Members(job)
    BY <1>a, <2>1 DEF Members, TypeInv, Attached
  <2>5. Begun' /\ Adding' /\ Undisturbed'
    BY <2>1, <2>4 DEF HeldInv, Begun, Members, Seeking, Waiting, Adding, Undisturbed
  <2>6. QED
    BY <2>2, <2>3, <2>5 DEF HeldInv
<1>12. ASSUME RipDead PROVE HeldInv'
  BY <1>12, RipHeldInv
<1>13. ASSUME CheckInterrupt \/ Suspend PROVE HeldInv'
  <2>1. /\ pc \in {"sigint", "suspend"} /\ pc' \in {"suspend", "return", "asleep"}
        /\ UNCHANGED <<proc, report, dead, listindex, job, exits, pid>> /\ ~handling'
    BY <1>13 DEF CheckInterrupt, Suspend
  <2>2. Indexed' /\ Once' /\ Reports' /\ Current' /\ Remembered'
    BY <1>c, <2>1 DEF Shifting, Seeking, Ripping
  <2>3. Begun' /\ Adding' /\ Undisturbed'
    BY <2>1 DEF HeldInv, Begun, Members, Seeking, Waiting, Adding, Undisturbed, Updates, Shifting,
                Ripping
  <2>4. QED
    BY <2>2, <2>3 DEF HeldInv
<1>14. ASSUME Collect PROVE HeldInv'
  <2>1. /\ pc = "collect" /\ exits' = Marked /\ ~handling' /\ pid \in Pids
        /\ UNCHANGED <<proc, report, dead, listindex, i, job, status>>
        /\ pc' \in {"note", "killed", "return", "rip"}
        /\ pc' # "rip" => pid' = pid
    <3>1. /\ pc = "collect" /\ exits' = Marked /\ ~handling'
          /\ UNCHANGED <<proc, report, dead, listindex, i, job, status>>
      BY <1>14 DEF Collect
    <3>2. pc' \in {"note", "killed", "return", "rip"} /\ (pc' # "rip" => pid' = pid)
      BY <1>14 DEF Collect
    <3>3. pid \in Pids
      BY <1>a, <3>1 DEF Waiting
    <3>4. QED
      BY <3>1, <3>2, <3>3
  <2>2. pc \in Seeking /\ pc \in Ripping /\ pc \in Waiting /\ pc \notin Shifting
        /\ pc' \notin Shifting
    BY <2>1 DEF Seeking, Ripping, Waiting, Shifting
  <2>3. Kept' = Kept /\ \A p : Held(p)' <=> Held(p)
    BY <2>1, <2>2 DEF Kept, Live, Held
  <2>4. Indexed' /\ Once' /\ Reports' /\ Adding' /\ Undisturbed'
    BY <1>a, <2>1, <2>2, <2>3
    DEF HeldInv, Indexed, Once, Reports, Adding, Undisturbed, Shifting, Updates
  <2>5. Current'
    BY <2>1, <2>2, <2>3 DEF HeldInv, Current, Members
  <2>6. Remembered'
    <3>1. SUFFICES ASSUME NEW p \in Members(job), proc[p] = "gone", p \notin Marked PROVE Held(p)
      BY <2>1, <2>3 DEF Remembered, Members
    <3>2. p \notin exits
      BY <2>2, <3>1 DEF Marked, HeldInv, Begun
    <3>3. ~(p = pid /\ status \in Ended)
      BY <3>1 DEF Marked
    <3>4. QED
      BY <2>2, <3>1, <3>2, <3>3 DEF HeldInv, Remembered
  <2>7. Begun'
    <3>1. \A p \in Members(job)' : proc'[p] # "unborn"
      BY <2>1, <2>2 DEF HeldInv, Begun, Members
    <3>2. pc' = "rip" => pid' \in Members(job)' /\ pid' \notin exits'
      BY <1>14, <2>1 DEF Collect, FirstUnmarked, Members
    <3>3. pc' # "rip" => pid' \in Members(job)'
      BY <2>1, <2>2 DEF HeldInv, Begun, Members
    <3>4. QED
      BY <2>1, <3>1, <3>2, <3>3 DEF Begun, Seeking, Ripping
  <2>8. QED
    BY <2>4, <2>5, <2>6, <2>7 DEF HeldInv
(* Steps of notice_termination(): nothing of the job is claimed any more.   *)
<1>e. ASSUME pc' \notin Seeking, pc' \in Waiting \cup {"return", "crashed"}, pc \in Waiting,
             UNCHANGED <<proc, report, job, pid, handling>>, ~handling
      PROVE  Reports' /\ Undisturbed' /\ Current' /\ Remembered' /\ Begun'
  BY <1>e DEF HeldInv, Reports, Undisturbed, Current, Remembered, Begun, Members, Seeking, Stopped
<1>15. ASSUME NoteSearch PROVE HeldInv'
  <2>1. /\ UNCHANGED <<proc, report, dead, listindex, job, exits, pid, handling>> /\ ~handling
        /\ pc = "note" /\ pc' \in {"noteUpdate", "noteWrite", "return"}
        /\ pc' = "noteWrite" => ~Listed(pid) /\ Room
    BY <1>15 DEF NoteSearch
  <2>2. Indexed' /\ Once' /\ \A p : Held(p)' <=> Held(p)
    BY <1>c, <2>1 DEF Shifting
  <2>3. Reports' /\ Undisturbed' /\ Current' /\ Remembered' /\ Begun'
    BY <1>e, <2>1 DEF Seeking, Ripping, Waiting
  <2>4. Adding'
    <3>1. pc' = "noteWrite" => ~Held(pid)
      BY <1>a, <1>b, <2>1 DEF Held, Kept, Listed, Holds, Slot, Shifting
    <3>2. QED
      BY <2>1, <2>2, <3>1 DEF Adding, Room
  <2>5. QED
    BY <2>2, <2>3, <2>4 DEF HeldInv
<1>16. ASSUME NoteUpdate PROVE HeldInv'
  <2>1. /\ UNCHANGED <<proc, report, listindex, job, exits, i, pid, handling>> /\ ~handling
        /\ pc = "noteUpdate" /\ pc' = "return"
    BY <1>16 DEF NoteUpdate
  <2>2. \A l \in 0 .. DeadMax - 1 : dead'[l].pid = dead[l].pid
    BY <1>a, <1>16, PutStatusAt DEF NoteUpdate, TypeInv, TypeOK
  <2>3. Kept' = Kept
    BY <2>1 DEF Kept, Live, Shifting
  <2>4. Once'
    BY <1>b, <2>1, <2>2, <2>3 DEF HeldInv, Once, Shifting
  <2>5. Reports' /\ Undisturbed' /\ Current' /\ Remembered' /\ Begun'
    BY <1>e, <2>1 DEF Seeking, Ripping, Waiting
  <2>6. Indexed' /\ Adding'
    BY <1>a, <2>1 DEF Indexed, Adding, Shifting
  <2>7. QED
    BY <2>4, <2>5, <2>6 DEF HeldInv
<1>17. ASSUME NoteWrite PROVE HeldInv'
  <2>1. /\ UNCHANGED <<proc, report, listindex, job, exits, i, pid, handling>> /\ ~handling
        /\ pc = "noteWrite" /\ listindex < DeadMax /\ ~Held(pid)
        /\ pc' = "noteStatus" /\ dead' = [dead EXCEPT ![listindex].pid = pid]
    BY <1>17 DEF NoteWrite, HeldInv, Adding
  <2>2. Kept' = Kept
    BY <2>1 DEF Kept, Live, Shifting
  <2>3. (\A k \in Kept : dead'[k] = dead[k]) /\ dead'[listindex].pid = pid
    BY <1>a, <1>b, <2>1 DEF DeadList
  <2>8. \A k \in Kept : dead'[k].pid = dead[k].pid
    BY <2>3
  <2>9. ~Held(pid)'
    BY <2>1, <2>2, <2>8 DEF Held
  <2>4. Once' /\ ~Held(pid)'
    BY <2>1, <2>2, <2>8, <2>9 DEF HeldInv, Once, Shifting
  <2>5. Reports' /\ Undisturbed' /\ Current' /\ Remembered' /\ Begun'
    BY <1>e, <2>1 DEF Seeking, Ripping, Waiting
  <2>6. Indexed' /\ Adding'
    BY <1>a, <2>1, <2>3, <2>4 DEF Indexed, Adding, Shifting
  <2>7. QED
    BY <2>4, <2>5, <2>6 DEF HeldInv
<1>22. ASSUME NoteStatus PROVE HeldInv'
  <2>1. /\ UNCHANGED <<proc, report, listindex, job, exits, i, pid, handling>> /\ ~handling
        /\ pc = "noteStatus" /\ pc' = "noteLoad" /\ listindex \in 0 .. DeadMax - 1
        /\ ~Held(pid) /\ dead[listindex].pid = pid
    BY <1>a, <1>22 DEF NoteStatus, HeldInv, Adding, Indexed
  <2>2. \A l \in 0 .. DeadMax - 1 : dead'[l].pid = dead[l].pid
    BY <1>a, <1>22, <2>1, PutStatusAt DEF NoteStatus, TypeInv, TypeOK
  <2>3. Kept' = Kept
    BY <2>1 DEF Kept, Live, Shifting
  <2>8. \A k \in Kept : dead'[k].pid = dead[k].pid
    BY <1>b, <2>2
  <2>9. ~Held(pid)'
    BY <2>1, <2>3, <2>8 DEF Held
  <2>4. Once' /\ ~Held(pid)'
    BY <2>1, <2>3, <2>8, <2>9 DEF HeldInv, Once, Shifting
  <2>5. Reports' /\ Undisturbed' /\ Current' /\ Remembered' /\ Begun'
    BY <1>e, <2>1 DEF Seeking, Ripping, Waiting
  <2>6. Indexed' /\ Adding'
    BY <1>a, <2>1, <2>2, <2>4 DEF Indexed, Adding, Shifting
  <2>7. QED
    BY <2>4, <2>5, <2>6 DEF HeldInv
<1>18. ASSUME NoteLoad PROVE HeldInv'
  <2>1. /\ UNCHANGED <<proc, report, dead, listindex, job, exits, pid, handling>> /\ ~handling
        /\ pc = "noteLoad" /\ pc' = "noteStore" /\ reg' = listindex
    BY <1>18 DEF NoteLoad
  <2>2. Indexed' /\ Once' /\ \A p : Held(p)' <=> Held(p)
    BY <1>c, <2>1 DEF Shifting
  <2>3. Reports' /\ Undisturbed' /\ Current' /\ Remembered' /\ Begun'
    BY <1>e, <2>1 DEF Seeking, Ripping, Waiting
  <2>4. Adding'
    BY <2>1, <2>2 DEF HeldInv, Adding
  <2>5. QED
    BY <2>2, <2>3, <2>4 DEF HeldInv
<1>19. ASSUME NoteStore PROVE HeldInv'
  <2>1. /\ UNCHANGED <<proc, report, dead, job, exits, pid, handling>> /\ ~handling
        /\ pc = "noteStore" /\ pc' = "return" /\ listindex' = listindex + 1
        /\ listindex < DeadMax /\ ~Held(pid) /\ dead[listindex].pid = pid
    BY <1>19 DEF NoteStore, HeldInv, Adding
  <2>2. Kept' = Kept \cup {listindex}
    BY <1>a, <2>1 DEF Kept, Live, Shifting
  <2>3. Once'
    <3>1. pid \in Pids /\ proc[pid] # "unborn" /\ \A k \in Kept : dead[k].pid # pid
      BY <1>a, <2>1 DEF HeldInv, Begun, Waiting, Held
    <3>2. QED
      BY <2>1, <2>2, <3>1 DEF HeldInv, Once, Shifting
  <2>4. Reports' /\ Undisturbed' /\ Current' /\ Remembered' /\ Begun'
    BY <1>e, <2>1 DEF Seeking, Ripping, Waiting
  <2>5. Indexed' /\ Adding'
    BY <1>a, <2>1 DEF Indexed, Adding, Shifting
  <2>6. QED
    BY <2>3, <2>4, <2>5 DEF HeldInv
<1>20. ASSUME UNCHANGED vars PROVE HeldInv'
  BY <1>20, KernelStep DEF vars, HeldInv, Undisturbed, Reports
<1>21. QED
  BY <1>1, <1>2, <1>3, <1>4, <1>5, <1>6, <1>7, <1>8, <1>9, <1>10, <1>11, <1>12, <1>13, <1>14, <1>15, <1>16, <1>17, <1>18, <1>19, <1>20, <1>22
  DEF Next, Handler, Prompt, Start, WaitOnChild, NoteTermination

(* The child a wait is for is never lost: once the kernel has given it up   *)
(* it is on the dead list until rip_dead() has taken it from there, if the  *)
(* list has a slot for every child, nothing is written behind it and no     *)
(* SIGCHLD comes in the middle of an update (jobs.c:1134-1282).             *)
THEOREM NoneStranded ==
  ASSUME IsFiniteSet(Pids), Cardinality(Pids) <= DeadMax, "adjacent" \notin Layouts,
         Updates \subseteq Quiet
  PROVE  Spec => []NeverStranded
<1>1. TypeInv /\ HeldInv /\ [Next]_vars => HeldInv'
  BY NextHeldInv
<1>2. HeldInv => NeverStranded
  <2>1. SUFFICES ASSUME HeldInv, pc \in {"rip", "sigint", "suspend", "asleep"}, proc[pid] = "gone"
                 PROVE  Listed(pid)
    BY DEF NeverStranded
  <2>2. pid \in Members(job) /\ pid \notin exits /\ Kept = Live /\ pc \in Seeking \ Ripping
    BY <2>1 DEF HeldInv, Begun, Kept, Seeking, Ripping, Waiting, Shifting
  <2>3. Held(pid)
    BY <2>1, <2>2 DEF HeldInv, Remembered
  <2>4. \A k \in Kept : k < DeadMax
    BY <2>1, KeptRange, DeadMaxAssumption
  <2>5. QED
    BY <2>2, <2>3, <2>4 DEF Held, Listed, Holds, Slot
<1>3. QED
  BY InitTypeInv, NextTypeInv, InitHeldInv, <1>1, <1>2, PTL DEF Spec
=============================================================================
