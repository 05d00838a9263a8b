---------------------------- MODULE TableRaces ----------------------------
(***************************************************************************)
(* The jobs table (jobs.c) at the grain at which SIGCHLD_handler() can see *)
(* it.  add_job() copies a job into a slot and numbers it afterwards, and  *)
(* check_on_children() calls remove_job(), which moves the jobs behind the *)
(* removed one down one by one, both with SIGCHLD enabled.  The handler    *)
(* runs between any two of their steps and marks the processes that have   *)
(* ended.  The dead list's own races are the subject of ForegroundWait.    *)
(*                                                                         *)
(* Each of the Lapses makes the table lose something.                      *)
(***************************************************************************)
EXTENDS Integers, Sequences, FiniteSets

CONSTANTS
    MaxPids,     \* bound: how many processes are started, 1 first
    JobSize,     \* bound: the longest pipeline
    MAX_JOBS,
    Lapses       \* what may happen to the table, see LapseNames

LapseNames ==
    {"torn",      \* SIGCHLD in the middle of memcpy()
     "early",     \* a process ends before add_job() has copied its job
     "notify"}    \* a job with the notify flag ends while the table changes

VARIABLES
    slots,       \* jobs_table[]
    total_jobs,
    new,         \* the job do_and_or() hands to add_job()
    deadlist,    \* the pids on the list of dead children
    at,          \* where the main program is
    job, job2,   \* its pointers into the table, as indices
    chunk,       \* how much of a job memcpy() has copied
    entry,       \* its place in the list of dead children
    proc,        \* the kernel's view of each process
    jobs         \* history: the processes of the jobs added and not disowned

place == <<at, job, job2, chunk, entry>>
Pids == 1..MaxPids

racing == <<slots, total_jobs, new, deadlist, place, proc, jobs>>

\* A slot that was never used, or that was freed or left by its job: the count is
\* 0, so that nobody reads what is still in its other fields.
Unused == [num |-> 0, count |-> 0, pids |-> <<>>, exits |-> {}, notify |-> FALSE]

Init ==
    /\ slots = [k \in 1..MAX_JOBS |-> Unused] /\ total_jobs = 0
    /\ new = Unused /\ deadlist = <<>>
    /\ at = "idle" /\ job = 0 /\ job2 = 0 /\ chunk = 0 /\ entry = 0
    /\ proc = [p \in Pids |-> "unborn"] /\ jobs = {}

Complete(j) == Cardinality(j.exits) = j.count

Lowest(ks) == CHOOSE k \in ks : \A l \in ks : k <= l

\* The slots that list p; neither their numbers nor pids behind count are looked at.
Listing(p) == {k \in DOMAIN slots :
                 \E i \in 1..slots[k].count : i \in DOMAIN slots[k].pids /\ slots[k].pids[i] = p}

\* get_job_by_any_pid(), 0 for NULL.
Found(p) == IF Listing(p) = {} THEN 0 ELSE Lowest(Listing(p))

\* remove_job() without interruption: of t's jobs behind k, each moves down one.
Removed(t, k) ==
    [i \in DOMAIN t |->
        IF i >= k /\ i < MAX_JOBS /\ t[i+1].num # 0 THEN t[i+1]
        ELSE IF i = k \/ (i > k /\ t[i].num # 0)    THEN Unused
        ELSE t[i]]

\* memcpy() copies the number and the count, then the pids, then the rest.
Copied(to, from, c) ==
    IF c = 1 THEN [to EXCEPT !.num = from.num, !.count = from.count]
    ELSE IF c = 2 THEN [to EXCEPT !.pids = from.pids]
    ELSE [to EXCEPT !.exits = from.exits, !.notify = from.notify]
-----------------------------------------------------------------------------
(* SIGCHLD_handler() *)

\* SIGCHLD is held back here unless the lapse is allowed.
HeldBack(p, k) ==
    \/ "torn" \notin Lapses /\ at \in {"adding", "shifting"} /\ chunk \in {1, 2}
    \/ "early" \notin Lapses /\ at \in {"forked", "adding"}
       /\ chunk < 3 /\ \E i \in DOMAIN new.pids : new.pids[i] = p
    \/ "notify" \notin Lapses /\ at # "idle" /\ k # 0 /\ slots[k].notify

Marked(j, p) == [j EXCEPT !.exits = @ \cup {i \in 1..j.count : j.pids[i] = p}]

\* p ends and the handler learns of it: the status goes on the list and into
\* the table, and a complete job with the notify flag is removed.
SIGCHLD_handler(p) ==
    LET k == Found(p)
        t == [slots EXCEPT ![k] = Marked(@, p)]
        gone == t[k].notify /\ Complete(t[k])
    IN /\ proc[p] = "running" /\ ~HeldBack(p, k)
       /\ proc' = [proc EXCEPT ![p] = "ended"]
       /\ deadlist' = Append(deadlist, p)
       /\ IF k = 0 THEN UNCHANGED <<slots, total_jobs>>
          ELSE IF gone THEN slots' = Removed(t, k) /\ total_jobs' = total_jobs - 1
          ELSE slots' = t /\ UNCHANGED total_jobs
       /\ UNCHANGED <<new, place, jobs>>
-----------------------------------------------------------------------------
(* A job is added: a background list, or a pipeline that was stopped when *)
(* some of its processes had ended.                                       *)

Started == Cardinality({p \in Pids : proc[p] # "unborn"})

Launch(n, ended) ==
    /\ at = "idle" /\ at' = "forked"
    /\ Started + n <= MaxPids /\ ended # 1..n
    /\ new' = [Unused EXCEPT !.count = n, !.exits = ended,
                            !.pids = [i \in 1..n |-> Started + i]]
    /\ proc' = [p \in Pids |-> IF p - Started \in ended  THEN "ended"
                               ELSE IF p - Started \in 1..n THEN "running"
                               ELSE proc[p]]
    /\ UNCHANGED <<slots, total_jobs, deadlist, job, job2, chunk, entry, jobs>>

\* add_job() looks for a slot without a number; there may be none.
AddFind ==
    /\ at = "forked"
    /\ LET ks == {k \in DOMAIN slots : slots[k].num = 0}
       IN \/ ks = {} /\ at' = "idle" /\ new' = Unused /\ UNCHANGED job
          \/ ks # {} /\ at' = "adding" /\ job' = Lowest(ks) /\ UNCHANGED new
    /\ UNCHANGED <<slots, total_jobs, deadlist, job2, chunk, entry, proc, jobs>>

\* Mutant of AddCopy: a job is new when it is added, and its processes run.
AddCopyFresh ==
    /\ at = "adding" /\ chunk < 3 /\ chunk' = chunk + 1
    /\ slots' = [slots EXCEPT ![job] = Copied(@, [new EXCEPT !.exits = {}], chunk')]
    /\ UNCHANGED <<total_jobs, new, deadlist, at, job, job2, entry, proc, jobs>>

AddCopy ==
    /\ at = "adding" /\ chunk < 3 /\ chunk' = chunk + 1
    /\ slots' = [slots EXCEPT ![job] = Copied(@, new, chunk')]
    /\ UNCHANGED <<total_jobs, new, deadlist, at, job, job2, entry, proc, jobs>>

\* The job's number is the largest in use and one.
AddNumber ==
    /\ at = "adding" /\ chunk = 3 /\ at' = "idle" /\ chunk' = 0
    /\ LET nums == {slots[k].num : k \in DOMAIN slots}
       IN slots' = [slots EXCEPT ![job].num = 1 + CHOOSE n \in nums : \A l \in nums : l <= n]
    /\ total_jobs' = total_jobs + 1
    /\ jobs' = jobs \cup {new.pids} /\ new' = Unused /\ job' = 0
    /\ UNCHANGED <<deadlist, job2, entry, proc>>
-----------------------------------------------------------------------------
(* The builtins block SIGCHLD. *)

Notify(k) ==
    /\ at = "idle" /\ slots[k].num # 0
    /\ slots' = [slots EXCEPT ![k].notify = TRUE]
    /\ UNCHANGED <<total_jobs, new, deadlist, place, proc, jobs>>

Disown(k) ==
    /\ at = "idle" /\ slots[k].num # 0
    /\ slots' = Removed(slots, k) /\ total_jobs' = total_jobs - 1
    /\ jobs' = jobs \ {slots[k].pids}
    /\ UNCHANGED <<new, deadlist, place, proc>>
-----------------------------------------------------------------------------
(* check_on_children() *)

Check ==
    /\ at = "idle" /\ at' = "checking" /\ entry' = 1
    /\ UNCHANGED <<slots, total_jobs, new, deadlist, job, job2, chunk, proc, jobs>>

CheckEntry ==
    /\ at = "checking" /\ entry <= Len(deadlist)
    /\ job' = Found(deadlist[entry])
    /\ IF job' = 0 THEN entry' = entry + 1 /\ UNCHANGED at
                   ELSE at' = "found" /\ UNCHANGED entry
    /\ UNCHANGED <<slots, total_jobs, new, deadlist, job2, chunk, proc, jobs>>

CheckRunning ==
    /\ at = "found" /\ ~Complete(slots[job])
    /\ at' = "checking" /\ entry' = entry + 1 /\ job' = 0
    /\ UNCHANGED <<slots, total_jobs, new, deadlist, job2, chunk, proc, jobs>>

\* free_job(): do_output_status() looks for the job once more.
Remove ==
    /\ at = "found" /\ Complete(slots[job])
    /\ \E k \in {job, Found(deadlist[entry])} \ {0} :
          /\ slots' = [slots EXCEPT ![k] = Unused]
          /\ job' = k /\ job2' = k + 1
    /\ at' = "shifting"
    /\ UNCHANGED <<total_jobs, new, deadlist, chunk, entry, proc, jobs>>

ShiftSkip ==
    /\ at = "shifting" /\ job2 <= MAX_JOBS /\ chunk = 0 /\ slots[job2].num = 0
    /\ job' = job + 1 /\ job2' = job2 + 1
    /\ UNCHANGED <<slots, total_jobs, new, deadlist, at, chunk, entry, proc, jobs>>

ShiftCopy ==
    /\ at = "shifting" /\ job2 <= MAX_JOBS
    /\ chunk > 0 \/ slots[job2].num # 0
    /\ chunk < 3 /\ chunk' = chunk + 1
    /\ slots' = [slots EXCEPT ![job] = Copied(@, slots[job2], chunk')]
    /\ UNCHANGED <<total_jobs, new, deadlist, at, job, job2, entry, proc, jobs>>

ShiftClear ==
    /\ at = "shifting" /\ chunk = 3 /\ chunk' = 0
    /\ slots' = [slots EXCEPT ![job2] = Unused]
    /\ job' = job + 1 /\ job2' = job2 + 1
    /\ UNCHANGED <<total_jobs, new, deadlist, at, entry, proc, jobs>>

ShiftEnd ==
    /\ at = "shifting" /\ job2 > MAX_JOBS
    /\ total_jobs' = total_jobs - 1
    /\ at' = "checking" /\ entry' = entry + 1 /\ job' = 0 /\ job2' = 0
    /\ UNCHANGED <<slots, new, deadlist, chunk, proc, jobs>>

CheckReset ==
    /\ at = "checking" /\ entry > Len(deadlist)
    /\ deadlist' = <<>> /\ at' = "idle" /\ entry' = 0
    /\ UNCHANGED <<slots, total_jobs, new, job, job2, chunk, proc, jobs>>

Next ==
    \/ \E p \in Pids : SIGCHLD_handler(p)
    \/ \E n \in 1..JobSize : \E ended \in SUBSET (1..n) : Launch(n, ended)
    \/ AddFind \/ AddCopy \/ AddNumber
    \/ \E k \in DOMAIN slots : Notify(k) \/ Disown(k)
    \/ Check \/ CheckEntry \/ CheckRunning \/ CheckReset
    \/ Remove \/ ShiftSkip \/ ShiftCopy \/ ShiftClear \/ ShiftEnd

Spec == Init /\ [][Next]_racing
-----------------------------------------------------------------------------
Inhabited == {k \in DOMAIN slots : slots[k].num # 0}
Over(j)   == {i \in DOMAIN j.pids : proc[j.pids[i]] = "ended"}

\* Wherever SIGCHLD came while the table was changed, afterwards its jobs are a
\* prefix of it, numbered upwards and counted, each once; each knows which of
\* its processes have ended, and none that runs has been dropped or replaced.
TableKept ==
    at = "idle" =>
      /\ Inhabited = 1..total_jobs
      /\ \A k, l \in Inhabited :
            k < l => slots[k].num < slots[l].num /\ slots[k].pids # slots[l].pids
      /\ \A k \in Inhabited :
            /\ slots[k].pids \in jobs /\ slots[k].count = Len(slots[k].pids)
            /\ slots[k].exits = Over(slots[k])
      /\ \A ps \in jobs : (\E i \in DOMAIN ps : proc[ps[i]] = "running") =>
            \E k \in Inhabited : slots[k].pids = ps
=============================================================================
