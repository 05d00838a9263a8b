---------------------------- MODULE Jobs_proofs ----------------------------
(***************************************************************************)
(* Proofs about Jobs for every set of children, size of the table, length  *)
(* of a pipeline and choice of builtins: the table stays packed, a process *)
(* is in one job, marked only when it is gone, a job is forgotten only     *)
(* when all of its processes are gone, and wait answers rightly.           *)
(***************************************************************************)
EXTENDS Jobs, FiniteSetTheorems, WellFoundedInduction, TLAPS

JobFlags == {"fg", "control", "notified", "notify", "disowned"}
Job      == [num : Nat, procs : Seq(Pids), count : Nat, exits : SUBSET Pids,
             pgid : Pids \cup {NoPid}, status : Status, flags : SUBSET JobFlags]
Table    == [slots : [Slots -> Job], cur : Nat, prev : Nat, total : 0 .. MaxJobs]

\* G is a set of processes of which nothing more will be heard.
Sane(j, G) == j \in Job /\ j.count <= Len(j.procs) /\ j.exits \subseteq G

\* A table as it should be.
Sound(t, G) ==
    /\ t \in Table
    /\ \A k \in Slots : Sane(t.slots[k], G)
    /\ \A k \in Slots : t.slots[k].num # 0 <=> k <= t.total
    /\ \A k \in Slots : t.slots[k].num = 0 => t.slots[k].count = 0
    /\ \A k, l \in Slots : k < l /\ l <= t.total => t.slots[k].num < t.slots[l].num
    /\ \A k, l \in Slots : k # l => Members(t.slots[k]) \cap Members(t.slots[l]) = {}

\* What makes table t into u forgets only jobs whose processes are gone, and
\* puts no process into it.
SameJob(j, h) == j.num = h.num /\ j.procs = h.procs /\ j.count = h.count
Held(t)       == UNION {Members(t.slots[k]) : k \in Slots}
Keeps(t, u, G) ==
    \A k \in Slots : t.slots[k].num # 0 =>
        \/ \E l \in Slots : SameJob(u.slots[l], t.slots[k])
        \/ Members(t.slots[k]) \subseteq G
Becomes(t, u, G) == Sound(u, G) /\ Held(u) \subseteq Held(t) /\ Keeps(t, u, G)

Gone == {p \in Pids : proc[p] = "gone"}

Kernel ==
    /\ proc \in [Pids -> {"unborn", "running", "stopped", "zombie", "gone"}]
    /\ report \in [Pids -> Status \cup {"none"}]
    /\ delivered \in [Pids -> SUBSET Status]
    /\ \A p \in Pids : report[p] \in Ended <=> proc[p] = "zombie"

\* What the dead list may hold: who is said to have ended has.
Entries(G) == {e \in [pid : Pids, status : Status] : e.status \in Ended => e.pid \in G}
DeadList   == dead \in Seq(Entries(Gone))

NewOne == /\ Sane(newjob, Gone) /\ newjob.count = Len(newjob.procs)
          /\ Members(newjob) \cap Held(tab) = {}
          /\ pc = "forking" => newjob.count >= 1

Born == \A p \in Held(tab) \cup Members(newjob) : proc[p] # "unborn"

Locals == /\ lastStopped \in 0 .. MaxJobs /\ slot \in 0 .. MaxJobs
          /\ i \in Nat \ {0} /\ pid \in Pids \cup {NoPid}
          /\ answer \in Status \cup {"none", "nochild", "interrupted"}
          /\ pc = "waitjob" => slot # 0
          /\ pc \in {"waitpid", "fgwait"} => pid \in Pids

JobsInv == /\ Kernel /\ DeadList /\ Sound(tab, Gone) /\ NewOne /\ Born /\ Locals

\* What an interrupted handler has in hand.
InHand  == [what : {"none", "cur", "prev"}, num : Nat, slot : 0 .. MaxJobs]
HandInv == held \in InHand /\ (~Reentrant => held = Nothing)

-----------------------------------------------------------------------------
(* The library's Min and Max, and a sequence of steps made of a function.    *)

LEMMA Least == ASSUME NEW S, S \subseteq Nat, S # {} PROVE \E m \in S : \A k \in S : m <= k
<1>1. PICK m \in S : \A k \in S : ~(<<k, m>> \in OpToRel(<, Nat))
  BY WFMin, NatLessThanWellFounded
<1>2. \A k \in S : k \in Nat /\ m \in Nat /\ ~(k < m)
  BY <1>1 DEF OpToRel
<1>3. \A k \in S : m <= k
  BY <1>2
<1>4. QED
  BY <1>3

LEMMA LeastIs ==
  ASSUME NEW S, S \subseteq Nat, S # {}
  PROVE  Min(S) \in S /\ \A k \in S : Min(S) <= k
  BY Least DEF Min

LEMMA GreatestIs ==
  ASSUME NEW S, S \subseteq Nat, S # {}, NEW n \in Nat, \A k \in S : k <= n
  PROVE  Max(S) \in S /\ \A k \in S : Max(S) >= k
<1> DEFINE T == {n - k : k \in S}
<1>1. T \subseteq Nat /\ T # {}
  <2>1. \A k \in S : n - k \in Nat
    OBVIOUS
  <2>2. QED
    BY <2>1
<1>2. PICK l \in T : \A k \in T : l <= k
  BY <1>1, Least
<1>3. PICK m \in S : l = n - m
  BY <1>2
<1>4. \A k \in S : n - m <= n - k
  BY <1>2, <1>3
<1>5. \A k \in S : m >= k
  BY <1>4
<1>6. QED
  BY <1>5 DEF Max

LEMMA Induction ==
  ASSUME NEW S \in SUBSET Nat, 0 \in S, \A n \in Nat : n \in S => n + 1 \in S
  PROVE  S = Nat
<1> DEFINE T == Nat \ S
<1>1. SUFFICES ASSUME T # {} PROVE FALSE
  OBVIOUS
<1>2. PICK m \in T : \A k \in T : m <= k
  <2> HIDE DEF T
  <2>1. T \subseteq Nat
    BY DEF T
  <2>2. QED
    BY <1>1, <2>1, Least
<1>3. m # 0 /\ m - 1 \in Nat /\ m - 1 \notin S
  BY <1>2
<1>4. QED
  BY <1>2, <1>3

\* g[m] is what becomes of x when F[1], ... F[m] are applied to it.
IsRun(g, X, F, x, n) ==
    g \in [0 .. n -> X] /\ g[0] = x /\ \A m \in 1 .. n : g[m] = F[m][g[m - 1]]

LEMMA Iterates ==
  ASSUME NEW X, NEW F, F \in [Nat -> [X -> X]], NEW x, x \in X, NEW n, n \in Nat
  PROVE  \E g : IsRun(g, X, F, x, n)
<1> DEFINE Has(k) == \E g \in [0 .. k -> X] : g[0] = x /\ \A m \in 1 .. k : g[m] = F[m][g[m - 1]]
           S == {k \in Nat : Has(k)}
<1>1. Has(0)
  <2> DEFINE g == [m \in 0 .. 0 |-> x]
  <2>1. g \in [0 .. 0 -> X] /\ g[0] = x
    OBVIOUS
  <2>2. \A m \in 1 .. 0 : g[m] = F[m][g[m - 1]]
    OBVIOUS
  <2> HIDE DEF g
  <2>3. QED
    BY <2>1, <2>2
<1>2. ASSUME NEW k \in Nat, Has(k) PROVE Has(k + 1)
  <2>1. PICK g \in [0 .. k -> X] : g[0] = x /\ \A m \in 1 .. k : g[m] = F[m][g[m - 1]]
    BY <1>2
  <2> DEFINE y == F[k + 1][g[k]]
             h == [m \in 0 .. k + 1 |-> IF m = k + 1 THEN y ELSE g[m]]
  <2>2. y \in X
    OBVIOUS
  <2>3. h \in [0 .. k + 1 -> X] /\ h[0] = x
    <3> HIDE DEF y
    <3>1. QED
      BY <2>1, <2>2
  <2>4. ASSUME NEW m \in 1 .. k + 1 PROVE h[m] = F[m][h[m - 1]]
    <3>1. m - 1 \in 0 .. k + 1 /\ m - 1 # k + 1 /\ h[m - 1] = g[m - 1]
      OBVIOUS
    <3>2. CASE m = k + 1
      BY <3>1, <3>2
    <3>3. CASE m # k + 1
      <4>1. m \in 1 .. k /\ h[m] = g[m]
        BY <3>3
      <4> HIDE DEF h
      <4>2. QED
        BY <2>1, <3>1, <4>1
    <3>4. QED
      BY <3>2, <3>3
  <2> HIDE DEF h
  <2>5. QED
    BY <2>3, <2>4
<1> HIDE DEF Has
<1>3. S = Nat
  <2>1. S \in SUBSET Nat /\ 0 \in S
    BY <1>1
  <2>2. \A k \in Nat : k \in S => k + 1 \in S
    BY <1>2
  <2> HIDE DEF S
  <2>3. QED
    BY <2>1, <2>2, Induction
<1>4. Has(n)
  BY <1>3
<1>5. PICK g \in [0 .. n -> X] : g[0] = x /\ \A m \in 1 .. n : g[m] = F[m][g[m - 1]]
  BY <1>4 DEF Has
<1>6. IsRun(g, X, F, x, n)
  BY <1>5 DEF IsRun
<1>7. QED
  BY <1>6

-----------------------------------------------------------------------------
(* What the functions do to one job.                                         *)

LEMMA FlagIs ==
  ASSUME NEW G, NEW j, Sane(j, G), NEW f \in JobFlags
  PROVE  Sane(Flag(j, f), G) /\ SameJob(Flag(j, f), j) /\ Flag(j, f).exits = j.exits
  BY DEF Flag, Sane, SameJob, Job

LEMMA UnflagIs ==
  ASSUME NEW G, NEW j, Sane(j, G), NEW fs
  PROVE  Sane(Unflag(j, fs), G) /\ SameJob(Unflag(j, fs), j) /\ Unflag(j, fs).exits = j.exits
  BY DEF Unflag, Sane, SameJob, Job

LEMMA JobStatusIs ==
  ASSUME NEW G, NEW j, Sane(j, G), NEW p, NEW s \in Status
  PROVE  /\ Sane(SetJobStatus(j, p, s), G) /\ SameJob(SetJobStatus(j, p, s), j)
         /\ SetJobStatus(j, p, s).exits = j.exits
<1>1. CASE Leads(j, p)
  BY <1>1 DEF SetJobStatus, Sane, SameJob, Job
<1>2. CASE ~Leads(j, p)
  BY <1>2 DEF SetJobStatus, Sane, SameJob, Job
<1>3. QED
  BY <1>1, <1>2

LEMMA PidStatusIs ==
  ASSUME NEW G, G \subseteq Pids, NEW j, Sane(j, G), NEW p \in Pids, NEW s \in Status, s \in Ended => p \in G
  PROVE  Sane(SetPidStatus(j, p, s), G) /\ SameJob(SetPidStatus(j, p, s), j)
<1> DEFINE e == IF ~IsIn(j, p) THEN j.exits
                ELSE IF s \in Ended THEN j.exits \cup {p} ELSE j.exits \ {p}
           h == [j EXCEPT !.exits = e]
<1>1. j \in Job /\ j.exits \subseteq G /\ j.count <= Len(j.procs)
  BY DEF Sane
<1>2. e \in SUBSET Pids /\ e \subseteq G
  BY <1>1
<1>3. Sane(h, G) /\ SameJob(h, j)
  <2> HIDE DEF e
  <2>1. QED
    BY <1>1, <1>2 DEF Sane, SameJob, Job
<1>4. SetPidStatus(j, p, s) = IF j.procs = <<>> THEN j ELSE Unflag(h, {"notified"})
  <2>1. [j EXCEPT !.exits = IF ~IsIn(j, p) THEN @
                            ELSE IF s \in Ended THEN @ \cup {p} ELSE @ \ {p}] = h
    BY <1>1 DEF Job
  <2>2. QED
    BY <2>1 DEF SetPidStatus
<1> HIDE DEF h
<1>5. Sane(Unflag(h, {"notified"}), G) /\ SameJob(Unflag(h, {"notified"}), h)
  BY <1>3, UnflagIs
<1>6. QED
  BY <1>3, <1>4, <1>5 DEF SameJob, Sane

LEMMA BookedIs ==
  ASSUME NEW G, G \subseteq Pids, NEW j, Sane(j, G), NEW p \in Pids, NEW s \in Status, s \in Ended => p \in G
  PROVE  /\ Sane(SetJobStatus(SetPidStatus(j, p, s), p, s), G)
         /\ SameJob(SetJobStatus(SetPidStatus(j, p, s), p, s), j)
<1> DEFINE h == SetPidStatus(j, p, s)
<1>1. Sane(h, G) /\ SameJob(h, j)
  BY PidStatusIs
<1> HIDE DEF h
<1>2. Sane(SetJobStatus(h, p, s), G) /\ SameJob(SetJobStatus(h, p, s), h)
  BY <1>1, JobStatusIs
<1>3. SameJob(SetJobStatus(h, p, s), j)
  BY <1>1, <1>2 DEF SameJob
<1>4. QED
  BY <1>2, <1>3 DEF h

LEMMA SignalledIs ==
  ASSUME NEW G, NEW j, Sane(j, G), NEW cont
  PROVE  Sane(Signalled(j, cont), G) /\ SameJob(Signalled(j, cont), j)
  BY UnflagIs DEF Signalled

LEMMA SameMembers == \A j, h : SameJob(j, h) => Members(j) = Members(h) /\ \A p : IsIn(j, p) <=> IsIn(h, p)
  BY DEF SameJob, Members, IsIn

LEMMA MembersAre == \A j, p : p \in Members(j) <=> IsIn(j, p)
  BY DEF Members, IsIn

LEMMA MembersInPids == ASSUME NEW G, NEW j, Sane(j, G) PROVE Members(j) \subseteq Pids
  BY DEF Sane, Job, Members

\* A complete job is one all of whose processes are marked.
LEMMA CompleteIs ==
  ASSUME NEW G, NEW j, Sane(j, G), Complete(j)
  PROVE  Members(j) \subseteq j.exits
<1>1. j.count \in Nat
  BY DEF Sane, Job
<1>2. IsFiniteSet(1 .. j.count) /\ Cardinality(1 .. j.count) = j.count
  <2> DEFINE c == j.count
  <2>1. c \in Int /\ 1 \in Int /\ c >= 0
    BY <1>1
  <2> HIDE DEF c
  <2>2. IsFiniteSet(1 .. c) /\ Cardinality(1 .. c) = IF 1 > c THEN 0 ELSE c - 1 + 1
    BY <2>1, FS_Interval
  <2>3. (IF 1 > c THEN 0 ELSE c - 1 + 1) = c
    BY <2>1
  <2>4. QED
    BY <2>2, <2>3 DEF c
<1>3. Marked(j) \subseteq 1 .. j.count
  BY DEF Marked
<1>4. Marked(j) = 1 .. j.count
  BY <1>2, <1>3, FS_Subset DEF Complete
<1>5. QED
  BY <1>4 DEF Marked, Members

-----------------------------------------------------------------------------
(* What the functions do to the table.                                       *)

LEMMA Slotted == MaxJobs \in Nat /\ MaxJobs >= 1 /\ Slots \subseteq Nat /\ 1 \in Slots
  BY MaxJobsAssumption DEF Slots

LEMMA TableIs ==
  ASSUME NEW t \in Table
  PROVE  /\ t.slots \in [Slots -> Job] /\ t.cur \in Nat /\ t.prev \in Nat /\ t.total \in 0 .. MaxJobs
         /\ t.total \in Nat
         /\ \A k \in Slots : t.slots[k] \in Job /\ t.slots[k].num \in Nat /\ t.slots[k].status \in Status
  BY Slotted DEF Table, Job

LEMMA Remains == ASSUME NEW G, NEW t, Sound(t, G) PROVE Becomes(t, t, G)
  BY DEF Becomes, Keeps, SameJob

LEMMA ThenBecomes ==
  ASSUME NEW G, NEW t, NEW u, NEW v, Becomes(t, u, G), Becomes(u, v, G)
  PROVE  Becomes(t, v, G)
<1>1. SUFFICES ASSUME NEW k \in Slots, t.slots[k].num # 0
               PROVE  \/ \E l \in Slots : SameJob(v.slots[l], t.slots[k])
                      \/ Members(t.slots[k]) \subseteq G
  BY DEF Becomes, Keeps
<1>2. CASE Members(t.slots[k]) \subseteq G
  BY <1>2
<1>3. CASE \E l \in Slots : SameJob(u.slots[l], t.slots[k])
  <2>1. PICK l \in Slots : SameJob(u.slots[l], t.slots[k])
    BY <1>3
  <2>2. u.slots[l].num # 0 /\ Members(u.slots[l]) = Members(t.slots[k])
    BY <1>1, <2>1, SameMembers DEF SameJob
  <2>3. \/ \E m \in Slots : SameJob(v.slots[m], u.slots[l])
        \/ Members(u.slots[l]) \subseteq G
    BY <2>2 DEF Becomes, Keeps
  <2>4. QED
    BY <2>1, <2>2, <2>3 DEF SameJob
<1>4. QED
  BY <1>1, <1>2, <1>3 DEF Becomes, Keeps

LEMMA Relabelled ==
  ASSUME NEW G, NEW t, Sound(t, G), NEW u \in Table, u.total = t.total,
         \A k \in Slots : Sane(u.slots[k], G) /\ SameJob(u.slots[k], t.slots[k])
  PROVE  Becomes(t, u, G)
<1>1. \A k \in Slots : /\ u.slots[k].num = t.slots[k].num /\ u.slots[k].count = t.slots[k].count
                       /\ Members(u.slots[k]) = Members(t.slots[k])
  BY SameMembers DEF SameJob
<1>2. Sound(u, G)
  <2>1. \A k \in Slots : u.slots[k].num # 0 <=> k <= u.total
    BY <1>1 DEF Sound
  <2>2. \A k \in Slots : u.slots[k].num = 0 => u.slots[k].count = 0
    BY <1>1 DEF Sound
  <2>3. \A k, l \in Slots : k < l /\ l <= u.total => u.slots[k].num < u.slots[l].num
    BY <1>1 DEF Sound
  <2>4. \A k, l \in Slots : k # l => Members(u.slots[k]) \cap Members(u.slots[l]) = {}
    BY <1>1 DEF Sound
  <2>5. QED
    BY <2>1, <2>2, <2>3, <2>4 DEF Sound
<1>3. Held(u) = Held(t)
  BY <1>1 DEF Held
<1>4. QED
  BY <1>2, <1>3 DEF Becomes, Keeps

LEMMA Put1 ==
  ASSUME NEW t \in Table, NEW k \in Slots, NEW h \in Job
  PROVE  LET u == [t EXCEPT !.slots[k] = h]
         IN  /\ u \in Table /\ u.total = t.total /\ u.cur = t.cur /\ u.prev = t.prev
             /\ u.slots[k] = h /\ \A l \in Slots : l # k => u.slots[l] = t.slots[l]
<1>1. [t EXCEPT !.slots[k] = h] = [t EXCEPT !.slots = [t.slots EXCEPT ![k] = h]]
  BY DEF Table
<1>2. [t.slots EXCEPT ![k] = h] \in [Slots -> Job]
  BY DEF Table
<1>3. QED
  BY <1>1, <1>2 DEF Table

LEMMA Changed1 ==
  ASSUME NEW G, NEW t, Sound(t, G), NEW k \in Slots, NEW h, Sane(h, G), SameJob(h, t.slots[k])
  PROVE  LET u == [t EXCEPT !.slots[k] = h]
         IN  /\ Becomes(t, u, G) /\ u.slots[k] = h
             /\ \A l \in Slots : l # k => u.slots[l] = t.slots[l]
<1> DEFINE u == [t EXCEPT !.slots[k] = h]
<1>1. t \in Table /\ h \in Job
  BY DEF Sound, Sane
<1>2. /\ u \in Table /\ u.total = t.total
      /\ u.slots[k] = h /\ \A l \in Slots : l # k => u.slots[l] = t.slots[l]
  BY <1>1, Put1
<1>3. \A l \in Slots : Sane(u.slots[l], G) /\ SameJob(u.slots[l], t.slots[l])
  <2> HIDE DEF u
  <2>1. QED
    BY <1>2 DEF Sound, SameJob
<1>4. Becomes(t, u, G)
  <2> HIDE DEF u
  <2>1. QED
    BY <1>2, <1>3, Relabelled
<1>5. QED
  BY <1>2, <1>4

LEMMA PidIsIn ==
  ASSUME NEW t, NEW p
  PROVE  LET k == JobByPid(t, p) IN k = 0 \/ (k \in Slots /\ IsIn(t.slots[k], p))
<1> DEFINE S == {k \in Slots : IsIn(t.slots[k], p)}
<1>1. CASE S = {}
  BY <1>1 DEF JobByPid, FirstOr0
<1>2. CASE S # {}
  <2>1. S \subseteq Nat
    BY Slotted
  <2>2. Min(S) \in S
    <3> HIDE DEF S
    <3>1. QED
      BY <1>2, <2>1, LeastIs
  <2>3. JobByPid(t, p) = Min(S)
    BY <1>2 DEF JobByPid, FirstOr0
  <2>4. QED
    BY <2>2, <2>3
<1>3. QED
  BY <1>1, <1>2

LEMMA ByPidIs ==
  ASSUME NEW G, NEW t, Sound(t, G), NEW p
  PROVE  LET k == JobByPid(t, p) IN k # 0 => k \in Slots /\ t.slots[k].num # 0
<1> DEFINE k == JobByPid(t, p)
<1>1. k = 0 \/ (k \in Slots /\ IsIn(t.slots[k], p))
  BY PidIsIn
<1>2. k # 0 => k \in Slots /\ t.slots[k].count # 0
  <2> HIDE DEF k
  <2>1. QED
    BY <1>1 DEF IsIn
<1>3. QED
  BY <1>2 DEF Sound

-----------------------------------------------------------------------------
(* The current and the previous job.                                         *)

\* n is the number of a job, or 0.
IsNumber(t, n) == n = 0 \/ \E k \in Slots : t.slots[k].num = n

LEMMA LastJobIs ==
  ASSUME NEW t \in Table, NEW older \in Nat, NEW running
  PROVE  LastJob(t, older, running) \in Nat /\ IsNumber(t, LastJob(t, older, running))
<1> DEFINE Fits(s) == IF running THEN Running(s) ELSE Stopped(s)
           S == {t.slots[k].num : k \in {l \in Used(t) : Fits(t.slots[l].status)}}
           T == {n \in S : n < older}
<1>1. S \subseteq Nat /\ \A n \in S : IsNumber(t, n)
  <2>1. \A k \in Used(t) : k \in Slots /\ t.slots[k].num \in Nat
    BY TableIs DEF Used
  <2> HIDE DEF Fits
  <2>2. QED
    BY <2>1 DEF IsNumber
<1>2. LastJob(t, older, running) = IF \E n \in S : n < older THEN Max(T) ELSE 0
  BY DEF LastJob
<1> HIDE DEF S
<1>3. CASE T = {}
  BY <1>2, <1>3 DEF IsNumber
<1>4. CASE T # {}
  <2>1. T \subseteq Nat /\ \A n \in T : n <= older
    <3> HIDE DEF Fits
    <3>1. \A n \in T : n \in Nat /\ n < older
      BY <1>1
    <3>2. QED
      BY <3>1
  <2>2. Max(T) \in T
    <3> HIDE DEF T
    <3>1. QED
      BY <1>4, <2>1, GreatestIs
  <2>3. QED
    BY <1>1, <1>2, <2>2
<1>5. QED
  BY <1>3, <1>4

LEMMA StoppedIs == \A t, n : StoppedJob(t, n) => IsNumber(t, n)
  BY DEF StoppedJob, SlotOf, Used, IsNumber

\* Only the two numbers change; a job that had the current number goes on.
LEMMA SetCurJobIs ==
  ASSUME NEW t \in Table, NEW n \in Nat
  PROVE  LET u == SetCurJob(t, n)
         IN  /\ u \in Table /\ u.slots = t.slots /\ u.total = t.total
             /\ IsNumber(t, n) => IsNumber(t, u.cur) /\ IsNumber(t, u.prev)
<1> DEFINE k      == FirstOr0({l \in Slots : t.slots[l].num = n})
           after  == IF Stopped(t.slots[k].status) THEN LastJob(t, n, FALSE) ELSE 0
           runs   == Running(t.slots[k].status)
           active == LastJob(t, IF runs THEN n ELSE MaxJobs, TRUE)
           best   == IF k = 0 THEN 0 ELSE IF after # 0 THEN after ELSE active
           p      == IF KeepsOld(t, n) THEN OldJob(t, n) ELSE IF best # 0 THEN best ELSE n
<1>1. SetCurJob(t, n) = [t EXCEPT !.cur = n, !.prev = p]
  BY DEF SetCurJob
<1>2. after \in Nat /\ IsNumber(t, after)
  BY LastJobIs DEF IsNumber
<1>3. active \in Nat /\ IsNumber(t, active)
  <2>1. (IF runs THEN n ELSE MaxJobs) \in Nat
    BY Slotted
  <2> HIDE DEF runs
  <2>2. QED
    BY <2>1, LastJobIs
<1>4. OldJob(t, n) \in Nat /\ (KeepsOld(t, n) => IsNumber(t, OldJob(t, n)))
  BY TableIs, StoppedIs DEF OldJob, KeepsOld
<1> HIDE DEF after, active, k
<1>5. best \in Nat /\ IsNumber(t, best)
  BY <1>2, <1>3 DEF IsNumber
<1> HIDE DEF best
<1>6. p \in Nat /\ (IsNumber(t, n) => IsNumber(t, p))
  BY <1>4, <1>5
<1> HIDE DEF p
<1>7. QED
  BY <1>1, <1>6 DEF Table

LEMMA ResetCurJobIs ==
  ASSUME NEW t \in Table
  PROVE  LET u == ResetCurJob(t)
         IN  /\ u \in Table /\ u.slots = t.slots /\ u.total = t.total
             /\ IsNumber(t, u.cur) /\ IsNumber(t, u.prev)
<1> DEFINE stopped == LastJob(t, MaxJobs, FALSE)
           n == IF StoppedCurrent(t) # 0 THEN StoppedCurrent(t)
                ELSE IF stopped # 0 THEN stopped
                ELSE LastJob(t, MaxJobs, TRUE)
<1>1. ResetCurJob(t) = IF n # 0 THEN SetCurJob(t, n) ELSE [t EXCEPT !.cur = 0, !.prev = 0]
  BY DEF ResetCurJob
<1>2. n \in Nat /\ IsNumber(t, n)
  <2>1. stopped \in Nat /\ IsNumber(t, stopped)
    BY LastJobIs, Slotted
  <2>2. LastJob(t, MaxJobs, TRUE) \in Nat /\ IsNumber(t, LastJob(t, MaxJobs, TRUE))
    BY LastJobIs, Slotted
  <2>3. StoppedCurrent(t) \in Nat /\ IsNumber(t, StoppedCurrent(t))
    BY TableIs, StoppedIs DEF StoppedCurrent, IsNumber
  <2> HIDE DEF stopped
  <2>4. QED
    BY <2>1, <2>2, <2>3
<1> HIDE DEF n
<1>3. CASE n # 0
  BY <1>1, <1>2, <1>3, SetCurJobIs
<1>4. CASE n = 0
  <2> DEFINE u == [t EXCEPT !.cur = 0, !.prev = 0]
  <2>1. /\ u \in Table /\ u.slots = t.slots /\ u.total = t.total /\ u.cur = 0 /\ u.prev = 0
    BY DEF Table
  <2>2. ResetCurJob(t) = u
    BY <1>1, <1>4
  <2> HIDE DEF u
  <2>3. QED
    BY <2>1, <2>2 DEF IsNumber
<1>5. QED
  BY <1>3, <1>4

LEMMA SameSlots ==
  ASSUME NEW G, NEW t, Sound(t, G), NEW u \in Table, u.slots = t.slots, u.total = t.total
  PROVE  Becomes(t, u, G)
  BY Relabelled DEF Sound, SameJob

LEMMA CurJobKeeps ==
  ASSUME NEW G, NEW t, Sound(t, G)
  PROVE  Becomes(t, ResetCurJob(t), G) /\ \A n \in Nat : Becomes(t, SetCurJob(t, n), G)
<1>1. t \in Table
  BY DEF Sound
<1>2. Becomes(t, ResetCurJob(t), G)
  BY <1>1, ResetCurJobIs, SameSlots
<1>3. ASSUME NEW n \in Nat PROVE Becomes(t, SetCurJob(t, n), G)
  BY <1>1, SetCurJobIs, SameSlots
<1>4. QED
  BY <1>2, <1>3

-----------------------------------------------------------------------------
(* remove_job() and add_job().                                               *)

\* The slot that has become free.
Emptied(j) == j.num = 0 /\ j.count = 0

LEMMA EmptiedIs ==
  ASSUME NEW G, NEW j, Sane(j, G)
  PROVE  /\ Sane(MovedOut(j), G) /\ Emptied(MovedOut(j))
         /\ Sane(Freed(j), G) /\ Emptied(Freed(j))
<1>1. j \in Job /\ Len(j.procs) \in Nat /\ <<>> \in Seq(Pids) /\ Len(<<>>) = 0
  BY DEF Sane, Job
<1>2. Sane(MovedOut(j), G) /\ Emptied(MovedOut(j))
  <2> DEFINE h == MovedOut(j)
  <2>1. /\ h \in Job /\ h.num = 0 /\ h.count = 0 /\ h.procs = j.procs /\ h.exits = j.exits
    BY <1>1 DEF MovedOut, Job
  <2> HIDE DEF h
  <2>2. Sane(h, G) /\ Emptied(h)
    BY <1>1, <2>1 DEF Sane, Emptied
  <2>3. QED
    BY <2>2 DEF h
<1>3. Sane(Freed(j), G) /\ Emptied(Freed(j))
  <2> DEFINE h == Freed(j)
  <2>1. /\ h \in Job /\ h.num = 0 /\ h.count = 0 /\ h.procs = <<>> /\ h.exits = j.exits
    BY <1>1 DEF Freed, Job
  <2> HIDE DEF h
  <2>2. Sane(h, G) /\ Emptied(h)
    BY <1>1, <2>1 DEF Sane, Emptied
  <2>3. QED
    BY <2>2 DEF h
<1>4. QED
  BY <1>2, <1>3

\* The slots behind k move down by one.
Shifted(was, now, k, n) ==
    /\ \A l \in Slots : l < k \/ l > n => now[l] = was[l]
    /\ \A l \in Slots : k <= l /\ l < n => now[l] = was[l + 1]
    /\ Emptied(now[n])

LEMMA RemoveShifts ==
  ASSUME NEW G, NEW t, Sound(t, G), NEW k \in Slots, t.slots[k].num # 0
  PROVE  LET u == RemoveJob(t, k)
         IN  /\ u \in Table /\ u.total = t.total - 1 /\ k <= t.total /\ t.total \in Slots
             /\ \A l \in Slots : Sane(u.slots[l], G)
             /\ Shifted(t.slots, u.slots, k, t.total)
<1> DEFINE was == t.slots
           n == t.total
           Moves(l) == l > k /\ was[l].num # 0
           now == [l \in Slots |->
                      IF l >= k /\ l < MaxJobs /\ Moves(l + 1) THEN was[l + 1]
                      ELSE IF Moves(l) THEN MovedOut(was[l])
                      ELSE IF l = k THEN Freed(was[l])
                      ELSE was[l]]
           isCur == was[k].num = t.cur
           u == RemoveJob(t, k)
<1>1. u = [slots |-> now, cur |-> IF isCur THEN t.prev ELSE t.cur,
           prev |-> IF isCur THEN 0 ELSE t.prev, total |-> n - 1]
  BY DEF RemoveJob
<1>2. /\ t \in Table /\ n \in Nat /\ MaxJobs \in Nat /\ n <= MaxJobs /\ k \in Nat /\ k >= 1 /\ k <= n
      /\ \A l \in Slots : was[l] \in Job /\ Sane(was[l], G) /\ (was[l].num # 0 <=> l <= n)
      /\ t.cur \in Nat /\ t.prev \in Nat
  BY TableIs, Slotted DEF Sound, Slots
<1>3. n \in Slots /\ \A l : l \in Slots <=> l \in Nat /\ 1 <= l /\ l <= MaxJobs
  BY <1>2 DEF Slots
<1> HIDE DEF u
<1>4. \A l \in Slots : Moves(l) <=> k < l /\ l <= n
  BY <1>2, <1>3
<1>5. \A l \in Slots : now[l] = IF k <= l /\ l < n THEN was[l + 1]
                                ELSE IF l = n THEN IF k < n THEN MovedOut(was[l]) ELSE Freed(was[l])
                                ELSE was[l]
  <2>1. TAKE l \in Slots
  <2>2. now[l] = IF l >= k /\ l < MaxJobs /\ Moves(l + 1) THEN was[l + 1]
                 ELSE IF Moves(l) THEN MovedOut(was[l])
                 ELSE IF l = k THEN Freed(was[l])
                 ELSE was[l]
    BY <2>1
  <2> HIDE DEF now
  <2>3. l \in Nat /\ (l < MaxJobs => l + 1 \in Slots)
    BY <1>2, <1>3
  <2>4. (l >= k /\ l < MaxJobs /\ Moves(l + 1)) <=> (k <= l /\ l < n)
    BY <1>2, <1>3, <1>4, <2>3
  <2> HIDE DEF Moves
  <2>5. QED
    BY <1>2, <1>3, <1>4, <2>2, <2>3, <2>4
<1>6. now = [l \in Slots |-> now[l]]
  OBVIOUS
<1> HIDE DEF now, Moves
<1>7. \A l \in Slots : Sane(now[l], G)
  <2>1. TAKE l \in Slots
  <2>2. CASE k <= l /\ l < n
    <3>1. l + 1 \in Slots
      BY <1>2, <1>3, <2>2
    <3>2. QED
      BY <1>2, <1>5, <2>2, <3>1
  <2>3. CASE l = n
    BY <1>2, <1>5, <2>3, EmptiedIs
  <2>4. CASE ~(k <= l /\ l < n) /\ l # n
    BY <1>2, <1>5, <2>4
  <2>5. QED
    BY <2>2, <2>3, <2>4
<1>8. now \in [Slots -> Job]
  BY <1>6, <1>7 DEF Sane
<1>9. u \in Table
  <2>1. n - 1 \in 0 .. MaxJobs
    BY <1>2
  <2>2. (IF isCur THEN t.prev ELSE t.cur) \in Nat /\ (IF isCur THEN 0 ELSE t.prev) \in Nat
    BY <1>2
  <2> HIDE DEF isCur, n
  <2>3. QED
    BY <1>1, <1>8, <2>1, <2>2 DEF Table
<1>10. u.slots = now /\ u.total = n - 1
  BY <1>1
<1>11. Shifted(was, now, k, n)
  <2>1. Emptied(now[n])
    <3>1. k < n \/ k = n
      BY <1>2
    <3>2. now[n] = MovedOut(was[n]) \/ now[n] = Freed(was[n])
      BY <1>2, <1>3, <1>5, <3>1
    <3>3. QED
      BY <1>2, <1>3, <3>2, EmptiedIs
  <2>2. \A l \in Slots : l < k \/ l > n => now[l] = was[l]
    <3>1. TAKE l \in Slots
    <3>2. HAVE l < k \/ l > n
    <3>3. ~(k <= l /\ l < n) /\ l # n
      BY <1>2, <1>3, <3>2
    <3>4. QED
      BY <1>5, <3>3
  <2>3. \A l \in Slots : k <= l /\ l < n => now[l] = was[l + 1]
    BY <1>5
  <2>4. QED
    BY <2>1, <2>2, <2>3 DEF Shifted
<1>12. QED
  BY <1>2, <1>3, <1>7, <1>9, <1>10, <1>11 DEF u

LEMMA RemoveLeaves ==
  ASSUME NEW G, NEW t, Sound(t, G), NEW k \in Slots, t.slots[k].num # 0
  PROVE  LET u == RemoveJob(t, k)
         IN  /\ Sound(u, G) /\ Held(u) \subseteq Held(t)
             /\ \A l \in Slots : l # k /\ t.slots[l].num # 0 =>
                   \E m \in Slots : u.slots[m] = t.slots[l]
<1> DEFINE n == t.total
           u == RemoveJob(t, k)
           was == t.slots
           now == u.slots
<1>1. /\ u \in Table /\ u.total = n - 1 /\ k <= n /\ n \in Slots
      /\ \A l \in Slots : Sane(now[l], G)
      /\ \A l \in Slots : l < k \/ l > n => now[l] = was[l]
      /\ \A l \in Slots : k <= l /\ l < n => now[l] = was[l + 1]
      /\ now[n].num = 0 /\ now[n].count = 0
  <2>1. /\ u \in Table /\ u.total = n - 1 /\ k <= n /\ n \in Slots
        /\ \A l \in Slots : Sane(now[l], G)
        /\ Shifted(was, now, k, n)
    BY RemoveShifts
  <2> HIDE DEF u, n, was
  <2>2. QED
    BY <2>1 DEF Shifted, Emptied
<1>2. /\ \A l \in Slots : was[l].num # 0 <=> l <= n
      /\ \A l \in Slots : was[l].num = 0 => was[l].count = 0
      /\ \A l, m \in Slots : l < m /\ m <= n => was[l].num < was[m].num
      /\ \A l, m \in Slots : l # m => Members(was[l]) \cap Members(was[m]) = {}
      /\ n \in Nat /\ k \in Nat /\ k >= 1
      /\ \A l : l \in Slots <=> l \in Nat /\ 1 <= l /\ l <= MaxJobs
      /\ Held(t) = UNION {Members(was[l]) : l \in Slots}
      /\ MaxJobs \in Nat
  <2>1. /\ \A l \in Slots : was[l].num # 0 <=> l <= n
        /\ \A l \in Slots : was[l].num = 0 => was[l].count = 0
        /\ \A l, m \in Slots : l < m /\ m <= n => was[l].num < was[m].num
        /\ \A l, m \in Slots : l # m => Members(was[l]) \cap Members(was[m]) = {}
    BY DEF Sound
  <2>2. n \in Nat /\ MaxJobs \in Nat
    BY Slotted, TableIs DEF Sound
  <2>3. k \in Nat /\ k >= 1 /\ \A l : l \in Slots <=> l \in Nat /\ 1 <= l /\ l <= MaxJobs
    BY <2>2 DEF Slots
  <2>4. Held(t) = UNION {Members(was[l]) : l \in Slots}
    BY DEF Held
  <2>5. QED
    BY <2>1, <2>2, <2>3, <2>4
<1>u. Held(u) = UNION {Members(now[l]) : l \in Slots}
  BY DEF Held
<1> HIDE DEF u, was, n, now
\* Which slot each slot has its job from.
<1> DEFINE from(l) == IF k <= l THEN l + 1 ELSE l
<1>3. \A l \in Slots : l < n => from(l) \in Slots /\ from(l) <= n /\ from(l) # k /\ now[l] = was[from(l)]
  BY <1>1, <1>2
<1>4. \A l, m \in Slots : l < m => from(l) < from(m)
  BY <1>2
<1>5. \A l \in Slots : l > n => now[l] = was[l]
  BY <1>1, <1>2
<1>6. \A l \in Slots : l < n \/ l = n \/ l > n
  BY <1>2
<1>m. Members(now[n]) = {}
  BY <1>1 DEF Members
<1> HIDE DEF from
<1>7. \A l \in Slots : now[l].num # 0 <=> l <= n - 1
  <2>1. TAKE l \in Slots
  <2>2. CASE l < n
    <3>1. now[l].num # 0
      BY <1>2, <1>3, <2>2
    <3>2. l <= n - 1
      BY <1>2, <2>2
    <3>3. QED
      BY <3>1, <3>2
  <2>3. CASE l = n
    BY <1>1, <1>2, <2>3
  <2>4. CASE l > n
    BY <1>2, <1>5, <2>4
  <2>5. QED
    BY <1>6, <2>2, <2>3, <2>4
<1>8. \A l \in Slots : now[l].num = 0 => now[l].count = 0
  <2>1. TAKE l \in Slots
  <2>2. CASE l < n
    BY <1>2, <1>3, <2>2
  <2>3. CASE l = n
    BY <1>1, <2>3
  <2>4. CASE l > n
    BY <1>2, <1>5, <2>4
  <2>5. QED
    BY <1>6, <2>2, <2>3, <2>4
<1>9. \A l, m \in Slots : l < m /\ m <= n - 1 => now[l].num < now[m].num
  <2>1. SUFFICES ASSUME NEW l \in Slots, NEW m \in Slots, l < m, m <= n - 1 PROVE now[l].num < now[m].num
    OBVIOUS
  <2>2. l < n /\ m < n
    BY <1>2, <2>1
  <2>3. QED
    BY <1>2, <1>3, <1>4, <2>1, <2>2
<1>10. \A l \in Slots : Members(now[l]) = {} \/ \E a \in Slots : now[l] = was[a] /\ a = IF l < n THEN from(l) ELSE l
  BY <1>3, <1>5, <1>6, <1>m
<1>11. \A l, m \in Slots : l < m => Members(now[l]) \cap Members(now[m]) = {}
  <2>1. SUFFICES ASSUME NEW l \in Slots, NEW m \in Slots, l < m, Members(now[l]) # {}, Members(now[m]) # {}
                 PROVE  Members(now[l]) \cap Members(now[m]) = {}
    OBVIOUS
  <2>2. PICK a \in Slots : now[l] = was[a] /\ a = IF l < n THEN from(l) ELSE l
    BY <1>10, <2>1
  <2>3. PICK b \in Slots : now[m] = was[b] /\ b = IF m < n THEN from(m) ELSE m
    BY <1>10, <2>1
  <2>4. l # n /\ m # n
    BY <1>m, <2>1
  <2>5. a # b
    <3>1. CASE m < n
      BY <1>2, <1>4, <2>1, <2>2, <2>3, <3>1
    <3>2. CASE m > n
      BY <1>2, <1>3, <2>1, <2>2, <2>3, <2>4, <3>2
    <3>3. QED
      BY <1>6, <2>4, <3>1, <3>2
  <2>6. QED
    BY <1>2, <2>2, <2>3, <2>5
<1>12. \A l, m \in Slots : l # m => Members(now[l]) \cap Members(now[m]) = {}
  <2>1. \A l, m \in Slots : l # m => l < m \/ m < l
    BY <1>2
  <2>2. QED
    BY <1>11, <2>1
<1>13. Held(u) \subseteq Held(t)
  BY <1>2, <1>10, <1>u
<1>14. ASSUME NEW l \in Slots, l # k, was[l].num # 0 PROVE \E m \in Slots : now[m] = was[l]
  <2>1. l <= n
    BY <1>2, <1>14
  <2>2. CASE l < k
    BY <1>1, <2>2
  <2>3. CASE l > k
    <3>1. l - 1 \in Slots /\ k <= l - 1 /\ l - 1 < n /\ (l - 1) + 1 = l
      BY <1>2, <2>1, <2>3
    <3>2. now[l - 1] = was[l]
      BY <1>1, <3>1
    <3>3. QED
      BY <3>1, <3>2
  <2>4. QED
    BY <1>2, <1>14, <2>2, <2>3
<1>15. Sound(u, G)
  BY <1>1, <1>7, <1>8, <1>9, <1>12 DEF Sound, now
<1>16. QED
  BY <1>13, <1>14, <1>15 DEF u, now, was

LEMMA Forgotten ==
  ASSUME NEW G, NEW t, Sound(t, G), NEW k \in Slots, t.slots[k].num # 0, Members(t.slots[k]) \subseteq G
  PROVE  Becomes(t, RemoveJob(t, k), G)
<1> DEFINE u == RemoveJob(t, k)
<1>1. /\ Sound(u, G) /\ Held(u) \subseteq Held(t)
      /\ \A l \in Slots : l # k /\ t.slots[l].num # 0 => \E m \in Slots : u.slots[m] = t.slots[l]
  BY RemoveLeaves
<1> HIDE DEF u
<1>2. Keeps(t, u, G)
  BY <1>1 DEF Keeps, SameJob
<1>3. Becomes(t, u, G)
  BY <1>1, <1>2 DEF Becomes
<1>4. QED
  BY <1>3 DEF u

LEMMA CompleteForgotten ==
  ASSUME NEW G, NEW t, Sound(t, G), NEW k \in Slots, t.slots[k].num # 0, Complete(t.slots[k])
  PROVE  Becomes(t, RemoveJob(t, k), G)
<1>1. Sane(t.slots[k], G)
  BY DEF Sound
<1>2. Members(t.slots[k]) \subseteq G
  BY <1>1, CompleteIs DEF Sane
<1>3. QED
  BY <1>2, Forgotten

-----------------------------------------------------------------------------
(* do_output_status(), notice_termination(), check_on_children().            *)

LEMMA OutputKeeps ==
  ASSUME NEW G, NEW t, Sound(t, G), NEW p
  PROVE  Becomes(t, OutputStatus(t, p), G)
<1> DEFINE k == JobByPid(t, p)
           h == Flag(t.slots[k], "notified")
           u == [t EXCEPT !.slots[k] = h]
<1>1. k # 0 => k \in Slots /\ t.slots[k].num # 0
  BY ByPidIs
<1>2. OutputStatus(t, p) = IF k = 0 THEN t ELSE IF Complete(u.slots[k]) THEN RemoveJob(u, k) ELSE u
  <2>1. k # 0 => [t EXCEPT !.slots[k] = Flag(@, "notified")] = u
    BY <1>1 DEF Sound, Table
  <2>2. QED
    BY <2>1 DEF OutputStatus
<1> HIDE DEF k
<1>3. CASE k = 0
  BY <1>2, <1>3, Remains
<1>4. CASE k # 0
  <2>1. k \in Slots /\ t.slots[k].num # 0 /\ Sane(t.slots[k], G) /\ "notified" \in JobFlags
    BY <1>1, <1>4 DEF Sound, JobFlags
  <2>2. Sane(h, G) /\ SameJob(h, t.slots[k])
    BY <2>1, FlagIs
  <2> HIDE DEF h
  <2>3. Becomes(t, u, G) /\ u.slots[k] = h
    BY <2>1, <2>2, Changed1
  <2> HIDE DEF u
  <2>4. Sound(u, G) /\ u.slots[k].num # 0
    BY <2>1, <2>2, <2>3 DEF Becomes, SameJob
  <2>5. CASE Complete(u.slots[k])
    <3>1. Becomes(u, RemoveJob(u, k), G)
      BY <2>1, <2>4, <2>5, CompleteForgotten
    <3>2. QED
      BY <1>2, <1>4, <2>3, <2>5, <3>1, ThenBecomes
  <2>6. CASE ~Complete(u.slots[k])
    BY <1>2, <1>4, <2>3, <2>6
  <2>7. QED
    BY <2>5, <2>6
<1>5. QED
  BY <1>3, <1>4

LEMMA NoticeKeeps ==
  ASSUME NEW G, G \subseteq Pids, NEW t, Sound(t, G), NEW p \in Pids, NEW s \in Status, s \in Ended => p \in G
  PROVE  Becomes(t, Notice(t, p, s), G)
<1> DEFINE u == IF atOnce THEN OutputStatus(t, p) ELSE t
           k == JobByPid(u, p)
           h == SetJobStatus(SetPidStatus(u.slots[k], p, s), p, s)
           v == [u EXCEPT !.slots[k] = h]
           told == Flagged(v.slots[k], "control") /\ ~atOnce /\ Flagged(v.slots[k], "notify")
<1>1. Becomes(t, u, G)
  BY OutputKeeps, Remains
<1> HIDE DEF u
<1>2. Sound(u, G)
  BY <1>1 DEF Becomes
<1>3. k # 0 => k \in Slots /\ u.slots[k].num # 0
  BY <1>2, ByPidIs
<1>4. Notice(t, p, s) = IF k = 0 THEN u ELSE IF told THEN OutputStatus(v, p) ELSE v
  <2>1. k # 0 => [u EXCEPT !.slots[k] = SetJobStatus(SetPidStatus(@, p, s), p, s)] = v
    BY <1>2, <1>3 DEF Sound, Table
  <2>2. QED
    BY <2>1 DEF Notice, u
<1> HIDE DEF k
<1>5. CASE k = 0
  BY <1>1, <1>4, <1>5
<1>6. CASE k # 0
  <2>1. k \in Slots /\ Sane(u.slots[k], G)
    BY <1>2, <1>3, <1>6 DEF Sound
  <2>2. Sane(h, G) /\ SameJob(h, u.slots[k])
    BY <2>1, BookedIs
  <2> HIDE DEF h
  <2>3. Becomes(u, v, G)
    BY <1>2, <2>1, <2>2, Changed1
  <2> HIDE DEF v
  <2>4. Becomes(v, OutputStatus(v, p), G)
    BY <2>3, OutputKeeps DEF Becomes
  <2> HIDE DEF told
  <2>5. Becomes(t, v, G) /\ Becomes(t, OutputStatus(v, p), G)
    BY <1>1, <2>3, <2>4, ThenBecomes
  <2>6. QED
    BY <1>4, <1>6, <2>5
<1>7. QED
  BY <1>5, <1>6

LEMMA LookKeeps ==
  ASSUME NEW G, Sound(tab, G), NEW p, NEW s \in Status, NEW controlled
  PROVE  Becomes(tab, Look(p, s, controlled), G)
<1> DEFINE k == JobByPid(tab, p)
           h == SetJobStatus(tab.slots[k], p, s)
           t == [tab EXCEPT !.slots[k] = h]
<1>1. k # 0 => k \in Slots /\ tab.slots[k].num # 0
  BY ByPidIs
<1>2. /\ Look(p, s, controlled) \in {tab, OutputStatus(t, p), RemoveJob(t, k), t}
      /\ k = 0 => Look(p, s, controlled) = tab
      /\ Look(p, s, controlled) = RemoveJob(t, k) =>
            Complete(tab.slots[k]) \/ Look(p, s, controlled) \in {tab, OutputStatus(t, p), t}
  <2>1. k # 0 => [tab EXCEPT !.slots[k] = SetJobStatus(@, p, s)] = t
    BY <1>1 DEF Sound, Table
  <2>2. QED
    BY <2>1 DEF Look
<1> HIDE DEF k
<1>3. CASE k = 0
  BY <1>2, <1>3, Remains
<1>4. CASE k # 0
  <2>1. k \in Slots /\ tab.slots[k].num # 0 /\ Sane(tab.slots[k], G)
    BY <1>1, <1>4 DEF Sound
  <2>2. Sane(h, G) /\ SameJob(h, tab.slots[k]) /\ h.exits = tab.slots[k].exits
    BY <2>1, JobStatusIs
  <2> HIDE DEF h
  <2>3. Becomes(tab, t, G) /\ t.slots[k] = h
    BY <2>1, <2>2, Changed1
  <2> HIDE DEF t
  <2>4. Sound(t, G) /\ t.slots[k].num # 0
    BY <2>1, <2>2, <2>3 DEF Becomes, SameJob
  <2>5. Becomes(tab, OutputStatus(t, p), G)
    BY <2>3, <2>4, OutputKeeps, ThenBecomes
  <2>6. Complete(tab.slots[k]) => Complete(t.slots[k])
    BY <2>2, <2>3 DEF Complete, Marked, SameJob
  <2>7. Complete(tab.slots[k]) => Becomes(tab, RemoveJob(t, k), G)
    BY <2>1, <2>3, <2>4, <2>6, CompleteForgotten, ThenBecomes
  <2>8. QED
    BY <1>2, <2>3, <2>5, <2>7, Remains
<1>5. QED
  BY <1>3, <1>4

-----------------------------------------------------------------------------
(* The loops over the table: remove_dead_jobs(), disown -a and jobs.         *)

LEMMA StaysIn ==
  ASSUME NEW X, NEW n \in Nat, NEW g, g[0] \in X,
         \A m \in 1 .. n : g[m - 1] \in X => g[m] \in X
  PROVE  g[n] \in X
<1> DEFINE S == {m \in Nat : m <= n => g[m] \in X}
<1>1. S \in SUBSET Nat /\ 0 \in S
  OBVIOUS
<1>2. ASSUME NEW m \in Nat, m \in S PROVE m + 1 \in S
  <2>1. SUFFICES ASSUME m + 1 <= n PROVE g[m + 1] \in X
    OBVIOUS
  <2>2. m <= n /\ m + 1 \in 1 .. n /\ (m + 1) - 1 = m
    BY <2>1
  <2>3. g[m] \in X
    BY <1>2, <2>2
  <2>4. QED
    BY <2>2, <2>3
<1> HIDE DEF S
<1>3. S = Nat
  BY <1>1, <1>2, Induction
<1>4. QED
  BY <1>3 DEF S

\* One round of remove_dead_jobs().
Round(u) == IF Reported(u) = {} THEN u ELSE RemoveJob(u, Min(Reported(u)))

LEMMA RoundKeeps ==
  ASSUME NEW G, NEW u, Sound(u, G)
  PROVE  Becomes(u, Round(u), G)
<1>1. CASE Reported(u) = {}
  BY <1>1, Remains DEF Round
<1>2. CASE Reported(u) # {}
  <2>1. Reported(u) \subseteq Nat
    BY Slotted DEF Reported, Used
  <2>2. Min(Reported(u)) \in Reported(u)
    BY <1>2, <2>1, LeastIs
  <2> DEFINE k == Min(Reported(u))
  <2>3. k \in Slots /\ u.slots[k].num # 0 /\ Complete(u.slots[k])
    BY <2>2 DEF Reported, Used
  <2> HIDE DEF k
  <2>4. Becomes(u, RemoveJob(u, k), G)
    BY <2>3, CompleteForgotten
  <2>5. QED
    BY <1>2, <2>4 DEF Round, k
<1>3. QED
  BY <1>1, <1>2

\* What every round keeps, remove_dead_jobs() keeps.
LEMMA RemoveDeadIn ==
  ASSUME NEW X, NEW t \in X, \A u \in X : Round(u) \in X
  PROVE  RemoveDead(t) \in X
<1> DEFINE F == [m \in Nat |-> [u \in X |-> Round(u)]]
<1>3. MaxJobs \in Nat
  BY Slotted
<1>4. F \in [Nat -> [X -> X]]
  OBVIOUS
<1>5. PICK g : IsRun(g, X, F, t, MaxJobs)
  <2> HIDE DEF F
  <2>1. QED
    BY <1>3, <1>4, Iterates
<1>6. g = [m \in 0 .. MaxJobs |-> IF m = 0 THEN t ELSE Round(g[m - 1])]
  <2>1. \A m \in 0 .. MaxJobs : g[m] = IF m = 0 THEN t ELSE Round(g[m - 1])
    <3>1. TAKE m \in 0 .. MaxJobs
    <3>2. g[m] = IF m = 0 THEN t ELSE F[m][g[m - 1]]
      <4>1. m = 0 \/ m \in 1 .. MaxJobs
        BY <1>3
      <4> HIDE DEF F
      <4>2. QED
        BY <1>5, <4>1 DEF IsRun
    <3>3. m # 0 => m - 1 \in 0 .. MaxJobs
      BY <1>3
    <3>4. m # 0 => g[m - 1] \in X
      BY <1>5, <3>3 DEF IsRun
    <3>5. m # 0 => F[m][g[m - 1]] = Round(g[m - 1])
      BY <1>3, <3>4
    <3>6. QED
      BY <3>2, <3>5
  <2>2. g = [m \in 0 .. MaxJobs |-> g[m]]
    BY <1>5 DEF IsRun
  <2>3. QED
    BY <2>1, <2>2
<1> DEFINE f == CHOOSE f : f = [m \in 0 .. MaxJobs |-> IF m = 0 THEN t ELSE Round(f[m - 1])]
<1>7. f = [m \in 0 .. MaxJobs |-> IF m = 0 THEN t ELSE Round(f[m - 1])]
  BY <1>6
<1>8. RemoveDead(t) = f[MaxJobs]
  BY DEF RemoveDead, Round
<1> HIDE DEF f
<1>9. f[MaxJobs] \in X
  <2>1. f[0] \in X
    BY <1>3, <1>7
  <2>2. \A m \in 1 .. MaxJobs : f[m] = Round(f[m - 1])
    BY <1>3, <1>7
  <2>3. \A m \in 1 .. MaxJobs : f[m - 1] \in X => f[m] \in X
    BY <2>2
  <2>4. QED
    BY <1>3, <2>1, <2>3, StaysIn
<1>10. QED
  BY <1>8, <1>9

LEMMA RemoveDeadKeeps ==
  ASSUME NEW G, NEW t, Sound(t, G)
  PROVE  Becomes(t, RemoveDead(t), G)
<1> DEFINE X == {u \in Table : Becomes(t, u, G)}
<1>1. t \in X
  BY Remains DEF Sound
<1>2. \A u \in X : Round(u) \in X
  <2>1. TAKE u \in X
  <2>2. Becomes(t, u, G) /\ Sound(u, G)
    BY DEF Becomes
  <2>3. Becomes(t, Round(u), G)
    BY <2>2, RoundKeeps, ThenBecomes
  <2>4. QED
    BY <2>3 DEF Becomes, Sound
<1> HIDE DEF X
<1>3. RemoveDead(t) \in X
  BY <1>1, <1>2, RemoveDeadIn
<1>4. QED
  BY <1>3 DEF X

LEMMA DisownJobIs ==
  ASSUME NEW G, NEW t, Sound(t, G), NEW k \in Slots, t.slots[k].num # 0, NEW nohup, NEW filter
  PROVE  LET u == DisownJob(t, k, nohup, filter)
         IN  /\ Sound(u, G) /\ Held(u) \subseteq Held(t)
             /\ nohup => Becomes(t, u, G)
<1> DEFINE h == Flag(t.slots[k], "disowned")
           v == [t EXCEPT !.slots[k] = h]
           w == RemoveJob(t, k)
<1>1. \/ DisownJob(t, k, nohup, filter) = t
      \/ nohup /\ DisownJob(t, k, nohup, filter) = v
      \/ ~nohup /\ DisownJob(t, k, nohup, filter) = w
  <2>1. [t EXCEPT !.slots[k] = Flag(@, "disowned")] = v
    BY DEF Sound, Table
  <2>2. QED
    BY <2>1 DEF DisownJob
<1>2. Becomes(t, t, G) /\ Held(t) \subseteq Held(t)
  BY Remains
<1>3. Becomes(t, v, G)
  <2>1. Sane(t.slots[k], G) /\ "disowned" \in JobFlags
    BY DEF Sound, JobFlags
  <2>2. Sane(h, G) /\ SameJob(h, t.slots[k])
    BY <2>1, FlagIs
  <2> HIDE DEF h
  <2>3. QED
    BY <2>2, Changed1
<1>4. Sound(w, G) /\ Held(w) \subseteq Held(t)
  BY RemoveLeaves
<1> HIDE DEF v, w
<1>5. QED
  BY <1>1, <1>2, <1>3, <1>4 DEF Becomes

\* One round of disown -a, -r and -s.
DisownRound(u, k, nohup, filter) ==
    IF u.slots[k].num = 0 THEN u ELSE DisownJob(u, k, nohup, filter)

LEMMA DisownJobsIn ==
  ASSUME NEW X, tab \in X, NEW nohup, NEW filter,
         \A k \in Slots : \A u \in X : DisownRound(u, k, nohup, filter) \in X
  PROVE  DisownJobs(nohup, filter) \in X
<1> DEFINE Does(k, u) == DisownRound(u, k, nohup, filter)
           F == [k \in Nat |-> [u \in X |-> IF k \in Slots THEN Does(k, u) ELSE u]]
<1>1. \A k \in Slots : \A u \in X : Does(k, u) \in X
  OBVIOUS
<1>3. MaxJobs \in Nat /\ \A k : k \in Slots <=> k \in 1 .. MaxJobs
  BY Slotted DEF Slots
<1> HIDE DEF Does
<1>4. F \in [Nat -> [X -> X]]
  BY <1>1
<1>5. PICK g : IsRun(g, X, F, tab, MaxJobs)
  <2> HIDE DEF F
  <2>1. QED
    BY <1>3, <1>4, Iterates
<1>6. g = [k \in 0 .. MaxJobs |-> IF k = 0 THEN tab ELSE Does(k, g[k - 1])]
  <2>1. \A k \in 0 .. MaxJobs : g[k] = IF k = 0 THEN tab ELSE Does(k, g[k - 1])
    <3>1. TAKE k \in 0 .. MaxJobs
    <3>2. g[k] = IF k = 0 THEN tab ELSE F[k][g[k - 1]]
      <4>1. k = 0 \/ k \in 1 .. MaxJobs
        BY <1>3
      <4> HIDE DEF F
      <4>2. QED
        BY <1>5, <4>1 DEF IsRun
    <3>3. k # 0 => k \in Nat /\ k \in Slots /\ k - 1 \in 0 .. MaxJobs
      BY <1>3
    <3>4. k # 0 => g[k - 1] \in X
      BY <1>5, <3>3 DEF IsRun
    <3>5. k # 0 => F[k][g[k - 1]] = Does(k, g[k - 1])
      BY <3>3, <3>4
    <3>6. QED
      BY <3>2, <3>5
  <2>2. g = [k \in 0 .. MaxJobs |-> g[k]]
    BY <1>5 DEF IsRun
  <2>3. QED
    BY <2>1, <2>2
<1> DEFINE f == CHOOSE f : f = [k \in 0 .. MaxJobs |-> IF k = 0 THEN tab ELSE Does(k, f[k - 1])]
<1>7. f = [k \in 0 .. MaxJobs |-> IF k = 0 THEN tab ELSE Does(k, f[k - 1])]
  BY <1>6
<1>8. DisownJobs(nohup, filter) = f[MaxJobs]
  BY DEF DisownJobs, DisownRound, Does
<1> HIDE DEF f
<1>9. f[MaxJobs] \in X
  <2>1. f[0] \in X
    BY <1>3, <1>7
  <2>2. \A k \in 1 .. MaxJobs : f[k] = Does(k, f[k - 1])
    BY <1>3, <1>7
  <2>3. \A k \in 1 .. MaxJobs : f[k - 1] \in X => f[k] \in X
    BY <1>1, <1>3, <2>2
  <2>4. QED
    BY <1>3, <2>1, <2>3, StaysIn
<1>10. QED
  BY <1>8, <1>9

LEMMA DisownJobsIs ==
  ASSUME NEW G, Sound(tab, G), NEW nohup, NEW filter
  PROVE  LET u == DisownJobs(nohup, filter)
         IN  /\ Sound(u, G) /\ Held(u) \subseteq Held(tab)
             /\ nohup => Becomes(tab, u, G)
<1> DEFINE Does(k, u) == DisownRound(u, k, nohup, filter)
           X == {u \in Table : /\ Sound(u, G) /\ Held(u) \subseteq Held(tab)
                               /\ nohup => Becomes(tab, u, G)}
<1>1. tab \in X
  BY Remains DEF Sound
<1>2. \A k \in Slots : \A u \in X : Does(k, u) \in X
  <2>1. TAKE k \in Slots
  <2> TAKE u \in X
  <2>2. CASE u.slots[k].num = 0
    BY <2>2 DEF DisownRound
  <2>3. CASE u.slots[k].num # 0
    <3> DEFINE v == DisownJob(u, k, nohup, filter)
    <3>1. Sound(v, G) /\ Held(v) \subseteq Held(u) /\ (nohup => Becomes(u, v, G))
      BY <2>3, DisownJobIs
    <3>2. Does(k, u) = v
      BY <2>3 DEF DisownRound
    <3> HIDE DEF v
    <3>3. nohup => Becomes(tab, v, G)
      BY <3>1, ThenBecomes
    <3>4. QED
      BY <3>1, <3>2, <3>3 DEF Sound
  <2>4. QED
    BY <2>2, <2>3
<1> HIDE DEF X
<1>3. DisownJobs(nohup, filter) \in X
  BY <1>1, <1>2, DisownJobsIn
<1>4. QED
  BY <1>3 DEF X

\* update_job_exit_status() on the n-th process of j.
UpdateRound(j, n, u) ==
    IF j.procs[n] \in DeadMembers
    THEN SetJobStatus(SetPidStatus(u, j.procs[n], report[j.procs[n]]), j.procs[n], report[j.procs[n]])
    ELSE u

\* The states j goes through.
IsUpdate(g, j) == /\ g[0] = j /\ \A n \in 1 .. j.count : g[n] = UpdateRound(j, n, g[n - 1])
                  /\ Updated(j) = Flag(g[j.count], "notified")

LEMMA UpdatedRuns ==
  ASSUME NEW X, NEW j \in X, j.count \in Nat, \A n, u : u \in X => UpdateRound(j, n, u) \in X
  PROVE  \E g : IsUpdate(g, j) /\ g[j.count] \in X
<1> DEFINE F == [n \in Nat |-> [u \in X |-> UpdateRound(j, n, u)]]
           c == j.count
<1>3. c \in Nat
  OBVIOUS
<1>4. F \in [Nat -> [X -> X]]
  OBVIOUS
<1>5. PICK g : IsRun(g, X, F, j, c)
  <2> HIDE DEF F
  <2>1. QED
    BY <1>3, <1>4, Iterates
<1>6. g = [n \in 0 .. c |-> IF n = 0 THEN j ELSE UpdateRound(j, n, g[n - 1])]
  <2>1. \A n \in 0 .. c : g[n] = IF n = 0 THEN j ELSE UpdateRound(j, n, g[n - 1])
    <3>1. TAKE n \in 0 .. c
    <3>2. g[n] = IF n = 0 THEN j ELSE F[n][g[n - 1]]
      <4>1. n = 0 \/ n \in 1 .. c
        BY <1>3
      <4> HIDE DEF F
      <4>2. QED
        BY <1>5, <4>1 DEF IsRun
    <3>3. n # 0 => n \in Nat /\ n - 1 \in 0 .. c
      BY <1>3
    <3>4. n # 0 => g[n - 1] \in X
      BY <1>5, <3>3 DEF IsRun
    <3>5. n # 0 => F[n][g[n - 1]] = UpdateRound(j, n, g[n - 1])
      BY <3>3, <3>4
    <3>6. QED
      BY <3>2, <3>5
  <2>2. g = [n \in 0 .. c |-> g[n]]
    BY <1>5 DEF IsRun
  <2>3. QED
    BY <2>1, <2>2
<1> DEFINE f == CHOOSE f : f = [n \in 0 .. c |-> IF n = 0 THEN j ELSE UpdateRound(j, n, f[n - 1])]
<1>7. f = [n \in 0 .. c |-> IF n = 0 THEN j ELSE UpdateRound(j, n, f[n - 1])]
  BY <1>6
<1>8. Updated(j) = Flag(f[c], "notified")
  BY DEF Updated, UpdateRound
<1> HIDE DEF f
<1>9. f[0] = j /\ \A n \in 1 .. c : f[n] = UpdateRound(j, n, f[n - 1])
  BY <1>3, <1>7
<1>10. f[c] \in X
  <2>1. f[0] \in X
    BY <1>9
  <2>2. \A n \in 1 .. c : f[n - 1] \in X => f[n] \in X
    BY <1>9
  <2>3. QED
    BY <1>3, <2>1, <2>2, StaysIn
<1>11. QED
  BY <1>8, <1>9, <1>10 DEF IsUpdate

LEMMA UpdatedIs ==
  ASSUME NEW G, G \subseteq Pids, NEW j, Sane(j, G),
         \A p \in DeadMembers : p \in G /\ report[p] \in Status
  PROVE  Sane(Updated(j), G) /\ SameJob(Updated(j), j)
<1> DEFINE X == {u \in Job : Sane(u, G) /\ SameJob(u, j)}
<1>1. j \in X
  BY DEF Sane, SameJob
<1>2. \A n, u : u \in X => UpdateRound(j, n, u) \in X
  <2>1. SUFFICES ASSUME NEW n, NEW u \in X PROVE UpdateRound(j, n, u) \in X
    OBVIOUS
  <2> DEFINE p == j.procs[n]
  <2>2. CASE p \in DeadMembers
    <3> DEFINE v == SetJobStatus(SetPidStatus(u, p, report[p]), p, report[p])
    <3>1. p \in Pids /\ p \in G /\ report[p] \in Status
      BY <2>2
    <3> HIDE DEF p
    <3>2. Sane(v, G) /\ SameJob(v, u)
      BY <3>1, BookedIs
    <3>3. UpdateRound(j, n, u) = v
      BY <2>2 DEF UpdateRound, p
    <3> HIDE DEF v
    <3>4. v \in Job /\ SameJob(v, j)
      BY <3>2 DEF SameJob, Sane
    <3>5. QED
      BY <3>2, <3>3, <3>4
  <2>3. CASE p \notin DeadMembers
    BY <2>3 DEF UpdateRound
  <2>4. QED
    BY <2>2, <2>3
<1>3. j.count \in Nat
  BY DEF Sane, Job
<1> HIDE DEF X
<1>4. PICK g : IsUpdate(g, j) /\ g[j.count] \in X
  BY <1>1, <1>2, <1>3, UpdatedRuns
<1> DEFINE u == g[j.count]
<1>5. Updated(j) = Flag(u, "notified") /\ u \in X
  BY <1>4 DEF IsUpdate
<1> HIDE DEF u
<1>6. Sane(u, G) /\ SameJob(u, j) /\ "notified" \in JobFlags
  BY <1>5 DEF X, JobFlags
<1>7. Sane(Flag(u, "notified"), G) /\ SameJob(Flag(u, "notified"), u)
  BY <1>6, FlagIs
<1>8. QED
  BY <1>5, <1>6, <1>7 DEF SameJob

LEMMA AllChanged ==
  ASSUME NEW G, NEW t, Sound(t, G), NEW s \in [Slots -> Job],
         \A k \in Slots : Sane(s[k], G) /\ SameJob(s[k], t.slots[k])
  PROVE  Becomes(t, [t EXCEPT !.slots = s], G)
<1> DEFINE u == [t EXCEPT !.slots = s]
<1>1. u \in Table /\ u.total = t.total /\ u.slots = s
  BY DEF Sound, Table
<1> HIDE DEF u
<1>2. \A k \in Slots : Sane(u.slots[k], G) /\ SameJob(u.slots[k], t.slots[k])
  BY <1>1
<1>3. Becomes(t, u, G)
  BY <1>1, <1>2, Relabelled
<1>4. QED
  BY <1>3 DEF u

LEMMA ListedIs ==
  ASSUME NEW G, G \subseteq Pids, Sound(tab, G), \A p \in DeadMembers : p \in G /\ report[p] \in Status
  PROVE  Becomes(tab, RemoveDead([tab EXCEPT !.slots =
                          [k \in Slots |-> IF k \in Jobs THEN Updated(@[k]) ELSE @[k]]]), G)
<1> DEFINE s == [k \in Slots |-> IF k \in Jobs THEN Updated(tab.slots[k]) ELSE tab.slots[k]]
           u == [tab EXCEPT !.slots = s]
<1>1. \A k \in Slots : Sane(s[k], G) /\ SameJob(s[k], tab.slots[k])
  <2>1. TAKE k \in Slots
  <2>2. Sane(tab.slots[k], G) /\ SameJob(tab.slots[k], tab.slots[k])
    BY DEF Sound, SameJob
  <2>3. Sane(Updated(tab.slots[k]), G) /\ SameJob(Updated(tab.slots[k]), tab.slots[k])
    BY <2>2, UpdatedIs
  <2>4. QED
    BY <2>2, <2>3
<1>2. s \in [Slots -> Job]
  <2>1. s = [k \in Slots |-> s[k]]
    OBVIOUS
  <2>2. \A k \in Slots : s[k] \in Job
    BY <1>1 DEF Sane
  <2> HIDE DEF s
  <2>3. QED
    BY <2>1, <2>2
<1>3. [tab EXCEPT !.slots = [k \in Slots |-> IF k \in Jobs THEN Updated(@[k]) ELSE @[k]]] = u
  BY DEF Sound, Table
<1> HIDE DEF s
<1>4. Becomes(tab, u, G)
  BY <1>1, <1>2, AllChanged
<1> HIDE DEF u
<1>5. Becomes(u, RemoveDead(u), G)
  BY <1>4, RemoveDeadKeeps DEF Becomes
<1>6. QED
  BY <1>3, <1>4, <1>5, ThenBecomes

LEMMA RoomIs ==
  ASSUME NEW G, NEW t, Sound(t, G), Room(t)
  PROVE  t.total + 1 \in Slots /\ Min(Slots \ Used(t)) = t.total + 1
<1> DEFINE n == t.total
           S == Slots \ Used(t)
<1>1. /\ n \in Nat /\ MaxJobs \in Nat /\ n <= MaxJobs
      /\ \A l : l \in Slots <=> l \in Nat /\ 1 <= l /\ l <= MaxJobs
  BY TableIs, Slotted DEF Sound, Slots
<1>2. \A l : l \in S <=> l \in Slots /\ ~(l <= n)
  BY DEF Sound, Used
<1>3. S # {} /\ S \subseteq Nat
  BY <1>1 DEF Room, Used
<1> HIDE DEF S, n
<1>4. Min(S) \in S /\ \A k \in S : Min(S) <= k
  BY <1>3, LeastIs
<1>5. PICK l \in S : TRUE
  BY <1>3
<1>6. l \in Slots /\ l > n
  BY <1>1, <1>2, <1>5
<1>7. n + 1 \in S /\ n + 1 \in Slots
  BY <1>1, <1>2, <1>6
<1>8. Min(S) = n + 1
  <2>1. Min(S) <= n + 1
    BY <1>4, <1>7
  <2>2. Min(S) \in Nat /\ ~(Min(S) <= n)
    BY <1>1, <1>2, <1>4
  <2>3. QED
    BY <1>1, <2>1, <2>2
<1>9. QED
  BY <1>7, <1>8 DEF S, n

LEMMA NumberIs ==
  ASSUME NEW G, NEW t, Sound(t, G)
  PROVE  LET num == 1 + Max({0} \cup {t.slots[l].num : l \in Used(t)})
         IN  num \in Nat /\ num # 0 /\ \A k \in Slots : t.slots[k].num < num
<1> DEFINE S == {0} \cup {t.slots[l].num : l \in Used(t)}
           n == t.total
           b == IF n = 0 THEN 0 ELSE t.slots[n].num
<1>1. /\ n \in Nat /\ MaxJobs \in Nat /\ n <= MaxJobs
      /\ \A l : l \in Slots <=> l \in Nat /\ 1 <= l /\ l <= MaxJobs
      /\ \A k \in Slots : t.slots[k].num \in Nat
  BY TableIs, Slotted DEF Sound, Slots
<1>2. /\ \A k \in Slots : t.slots[k].num # 0 <=> k <= n
      /\ \A k, l \in Slots : k < l /\ l <= n => t.slots[k].num < t.slots[l].num
  BY DEF Sound
<1>3. n # 0 => n \in Slots
  BY <1>1
<1>4. b \in Nat
  BY <1>1, <1>3
<1>5. \A k \in Slots : t.slots[k].num <= b
  <2>1. TAKE k \in Slots
  <2>2. k \in Nat /\ k >= 1
    BY <1>1
  <2>3. CASE k < n
    BY <1>1, <1>2, <1>3, <2>2, <2>3
  <2>4. CASE k = n
    BY <1>1, <1>3, <2>2, <2>4
  <2>5. CASE k > n
    BY <1>1, <1>2, <1>4, <2>2, <2>5
  <2>6. QED
    BY <1>1, <2>2, <2>3, <2>4, <2>5
<1>6. S \subseteq Nat /\ S # {} /\ \A x \in S : x <= b
  <2>1. \A l \in Used(t) : l \in Slots
    BY DEF Used
  <2>2. 0 <= b
    BY <1>4
  <2> HIDE DEF b
  <2>3. QED
    BY <1>1, <1>5, <2>1, <2>2
<1>7. \A k \in Slots : t.slots[k].num \in S
  BY DEF Used
<1> HIDE DEF S, b
<1>8. Max(S) \in S /\ \A x \in S : Max(S) >= x
  BY <1>4, <1>6, GreatestIs
<1>9. Max(S) \in Nat
  BY <1>6, <1>8
<1>10. \A k \in Slots : t.slots[k].num <= Max(S)
  BY <1>1, <1>7, <1>8, <1>9
<1> DEFINE m == Max(S)
<1> HIDE DEF m
<1>11. m \in Nat /\ \A k \in Slots : t.slots[k].num <= m
  BY <1>9, <1>10 DEF m
<1>12. 1 + m \in Nat /\ 1 + m # 0 /\ \A k \in Slots : t.slots[k].num < 1 + m
  BY <1>1, <1>11
<1>13. QED
  BY <1>12 DEF m, S

LEMMA AddIs ==
  ASSUME NEW G, NEW t, Sound(t, G), Room(t), NEW j, Sane(j, G), Members(j) \cap Held(t) = {}
  PROVE  LET u == Add(t, j)
         IN  /\ Sound(u, G) /\ Held(u) \subseteq Held(t) \cup Members(j)
             /\ \A k \in Slots : t.slots[k].num # 0 => u.slots[k] = t.slots[k]
             /\ \A k \in Slots : \/ u.slots[k] = t.slots[k]
                                \/ u.slots[k] = [j EXCEPT !.num = u.slots[k].num]
<1> DEFINE n == t.total
           k == n + 1
           num == 1 + Max({0} \cup {t.slots[l].num : l \in Used(t)})
           h == [j EXCEPT !.num = num]
           s == [t.slots EXCEPT ![k] = h]
           v == [t EXCEPT !.slots = s, !.total = k]
           u == Add(t, j)
<1>1. k \in Slots /\ Min(Slots \ Used(t)) = k
  BY RoomIs
<1>2. num \in Nat /\ num # 0 /\ \A l \in Slots : t.slots[l].num < num
  BY NumberIs
<1>3. t \in Table /\ j \in Job /\ n \in Nat /\ k \in 0 .. MaxJobs
  BY <1>1, TableIs DEF Sound, Sane, Slots
<1>4. u = SetCurJob(v, num)
  <2>1. [t EXCEPT !.slots[Min(Slots \ Used(t))] = [j EXCEPT !.num = num], !.total = @ + 1] = v
    BY <1>1, <1>3 DEF Table
  <2>2. QED
    BY <2>1 DEF Add
<1> HIDE DEF num, u
<1>5. Sane(h, G) /\ Members(h) = Members(j) /\ h.num = num /\ h \in Job /\ h = [j EXCEPT !.num = h.num]
  <2>1. h \in Job /\ h.num = num /\ h.procs = j.procs /\ h.count = j.count /\ h.exits = j.exits
    BY <1>2, <1>3 DEF Job
  <2>2. h = [j EXCEPT !.num = h.num]
    BY <2>1
  <2> HIDE DEF h
  <2>3. QED
    BY <2>1, <2>2 DEF Sane, Members
<1> HIDE DEF h
<1>6. /\ s \in [Slots -> Job] /\ s[k] = h
      /\ \A l \in Slots : l # k => s[l] = t.slots[l]
  BY <1>1, <1>3, <1>5 DEF Table
<1>7. v \in Table /\ v.slots = s /\ v.total = k
  <2> HIDE DEF s, k
  <2>1. QED
    BY <1>3, <1>6 DEF Table
<1> HIDE DEF s, v
<1>8. \A l \in Slots : l \in Nat
  BY Slotted
<1>9. Sound(v, G)
  <2>1. \A l \in Slots : Sane(s[l], G)
    BY <1>5, <1>6 DEF Sound
  <2>2. \A l \in Slots : s[l].num # 0 <=> l <= k
    <3>1. TAKE l \in Slots
    <3>2. CASE l = k
      BY <1>2, <1>3, <1>5, <1>6, <3>2
    <3>3. CASE l # k
      <4>1. l <= k <=> l <= n
        BY <1>3, <1>8, <3>3
      <4>2. QED
        BY <1>6, <3>3, <4>1 DEF Sound
    <3>4. QED
      BY <3>2, <3>3
  <2>3. \A l \in Slots : s[l].num = 0 => s[l].count = 0
    BY <1>2, <1>5, <1>6 DEF Sound
  <2>4. \A l, m \in Slots : l < m /\ m <= k => s[l].num < s[m].num
    <3>1. SUFFICES ASSUME NEW l \in Slots, NEW m \in Slots, l < m, m <= k PROVE s[l].num < s[m].num
      OBVIOUS
    <3>2. l # k /\ s[l] = t.slots[l]
      BY <1>3, <1>6, <1>8, <3>1
    <3>3. CASE m = k
      BY <1>2, <1>5, <1>6, <3>2, <3>3
    <3>4. CASE m # k
      <4>1. m <= n
        BY <1>3, <1>8, <3>1, <3>4
      <4>2. QED
        BY <1>6, <3>1, <3>2, <3>4, <4>1 DEF Sound
    <3>5. QED
      BY <3>3, <3>4
  <2>5. \A l, m \in Slots : l # m => Members(s[l]) \cap Members(s[m]) = {}
    <3>1. \A l \in Slots : Members(t.slots[l]) \cap Members(h) = {}
      BY <1>5 DEF Held
    <3>2. SUFFICES ASSUME NEW l \in Slots, NEW m \in Slots, l # m
                   PROVE  Members(s[l]) \cap Members(s[m]) = {}
      OBVIOUS
    <3>3. CASE l = k
      BY <1>6, <3>1, <3>2, <3>3
    <3>4. CASE m = k
      BY <1>6, <3>1, <3>2, <3>4
    <3>5. CASE l # k /\ m # k
      BY <1>6, <3>2, <3>5 DEF Sound
    <3>6. QED
      BY <3>3, <3>4, <3>5
  <2>6. QED
    BY <1>7, <2>1, <2>2, <2>3, <2>4, <2>5 DEF Sound
<1>10. Held(v) \subseteq Held(t) \cup Members(j)
  BY <1>5, <1>6, <1>7 DEF Held
<1>11. u \in Table /\ u.slots = v.slots /\ Becomes(v, u, G)
  BY <1>2, <1>4, <1>7, <1>9, SetCurJobIs, CurJobKeeps
<1>12. \A l \in Slots : t.slots[l].num # 0 => u.slots[l] = t.slots[l]
  <2>1. ~(k <= n)
    BY <1>3
  <2>2. \A l \in Slots : t.slots[l].num # 0 => l # k
    BY <2>1 DEF Sound
  <2>3. QED
    BY <1>6, <1>7, <1>11, <2>2
<1>13. \A l \in Slots : u.slots[l] = t.slots[l] \/ u.slots[l] = [j EXCEPT !.num = u.slots[l].num]
  BY <1>5, <1>6, <1>7, <1>11
<1>14. QED
  BY <1>10, <1>11, <1>12, <1>13 DEF Becomes, u

-----------------------------------------------------------------------------
(* What an action needs to show.                                             *)

\* The kernel's variables stay in order, the dead stay dead, the born born.
KernelStep == /\ Kernel' /\ Gone \subseteq Gone'
              /\ \A p \in Pids : proc[p] # "unborn" => proc'[p] # "unborn"

Good == JobsInv' /\ (Keeps(tab, tab', Gone') \/ Disowning)

LEMMA GoneArePids == Gone \subseteq Pids
  BY DEF Gone

LEMMA SoundGrows ==
  ASSUME NEW G, NEW H, G \subseteq H
  PROVE  /\ \A j : Sane(j, G) => Sane(j, H)
         /\ \A t : Sound(t, G) => Sound(t, H)
  BY DEF Sane, Sound

LEMMA KernelStays == ASSUME Kernel, UNCHANGED kernel PROVE KernelStep /\ Gone' = Gone
  BY DEF KernelStep, Kernel, Gone, kernel

LEMMA ChangeIs ==
  ASSUME Kernel, NEW p \in Pids, proc[p] \in {"running", "stopped"},
         NEW state \in {"zombie", "running", "stopped"}, NEW s \in Status,
         s \in Ended <=> state = "zombie", Change(p, state, s)
  PROVE  KernelStep /\ Gone' = Gone
<1>1. proc' = [proc EXCEPT ![p] = state] /\ report' = [report EXCEPT ![p] = s] /\ delivered' = delivered
  BY DEF Change
<1>2. Kernel'
  BY <1>1 DEF Kernel
<1>3. Gone' = Gone
  BY <1>1 DEF Kernel, Gone
<1>4. \A q \in Pids : proc[q] # "unborn" => proc'[q] # "unborn"
  BY <1>1 DEF Kernel
<1>5. QED
  BY <1>2, <1>3, <1>4 DEF KernelStep

LEMMA ForkIs ==
  ASSUME Kernel, NEW p \in Pids, Fork(p)
  PROVE  KernelStep /\ Gone' = Gone /\ proc'[p] = "running"
<1>1. proc' = [proc EXCEPT ![p] = "running"] /\ report' = report /\ delivered' = delivered /\ proc[p] = "unborn"
  BY DEF Fork
<1>2. Kernel'
  BY <1>1 DEF Kernel, Ended
<1>3. Gone' = Gone
  BY <1>1 DEF Kernel, Gone
<1>4. /\ \A q \in Pids : proc[q] # "unborn" => proc'[q] # "unborn"
      /\ proc'[p] = "running"
  BY <1>1 DEF Kernel
<1>5. QED
  BY <1>2, <1>3, <1>4 DEF KernelStep

LEMMA CollectedIs ==
  ASSUME Kernel, NEW S, Collected(S), \A p \in S \cap Pids : report[p] \in Status
  PROVE  KernelStep /\ \A p \in S \cap Pids : report[p] \in Ended => p \in Gone'
<1>1. /\ proc' = [p \in Pids |-> IF p \in S /\ proc[p] = "zombie" THEN "gone" ELSE proc[p]]
      /\ report' = [p \in Pids |-> IF p \in S THEN "none" ELSE report[p]]
      /\ delivered' = [p \in Pids |-> IF p \in S THEN delivered[p] \cup {report[p]} ELSE delivered[p]]
  BY DEF Collected
<1>2. Kernel'
  <2>1. proc' \in [Pids -> {"unborn", "running", "stopped", "zombie", "gone"}]
    BY <1>1 DEF Kernel
  <2>2. report' \in [Pids -> Status \cup {"none"}]
    BY <1>1 DEF Kernel
  <2>3. delivered' \in [Pids -> SUBSET Status]
    BY <1>1 DEF Kernel
  <2>4. \A p \in Pids : report'[p] \in Ended <=> proc'[p] = "zombie"
    BY <1>1 DEF Kernel, Ended
  <2>5. QED
    BY <2>1, <2>2, <2>3, <2>4 DEF Kernel
<1>3. Gone \subseteq Gone'
  BY <1>1 DEF Gone
<1>4. \A q \in Pids : proc[q] # "unborn" => proc'[q] # "unborn"
  BY <1>1
<1>5. \A p \in S \cap Pids : report[p] \in Ended => p \in Gone'
  BY <1>1 DEF Kernel, Gone
<1>6. QED
  BY <1>2, <1>3, <1>4, <1>5 DEF KernelStep

LEMMA ContinuedIs ==
  ASSUME Kernel, NEW S, Continued(S)
  PROVE  KernelStep /\ Gone' = Gone
<1>1. /\ proc' = [p \in Pids |-> IF p \in {q \in S : proc[q] = "stopped"} THEN "running" ELSE proc[p]]
      /\ report' = [p \in Pids |-> IF p \in {q \in S : proc[q] = "stopped"} THEN "cont" ELSE report[p]]
      /\ delivered' = delivered
  BY DEF Continued
<1>2. Kernel'
  BY <1>1 DEF Kernel, Status, Ended
<1>3. Gone' = Gone
  BY <1>1 DEF Gone
<1>4. \A q \in Pids : proc[q] # "unborn" => proc'[q] # "unborn"
  BY <1>1
<1>5. QED
  BY <1>2, <1>3, <1>4 DEF KernelStep

\* The usual step: the table becomes another one, the job under construction
\* is kept or given up.
LEMMA Stepped ==
  ASSUME JobsInv, KernelStep, DeadList', Becomes(tab, tab', Gone'), Locals',
         newjob' = newjob, pc' = "forking" => pc = "forking"
  PROVE  Good
<1>1. Sound(tab', Gone') /\ Held(tab') \subseteq Held(tab) /\ Keeps(tab, tab', Gone')
  BY DEF Becomes
<1>2. Held(tab) \subseteq Pids /\ Members(newjob) \subseteq Pids
  BY MembersInPids DEF JobsInv, NewOne, Sound, Held
<1>3. NewOne'
  <2>1. Sane(newjob, Gone')
    BY SoundGrows DEF JobsInv, NewOne, KernelStep
  <2>2. Members(newjob)' = Members(newjob)
    BY DEF Members
  <2>3. QED
    BY <1>1, <2>1, <2>2 DEF JobsInv, NewOne, Held
<1>4. Born'
  <2>1. Members(newjob)' = Members(newjob)
    BY DEF Members
  <2>2. QED
    BY <1>1, <1>2, <2>1 DEF JobsInv, Born, KernelStep, Held
<1>5. QED
  BY <1>1, <1>3, <1>4 DEF Good, JobsInv, KernelStep

-----------------------------------------------------------------------------
(* The dead list.                                                            *)

LEMMA EntriesGrow ==
  ASSUME NEW G, NEW H, G \subseteq H
  PROVE  Entries(G) \subseteq Entries(H)
  BY DEF Entries

LEMMA DeadGrows ==
  ASSUME DeadList, Gone \subseteq Gone'
  PROVE  dead \in Seq(Entries(Gone'))
<1> DEFINE E == Entries(Gone)
           F == Entries(Gone')
<1>1. E \subseteq F /\ dead \in Seq(E)
  BY EntriesGrow DEF DeadList
<1> HIDE DEF E, F
<1>2. dead \in Seq(F)
  BY <1>1
<1>3. QED
  BY <1>2 DEF F

LEMMA DeadStays ==
  ASSUME DeadList, Gone \subseteq Gone', dead' = dead \/ dead' = <<>>
  PROVE  DeadList'
<1>1. dead \in Seq(Entries(Gone'))
  BY DeadGrows
<1>2. <<>> \in Seq(Entries(Gone'))
  OBVIOUS
<1>3. QED
  BY <1>1, <1>2 DEF DeadList, Entries, Gone

LEMMA AppendIs == ASSUME NEW S, NEW s \in Seq(S), NEW e \in S PROVE Append(s, e) \in Seq(S)
  OBVIOUS

LEMMA PutIs ==
  ASSUME NEW F, dead \in Seq(F), NEW p, NEW s, [pid |-> p, status |-> s] \in F
  PROVE  Put(p, s) \in Seq(F)
<1> DEFINE e == [pid |-> p, status |-> s]
<1>1. CASE Listed(p)
  <2> DEFINE d == [n \in DOMAIN dead |-> IF dead[n].pid = p THEN e ELSE dead[n]]
  <2> HIDE DEF e
  <2>1. DOMAIN dead = 1 .. Len(dead) /\ Len(dead) \in Nat
    OBVIOUS
  <2>2. d \in [1 .. Len(dead) -> F]
    BY <2>1 DEF e
  <2>3. d \in Seq(F)
    <3> HIDE DEF d
    <3>1. QED
      BY <2>1, <2>2
  <2>4. QED
    BY <1>1, <2>3 DEF Put, e
<1>2. CASE ~Listed(p)
  <2> HIDE DEF e
  <2>1. Append(dead, e) \in Seq(F)
    BY AppendIs DEF e
  <2>2. QED
    BY <1>2, <2>1 DEF Put, e
<1>3. QED
  BY <1>1, <1>2

LEMMA PlaceIs ==
  ASSUME NEW F, dead \in Seq(F), NEW p, Listed(p)
  PROVE  /\ Place(p) \in 1 .. Len(dead) /\ dead[Place(p)] \in F /\ dead[Place(p)].pid = p
         /\ Without(p) \in Seq(F)
<1> DEFINE S == {n \in DOMAIN dead : dead[n].pid = p}
           k == Place(p)
<1>1. S \subseteq Nat /\ S # {}
  BY DEF Listed
<1>2. k \in S
  <2> HIDE DEF S
  <2>1. Min(S) \in S
    BY <1>1, LeastIs
  <2>2. QED
    BY <2>1 DEF S, Place
<1>3. k \in 1 .. Len(dead) /\ dead[k] \in F /\ dead[k].pid = p
  BY <1>2
<1> HIDE DEF k
<1>4. SubSeq(dead, 1, k - 1) \in Seq(F)
  BY <1>3
<1>5. SubSeq(dead, k + 1, Len(dead)) \in Seq(F)
  BY <1>3
<1>6. Without(p) \in Seq(F)
  BY <1>4, <1>5 DEF Without, RemoveAt, k
<1>7. QED
  BY <1>3, <1>6 DEF k

-----------------------------------------------------------------------------
(* The actions that leave the table alone.                                   *)

LEMMA Quiet ==
  ASSUME JobsInv, KernelStep, tab' = tab, dead' = dead \/ dead' = <<>>, Locals',
         newjob' = newjob, pc' = "forking" => pc = "forking"
  PROVE  Good
<1>1. DeadList'
  BY DeadStays DEF JobsInv, KernelStep
<1>2. Sound(tab, Gone')
  BY SoundGrows DEF JobsInv, KernelStep
<1>3. Becomes(tab, tab', Gone')
  BY <1>2, Remains
<1>4. QED
  BY <1>1, <1>3, Stepped

LEMMA LocalsStay ==
  ASSUME Locals, lastStopped' \in 0 .. MaxJobs, UNCHANGED locals,
         pc' \in {"waitpid", "fgwait", "waitjob"} => pc' = pc
  PROVE  Locals'
<1>1. slot' = slot /\ i' = i /\ pid' = pid /\ answer' = answer
  BY DEF locals
<1>2. QED
  BY <1>1 DEF Locals

LEMMA ChildGood == ASSUME JobsInv, NEW p \in Pids, Child(p) PROVE Good
<1>1. KernelStep
  <2>1. Kernel
    BY DEF JobsInv
  <2>2. CASE Exit(p)
    <3>1. PICK f \in Fates : /\ proc[p] = "running" \/ (proc[p] = "stopped" /\ f = "killed")
                             /\ Change(p, "zombie", f)
      BY <2>2 DEF Exit
    <3>2. f \in Ended /\ f \in Status
      BY FatesAssumption DEF Status
    <3>3. QED
      BY <2>1, <3>1, <3>2, ChangeIs
  <2>3. CASE Stop(p)
    <3>1. "stop" \in Status /\ "stop" \notin Ended
      BY DEF Status, Ended
    <3>2. QED
      BY <2>1, <2>3, <3>1, ChangeIs DEF Stop
  <2>4. CASE Cont(p)
    <3>1. "cont" \in Status /\ "cont" \notin Ended
      BY DEF Status, Ended
    <3>2. QED
      BY <2>1, <2>4, <3>1, ChangeIs DEF Cont
  <2>5. QED
    BY <2>2, <2>3, <2>4 DEF Child
<1>2. UNCHANGED <<handler, dead, tab, options, pc, locals>>
  BY DEF Child, Exit, Stop, Cont, Change
<1>3. lastStopped' = lastStopped /\ newjob' = newjob /\ pc' = pc /\ tab' = tab /\ dead' = dead
      /\ UNCHANGED locals
  BY <1>2 DEF handler, locals
<1>4. Locals'
  BY <1>3, LocalsStay DEF JobsInv, Locals
<1>5. QED
  BY <1>1, <1>3, <1>4, Quiet

LEMMA EnterGood == ASSUME JobsInv, HandlerEnter PROVE Good
<1>1. /\ lastStopped' = 0 /\ newjob' = newjob /\ pc' = pc /\ tab' = tab /\ dead' = dead
      /\ UNCHANGED locals /\ proc' = proc /\ report' = report /\ delivered' = delivered
  BY DEF HandlerEnter, locals
<1>2. KernelStep
  BY <1>1 DEF JobsInv, Kernel, KernelStep, Gone
<1>3. 0 \in 0 .. MaxJobs
  BY Slotted
<1>4. Locals'
  BY <1>1, <1>3, LocalsStay DEF JobsInv
<1>5. QED
  BY <1>1, <1>2, <1>4, Quiet

\* A step of the main program on its own variables only.
LEMMA Walks ==
  ASSUME JobsInv, UNCHANGED <<kernel, tab, newjob>>, dead' = dead \/ dead' = <<>>, Locals',
         pc' = "forking" => pc = "forking"
  PROVE  Good
<1>1. KernelStep
  BY KernelStays DEF JobsInv
<1>2. QED
  BY <1>1, Quiet

LEMMA StartWaitGood == ASSUME JobsInv, StartWait PROVE Good
<1>1. newjob.procs \in Seq(Pids) /\ Len(newjob.procs) >= 1
  BY DEF JobsInv, NewOne, StartWait, Sane, Job
<1>2. newjob.procs[1] \in Pids
  BY <1>1
<1>3. Locals'
  BY <1>2 DEF JobsInv, Locals, StartWait, handler
<1>4. QED
  BY <1>3, Walks DEF StartWait

LEMMA CheckGood == ASSUME JobsInv, CheckOnChildren \/ CheckReset \/ DrainEnd PROVE Good
<1>1. Locals'
  BY DEF JobsInv, Locals, CheckOnChildren, CheckReset, DrainEnd, handler, locals
<1>2. newjob' = newjob /\ tab' = tab /\ UNCHANGED kernel /\ pc' # "forking" /\ (dead' = dead \/ dead' = <<>>)
  BY DEF CheckOnChildren, CheckReset, DrainEnd, locals
<1>3. QED
  BY <1>1, <1>2, Walks

LEMMA WaitJobIdGood == ASSUME JobsInv, NEW k \in Slots, WaitJobId(k) PROVE Good
<1>1. k \in 0 .. MaxJobs /\ k # 0
  BY Slotted DEF Slots
<1>2. Locals'
  BY <1>1 DEF JobsInv, Locals, WaitJobId, WaitForJob, handler
<1>3. newjob' = newjob /\ tab' = tab /\ UNCHANGED kernel /\ pc' # "forking" /\ dead' = dead
  BY DEF WaitJobId, WaitForJob
<1>4. QED
  BY <1>2, <1>3, Walks

LEMMA WaitPidGood == ASSUME JobsInv, NEW p \in Pids, WaitPid(p) PROVE Good
<1>1. JobByPid(tab, p) \in 0 .. MaxJobs
  BY PidIsIn, Slotted DEF Slots
<1>2. Locals'
  BY <1>1 DEF JobsInv, Locals, WaitPid, handler
<1>3. newjob' = newjob /\ tab' = tab /\ UNCHANGED kernel /\ pc' # "forking" /\ dead' = dead
  BY DEF WaitPid
<1>4. QED
  BY <1>2, <1>3, Walks

LEMMA AfterIs == \A m : After(m) \in {"bgloop", "hup", "return"}
  BY DEF After

LEMMA NextProcessGood == ASSUME JobsInv, NextProcess PROVE Good
<1> DEFINE j == tab.slots[slot]
<1>1. slot \in Slots
  BY DEF JobsInv, Locals, NextProcess, Slots
<1>2. j \in Job /\ j.count <= Len(j.procs)
  BY <1>1 DEF JobsInv, Sound, Sane
<1>3. UNCHANGED <<kernel, handler, dead, tab, newjob, slot>>
  BY DEF NextProcess
<1>4. /\ \/ /\ answer' = j.status
            /\ pc' = After(mode)
            /\ UNCHANGED <<i, pid>>
         \/ /\ i' = i + 1
            /\ UNCHANGED <<pc, pid, answer>>
         \/ /\ i <= j.count
            /\ pid' = j.procs[i]
            /\ pc'  = "waitpid"
            /\ UNCHANGED <<i, answer>>
      /\ pc = "waitjob"
  BY DEF NextProcess
<1> HIDE DEF j
<1>5. i <= j.count => j.procs[i] \in Pids
  BY <1>2 DEF JobsInv, Locals, Job
<1>6. j.status \in Status /\ After(mode) \in {"bgloop", "hup", "return"}
  BY <1>2, AfterIs DEF Job
<1>7. Locals' /\ pc' # "forking"
  BY <1>3, <1>4, <1>5, <1>6 DEF JobsInv, Locals, handler
<1>8. QED
  BY <1>3, <1>7, Walks

LEMMA WaitEndsGood == ASSUME JobsInv, WaitNoChild \/ WaitOn \/ Return PROVE Good
<1>1. After(mode) \in {"bgloop", "hup", "return"}
  BY AfterIs
<1>2. UNCHANGED <<kernel, handler, dead, tab, newjob>> /\ pc' # "forking"
  BY <1>1 DEF WaitNoChild, WaitOn, Return, Waiting
<1>3. Locals'
  <2>1. CASE WaitNoChild
    BY <1>1, <1>2, <2>1 DEF WaitNoChild, JobsInv, Locals, handler
  <2>2. CASE WaitOn
    BY <1>2, <2>2 DEF WaitOn, JobsInv, Locals, handler
  <2>3. CASE Return
    BY <1>2, <2>3, Slotted DEF Return, JobsInv, Locals, handler
  <2>4. QED
    BY <2>1, <2>2, <2>3
<1>4. QED
  BY <1>2, <1>3, Walks

LEMMA WaitBgGood == ASSUME JobsInv, WaitBg \/ AnyLoop \/ AnyNoChild \/ Leave PROVE Good
<1>1. UNCHANGED <<kernel, handler, dead, tab, newjob>> /\ pc' # "forking"
  BY DEF WaitBg, AnyLoop, AnyNoChild, Leave
<1>2. Locals'
  BY <1>1, Slotted DEF WaitBg, AnyLoop, AnyNoChild, Leave, JobsInv, Locals, handler
<1>3. QED
  BY <1>1, <1>2, Walks

-----------------------------------------------------------------------------
(* The actions that change the table.                                        *)

LEMMA Turns ==
  ASSUME JobsInv, KernelStep, dead' = dead \/ dead' = <<>>, Becomes(tab, tab', Gone'), Locals',
         newjob' = newjob, pc' = "forking" => pc = "forking"
  PROVE  Good
<1>1. DeadList'
  BY DeadStays DEF JobsInv, KernelStep
<1>2. QED
  BY <1>1, Stepped

\* The same when the kernel's variables are left alone, or no process goes.
LEMMA TurnsAlone ==
  ASSUME JobsInv, KernelStep, Gone' = Gone, dead' = dead \/ dead' = <<>>, Becomes(tab, tab', Gone),
         Locals', newjob' = newjob, pc' = "forking" => pc = "forking"
  PROVE  Good
  BY Turns

LEMMA ReapGood == ASSUME JobsInv, NEW p \in Pids, HandlerReap(p) PROVE Good
<1> DEFINE s == report[p]
           k == JobByPid(tab', p)
<1>1. s \in Status /\ Collected({p})
  BY DEF JobsInv, Kernel, HandlerReap
<1>2. KernelStep /\ (s \in Ended => p \in Gone')
  BY <1>1, CollectedIs DEF JobsInv
<1> HIDE DEF s
<1>3. Sound(tab, Gone') /\ Gone' \subseteq Pids
  BY <1>2, SoundGrows DEF JobsInv, KernelStep, Gone
<1>4. Becomes(tab, tab', Gone')
  BY <1>1, <1>2, <1>3, NoticeKeeps DEF HandlerReap, s
<1>5. DeadList'
  <2>1. [pid |-> p, status |-> s] \in Entries(Gone')
    BY <1>1, <1>2 DEF Entries
  <2>2. dead \in Seq(Entries(Gone'))
    BY <1>2, DeadGrows DEF JobsInv, KernelStep
  <2>3. Put(p, s) \in Seq(Entries(Gone'))
    BY <2>1, <2>2, PutIs
  <2>4. dead' = Put(p, s)
    BY DEF HandlerReap, s
  <2>5. QED
    BY <2>3, <2>4 DEF DeadList, Entries, Gone
<1>6. Locals' /\ newjob' = newjob /\ pc' = pc
  <2>1. k \in 0 .. MaxJobs
    BY PidIsIn, Slotted DEF Slots
  <2>2. lastStopped' = (IF k = 0 THEN lastStopped
                        ELSE IF Stopped(tab'.slots[k].status) THEN k
                        ELSE IF Complete(tab'.slots[k]) /\ lastStopped = k THEN 0
                        ELSE lastStopped)
    BY DEF HandlerReap
  <2> HIDE DEF k
  <2>3. lastStopped' \in 0 .. MaxJobs
    BY <2>1, <2>2, Slotted DEF JobsInv, Locals
  <2>4. UNCHANGED <<pc, newjob>> /\ UNCHANGED locals
    BY DEF HandlerReap, locals
  <2>5. QED
    BY <2>3, <2>4, LocalsStay DEF JobsInv
<1>7. QED
  BY <1>2, <1>4, <1>5, <1>6, Stepped

LEMMA ChosenIs ==
  ASSUME JobsInv
  PROVE  /\ Chosen \in Table /\ Chosen.slots = tab.slots /\ Chosen.total = tab.total
         /\ IsNumber(tab, Chosen.cur) /\ IsNumber(tab, Chosen.prev)
<1>1. tab \in Table
  BY DEF JobsInv, Sound
<1>2. CASE lastStopped # 0
  <2>1. lastStopped \in Slots
    BY <1>2 DEF JobsInv, Locals, Slots
  <2>2. tab.slots[lastStopped].num \in Nat /\ IsNumber(tab, tab.slots[lastStopped].num)
    BY <1>1, <2>1, TableIs DEF IsNumber
  <2>3. Chosen = SetCurJob(tab, tab.slots[lastStopped].num)
    BY <1>2 DEF Chosen
  <2>4. QED
    BY <1>1, <2>2, <2>3, SetCurJobIs
<1>3. CASE ~(lastStopped # 0)
  <2>1. Chosen = ResetCurJob(tab)
    BY <1>3 DEF Chosen
  <2>2. QED
    BY <1>1, <2>1, ResetCurJobIs
<1>4. QED
  BY <1>2, <1>3

\* What any of the handler's ends does to the table.
Renumbered == tab' \in Table /\ tab'.slots = tab.slots /\ tab'.total = tab.total

LEMMA ExitRenumbers == ASSUME JobsInv, HandlerExit PROVE Renumbered
  BY ChosenIs DEF HandlerExit, Renumbered

LEMMA PauseRenumbers == ASSUME JobsInv, HandlerPause PROVE Renumbered
<1> DEFINE n == Chosen.cur
<1>1. tab \in Table
  BY DEF JobsInv, Sound
<1>2. n \in Nat /\ OldJob(tab, n) \in Nat
  BY <1>1, ChosenIs, TableIs DEF OldJob
<1>3. tab' = tab \/ tab' = [tab EXCEPT !.cur = n, !.prev = OldJob(tab, n)]
  BY DEF HandlerPause
<1> HIDE DEF n
<1>4. QED
  BY <1>1, <1>2, <1>3 DEF Renumbered, Table

LEMMA ResumeRenumbers == ASSUME JobsInv, HandInv, HandlerResume PROVE Renumbered
<1>1. tab \in Table
  BY DEF JobsInv, Sound
<1>2. Numbers \subseteq Nat
  <2>1. held.slot # 0 => held.slot \in Slots
    BY DEF HandInv, InHand, Slots
  <2>2. held.num \in Nat
    BY DEF HandInv, InHand
  <2>3. QED
    BY <1>1, <2>1, <2>2, TableIs DEF Numbers
<1>3. PICK n \in Numbers :
        tab' = IF held.what = "cur" THEN SetCurJob(tab, n) ELSE [tab EXCEPT !.prev = n]
  BY DEF HandlerResume
<1>4. n \in Nat
  BY <1>2
<1>5. CASE held.what = "cur"
  BY <1>1, <1>3, <1>4, <1>5, SetCurJobIs DEF Renumbered
<1>6. CASE held.what # "cur"
  BY <1>1, <1>3, <1>4, <1>6 DEF Renumbered, Table
<1>7. QED
  BY <1>5, <1>6

LEMMA EndGood ==
  ASSUME JobsInv, HandInv, HandlerExit \/ HandlerPause \/ HandlerResume
  PROVE  Good
<1>1. KernelStep /\ Gone' = Gone
  BY KernelStays DEF JobsInv, HandlerExit, HandlerPause, HandlerResume
<1>2. Becomes(tab, tab', Gone)
  BY ExitRenumbers, PauseRenumbers, ResumeRenumbers, SameSlots DEF JobsInv, Renumbered
<1>3. Locals' /\ newjob' = newjob /\ pc' = pc /\ dead' = dead
  BY DEF JobsInv, Locals, HandlerExit, HandlerPause, HandlerResume, locals
<1>4. QED
  BY <1>1, <1>2, <1>3, TurnsAlone

LEMMA KillGood == ASSUME JobsInv, NEW k \in Slots, NEW cont, Kill(k, cont) PROVE Good
<1>1. KernelStep /\ Gone' = Gone
  BY ContinuedIs DEF JobsInv, Kill
<1>2. Becomes(tab, tab', Gone)
  <2> DEFINE h == Signalled(tab.slots[k], cont)
  <2>1. Sound(tab, Gone) /\ Sane(tab.slots[k], Gone)
    BY DEF JobsInv, Sound
  <2>2. Sane(h, Gone) /\ SameJob(h, tab.slots[k])
    BY <2>1, SignalledIs
  <2>3. tab' = [tab EXCEPT !.slots[k] = h]
    BY <2>1 DEF Kill, Sound, Table
  <2> HIDE DEF h
  <2>4. Becomes(tab, [tab EXCEPT !.slots[k] = h], Gone)
    BY <2>1, <2>2, Changed1
  <2>5. QED
    BY <2>3, <2>4
<1>3. lastStopped' = lastStopped /\ UNCHANGED <<dead, pc>> /\ UNCHANGED locals
  BY DEF Kill, handler
<1>4. Locals' /\ newjob' = newjob
  BY <1>3, LocalsStay DEF JobsInv, Locals, locals
<1>5. QED
  BY <1>1, <1>2, <1>3, <1>4, TurnsAlone

LEMMA NotifyGood == ASSUME JobsInv, NEW k \in Slots, Notify(k) PROVE Good
<1>1. KernelStep /\ Gone' = Gone
  BY KernelStays DEF JobsInv, Notify
<1>2. Becomes(tab, tab', Gone)
  <2> DEFINE h == Flag(tab.slots[k], "notify")
  <2>1. Sound(tab, Gone) /\ Sane(tab.slots[k], Gone)
    BY DEF JobsInv, Sound
  <2>2. Sane(h, Gone) /\ SameJob(h, tab.slots[k])
    BY <2>1, FlagIs DEF JobFlags
  <2>3. tab' = [tab EXCEPT !.slots[k] = h]
    BY <2>1 DEF Notify, Sound, Table
  <2> HIDE DEF h
  <2>4. Becomes(tab, [tab EXCEPT !.slots[k] = h], Gone)
    BY <2>1, <2>2, Changed1
  <2>5. QED
    BY <2>3, <2>4
<1>3. lastStopped' = lastStopped /\ UNCHANGED <<dead, pc>> /\ UNCHANGED locals
  BY DEF Notify, handler
<1>4. Locals' /\ newjob' = newjob
  BY <1>3, LocalsStay DEF JobsInv, Locals, locals
<1>5. QED
  BY <1>1, <1>2, <1>3, <1>4, TurnsAlone

LEMMA BgGood == ASSUME JobsInv, NEW k \in Slots, Bg(k) PROVE Good
<1>1. KernelStep /\ Gone' = Gone
  BY ContinuedIs DEF JobsInv, Bg
<1>2. Becomes(tab, tab', Gone)
  <2> DEFINE h == Unflag(tab.slots[k], {"fg", "notified"})
             t == [tab EXCEPT !.slots[k] = h]
  <2>1. Sound(tab, Gone) /\ Sane(tab.slots[k], Gone)
    BY DEF JobsInv, Sound
  <2>2. Sane(h, Gone) /\ SameJob(h, tab.slots[k])
    BY <2>1, UnflagIs
  <2>3. tab' = ResetCurJob(t)
    BY <2>1 DEF Bg, Sound, Table
  <2> HIDE DEF h
  <2>4. Becomes(tab, t, Gone)
    BY <2>1, <2>2, Changed1
  <2> HIDE DEF t
  <2>5. Becomes(t, ResetCurJob(t), Gone)
    BY <2>4, CurJobKeeps DEF Becomes
  <2>6. QED
    BY <2>3, <2>4, <2>5, ThenBecomes
<1>3. lastStopped' = lastStopped /\ UNCHANGED <<dead, pc>> /\ UNCHANGED locals
  BY DEF Bg, handler
<1>4. Locals' /\ newjob' = newjob
  BY <1>3, LocalsStay DEF JobsInv, Locals, locals
<1>5. QED
  BY <1>1, <1>2, <1>3, <1>4, TurnsAlone

LEMMA FgGood == ASSUME JobsInv, NEW k \in Slots, Fg(k) PROVE Good
<1>1. KernelStep /\ Gone' = Gone
  BY ContinuedIs DEF JobsInv, Fg
<1>2. Becomes(tab, tab', Gone)
  <2> DEFINE j == tab.slots[k]
             g == Flag(j, "fg")
             h == Unflag(g, {"notified"})
             t == [tab EXCEPT !.slots[k] = h]
             u == SetCurJob(t, j.num)
             w == Signalled(u.slots[k], TRUE)
  <2>1. Sound(tab, Gone) /\ Sane(j, Gone) /\ j.num \in Nat
    BY TableIs DEF JobsInv, Sound
  <2>2. Sane(g, Gone) /\ SameJob(g, j)
    BY <2>1, FlagIs DEF JobFlags
  <2>3. Sane(h, Gone) /\ SameJob(h, g)
    <3> HIDE DEF g
    <3>1. QED
      BY <2>2, UnflagIs
  <2>4. tab' = [u EXCEPT !.slots[k] = Signalled(@, TRUE)]
    BY <2>1 DEF Fg, Sound, Table
  <2>5. Becomes(tab, t, Gone)
    <3> HIDE DEF g, h
    <3>1. SameJob(h, j)
      BY <2>2, <2>3 DEF SameJob
    <3>2. QED
      BY <2>1, <2>3, <3>1, Changed1
  <2> HIDE DEF t
  <2>6. Becomes(t, u, Gone)
    BY <2>1, <2>5, CurJobKeeps DEF Becomes
  <2> HIDE DEF u
  <2>7. Sound(u, Gone) /\ Sane(u.slots[k], Gone)
    BY <2>6 DEF Becomes, Sound
  <2>8. Sane(w, Gone) /\ SameJob(w, u.slots[k])
    BY <2>7, SignalledIs
  <2>9. tab' = [u EXCEPT !.slots[k] = w]
    BY <2>4, <2>7 DEF Sound, Table
  <2> HIDE DEF w
  <2>10. Becomes(u, tab', Gone)
    BY <2>7, <2>8, <2>9, Changed1
  <2>11. QED
    BY <2>5, <2>6, <2>10, ThenBecomes
<1>3. lastStopped' = lastStopped /\ UNCHANGED <<dead, newjob>> /\ pc' # "forking"
  BY DEF Fg, handler, WaitForJob
<1>4. Locals'
  BY Slotted DEF Fg, handler, WaitForJob, JobsInv, Locals, Slots
<1>5. QED
  BY <1>1, <1>2, <1>3, <1>4, TurnsAlone

LEMMA ListGood == ASSUME JobsInv, List \/ WaitInterrupted \/ AnyInterrupted PROVE Good
<1>1. Listing
  BY DEF List, WaitInterrupted, AnyInterrupted
<1>2. Kernel /\ DeadMembers \subseteq Pids
  BY MembersInPids DEF JobsInv, Sound, DeadMembers, Jobs
<1>3. \A p \in DeadMembers : report[p] \in Ended /\ report[p] \in Status
  BY <1>2 DEF Kernel, DeadMembers, Status
<1>4. KernelStep /\ \A p \in DeadMembers \cap Pids : report[p] \in Ended => p \in Gone'
  BY <1>1, <1>2, <1>3, CollectedIs DEF Listing
<1>5. Sound(tab, Gone') /\ Gone' \subseteq Pids
  BY <1>4, SoundGrows DEF JobsInv, KernelStep, Gone
<1>6. Becomes(tab, tab', Gone')
  BY <1>1, <1>2, <1>3, <1>4, <1>5, ListedIs DEF Listing
<1>7. newjob' = newjob /\ dead' = dead /\ lastStopped' = lastStopped /\ (pc' = "forking" => pc = "forking")
  <2>1. After(mode) # "forking"
    BY AfterIs
  <2>2. QED
    BY <2>1 DEF List, WaitInterrupted, AnyInterrupted, handler, locals
<1>8. Locals'
  <2>1. After(mode) \in {"bgloop", "hup", "return"}
    BY AfterIs
  <2>2. CASE List
    BY <1>7, <2>2, LocalsStay DEF List, JobsInv, Locals
  <2>3. CASE WaitInterrupted
    BY <1>7, <2>1, <2>3 DEF WaitInterrupted, JobsInv, Locals
  <2>4. CASE AnyInterrupted
    BY <1>7, <2>4 DEF AnyInterrupted, JobsInv, Locals
  <2>5. QED
    BY <2>2, <2>3, <2>4
<1>9. QED
  BY <1>4, <1>6, <1>7, <1>8, Turns

\* A step that may forget a job with processes left.
LEMMA Forgets ==
  ASSUME JobsInv, KernelStep, Gone' = Gone, dead' = dead, Sound(tab', Gone), Held(tab') \subseteq Held(tab),
         Keeps(tab, tab', Gone') \/ Disowning, Locals', newjob' = newjob, pc' = "forking" => pc = "forking"
  PROVE  Good
<1>1. DeadList'
  BY DeadStays DEF JobsInv, KernelStep
<1>2. Members(newjob)' = Members(newjob) /\ Held(tab)' = Held(tab')
  BY DEF Members, Held
<1>3. NewOne'
  BY <1>2 DEF JobsInv, NewOne
<1>4. Held(tab) \subseteq Pids /\ Members(newjob) \subseteq Pids
  BY MembersInPids DEF JobsInv, NewOne, Sound, Held
<1>5. Born'
  BY <1>2, <1>4 DEF JobsInv, Born, KernelStep
<1>6. QED
  BY <1>1, <1>3, <1>5 DEF Good, JobsInv, KernelStep

LEMMA CheckEntryGood == ASSUME JobsInv, CheckEntry PROVE Good
<1>1. KernelStep /\ Gone' = Gone
  BY KernelStays DEF JobsInv, CheckEntry
<1>2. Becomes(tab, tab', Gone)
  <2>1. CASE i <= Len(dead)
    <3>1. i \in DOMAIN dead /\ dead[i] \in Entries(Gone)
      BY <2>1 DEF JobsInv, Locals, DeadList
    <3>2. dead[i].status \in Status
      BY <3>1 DEF Entries
    <3>3. tab' = Look(dead[i].pid, dead[i].status, TRUE)
      BY <2>1 DEF CheckEntry
    <3>4. QED
      BY <3>2, <3>3, LookKeeps DEF JobsInv
  <2>2. CASE ~(i <= Len(dead))
    BY <2>2, Remains DEF CheckEntry, JobsInv
  <2>3. QED
    BY <2>1, <2>2
<1>3. /\ UNCHANGED <<lastStopped, slot, pid, answer, newjob, dead>>
      /\ (i' = i + 1 /\ pc' = pc) \/ (i' = i /\ pc' = "reset")
      /\ pc = "check"
  BY DEF CheckEntry, handler
<1>4. Locals' /\ (pc' = "forking" => pc = "forking")
  BY <1>3 DEF JobsInv, Locals
<1>5. QED
  BY <1>1, <1>2, <1>3, <1>4, TurnsAlone

LEMMA DrainGood == ASSUME JobsInv, NEW p \in Pids, Drain(p) PROVE Good
<1>1. report[p] \in Status /\ Collected({p})
  BY DEF JobsInv, Kernel, Drain
<1>2. KernelStep
  BY <1>1, CollectedIs DEF JobsInv
<1>3. Sound(tab, Gone')
  BY <1>2, SoundGrows DEF JobsInv, KernelStep
<1>4. Becomes(tab, tab', Gone')
  BY <1>1, <1>3, LookKeeps DEF Drain
<1>5. lastStopped' = lastStopped /\ UNCHANGED <<dead, pc, newjob>> /\ UNCHANGED locals
  BY DEF Drain, handler, locals
<1>6. Locals'
  BY <1>5, LocalsStay DEF JobsInv, Locals
<1>7. QED
  BY <1>2, <1>4, <1>5, <1>6, Turns

\* disown: without -h a job goes whatever its processes do.
LEMMA DisownGood == ASSUME JobsInv, NEW k \in Jobs, NEW nohup \in BOOLEAN, Disown(k, nohup) PROVE Good
<1>1. KernelStep /\ Gone' = Gone
  BY KernelStays DEF JobsInv, Disown
<1>2. k \in Slots /\ tab.slots[k].num # 0
  BY DEF Jobs
<1>3. /\ Sound(tab', Gone) /\ Held(tab') \subseteq Held(tab)
      /\ nohup => Becomes(tab, tab', Gone)
  BY <1>2, DisownJobIs DEF Disown, JobsInv
<1>4. ~nohup => Disowning
  BY DEF Disowning
<1>5. Keeps(tab, tab', Gone') \/ Disowning
  BY <1>1, <1>3, <1>4 DEF Becomes
<1>6. lastStopped' = lastStopped /\ UNCHANGED <<dead, pc, newjob>> /\ UNCHANGED locals
  BY DEF Disown, handler, locals
<1>7. Locals'
  BY <1>6, LocalsStay DEF JobsInv, Locals
<1>8. QED
  BY <1>1, <1>3, <1>5, <1>6, <1>7, Forgets

LEMMA DisownAllGood ==
  ASSUME JobsInv, NEW nohup \in BOOLEAN, NEW filter \in Filters, DisownAll(nohup, filter)
  PROVE  Good
<1>1. KernelStep /\ Gone' = Gone
  BY KernelStays DEF JobsInv, DisownAll
<1>3. /\ Sound(tab', Gone) /\ Held(tab') \subseteq Held(tab)
      /\ nohup => Becomes(tab, tab', Gone)
  BY DisownJobsIs DEF DisownAll, JobsInv
<1>4. ~nohup => Disowning
  BY DEF Disowning
<1>5. Keeps(tab, tab', Gone') \/ Disowning
  BY <1>1, <1>3, <1>4 DEF Becomes
<1>6. lastStopped' = lastStopped /\ UNCHANGED <<dead, pc, newjob>> /\ UNCHANGED locals
  BY DEF DisownAll, handler, locals
<1>7. Locals'
  BY <1>6, LocalsStay DEF JobsInv, Locals
<1>8. QED
  BY <1>1, <1>3, <1>5, <1>6, <1>7, Forgets

\* What wait_for_pid() does with the status it got, when waitpid() or the dead
\* list have given the process up.
LEMMA GotIs ==
  ASSUME Locals, NEW G, G \subseteq Pids, Sound(tab, G), NEW s \in Status, s \in Ended => pid \in G,
         pid \in Pids, Got(s)
  PROVE  /\ Becomes(tab, tab', G) /\ i' \in Nat \ {0}
         /\ answer' \in Status \cup {"none", "nochild", "interrupted"}
         /\ pc' \in {"bgloop", "hup", "return", "crashed", "waitjob"} /\ (pc' = "waitjob" => slot # 0)
<1> DEFINE j == tab.slots[slot]
           h == SetJobStatus(SetPidStatus(j, pid, s), pid, s)
           e == Flag(h, "notified")
           t == [tab EXCEPT !.slots[slot] = e]
<1>1. After(mode) \in {"bgloop", "hup", "return"}
  BY AfterIs
<1>2. CASE slot = 0
  <2>1. tab' = RemoveDead(tab) /\ answer' = s /\ pc' = After(mode) /\ i' = i
    BY <1>2 DEF Got
  <2>2. Becomes(tab, tab', G)
    BY <2>1, RemoveDeadKeeps
  <2>3. QED
    BY <1>1, <2>1, <2>2 DEF Locals
<1>3. CASE slot # 0 /\ ReadsNull(j, pid)
  <2>1. tab' = tab /\ answer' = answer /\ pc' = "crashed" /\ i' = i
    BY <1>3 DEF Got
  <2>2. QED
    BY <2>1, Remains DEF Locals
<1>4. CASE slot # 0 /\ ~ReadsNull(j, pid)
  <2>1. slot \in Slots
    BY <1>4 DEF Locals, Slots
  <2>2. j \in Job /\ Sane(j, G) /\ tab \in Table
    BY <2>1 DEF Sound, Sane
  <2>3. Sane(h, G) /\ SameJob(h, j)
    BY <2>2, BookedIs
  <2>4. Sane(e, G) /\ SameJob(e, j)
    <3> HIDE DEF h
    <3>1. Sane(e, G) /\ SameJob(e, h)
      BY <2>3, FlagIs DEF JobFlags
    <3>2. QED
      BY <2>3, <3>1 DEF SameJob
  <2>5. [tab EXCEPT !.slots[slot] = Flag(SetJobStatus(SetPidStatus(@, pid, s), pid, s), "notified")] = t
    BY <2>1, <2>2 DEF Table
  <2>6. /\ tab' = RemoveDead(t) /\ answer' = t.slots[slot].status /\ i' = i + 1
        /\ pc' = IF mode = "pid" THEN "return" ELSE "waitjob"
    BY <1>4, <2>5 DEF Got
  <2> HIDE DEF e
  <2>7. Becomes(tab, t, G) /\ t.slots[slot] = e
    BY <2>1, <2>4, Changed1
  <2> HIDE DEF t
  <2>8. Becomes(t, RemoveDead(t), G)
    BY <2>7, RemoveDeadKeeps DEF Becomes
  <2>9. Becomes(tab, tab', G)
    BY <2>6, <2>7, <2>8, ThenBecomes
  <2>10. answer' \in Status
    BY <2>4, <2>6, <2>7 DEF Sane, Job
  <2>11. QED
    BY <1>4, <2>6, <2>9, <2>10 DEF Locals
<1>5. QED
  BY <1>2, <1>3, <1>4

LEMMA WaitCollectGood == ASSUME JobsInv, WaitCollect PROVE Good
<1>1. pid \in Pids /\ pc = "waitpid"
  BY DEF JobsInv, Locals, WaitCollect, Waiting
<1>2. report[pid] \in Status /\ report[pid] \in Ended /\ Collected({pid}) /\ Kernel
  BY <1>1 DEF JobsInv, Kernel, WaitCollect, Status
<1>3. KernelStep /\ pid \in Gone'
  BY <1>1, <1>2, CollectedIs
<1>4. Sound(tab, Gone') /\ Gone' \subseteq Pids
  BY <1>3, SoundGrows DEF JobsInv, KernelStep, Gone
<1>5. Got(report[pid])
  BY DEF WaitCollect
<1>6. /\ Becomes(tab, tab', Gone') /\ i' \in Nat \ {0}
      /\ answer' \in Status \cup {"none", "nochild", "interrupted"}
      /\ pc' \in {"bgloop", "hup", "return", "crashed", "waitjob"} /\ (pc' = "waitjob" => slot # 0)
  BY <1>1, <1>2, <1>3, <1>4, <1>5, GotIs DEF JobsInv
<1>7. UNCHANGED <<lastStopped, dead, newjob, slot, pid>>
  BY DEF WaitCollect, handler
<1>8. Locals'
  BY <1>6, <1>7 DEF JobsInv, Locals
<1>9. QED
  BY <1>3, <1>6, <1>7, <1>8, Turns

LEMMA WaitRipGood == ASSUME JobsInv, WaitRip PROVE Good
<1>1. pid \in Pids /\ pc = "waitpid" /\ Sound(tab, Gone) /\ Listed(pid)
  BY DEF JobsInv, Locals, WaitRip, Waiting
<1>2. KernelStep /\ Gone' = Gone
  BY KernelStays DEF JobsInv, WaitRip
<1> DEFINE F == Entries(Gone)
<1>3. dead[Place(pid)] \in F /\ dead[Place(pid)].pid = pid /\ Without(pid) \in Seq(F)
  <2>1. dead \in Seq(F)
    BY DEF JobsInv, DeadList
  <2> HIDE DEF F
  <2>2. QED
    BY <1>1, <2>1, PlaceIs
<1>4. ListedStatus(pid) \in Status /\ (ListedStatus(pid) \in Ended => pid \in Gone)
  BY <1>3 DEF Entries, ListedStatus
<1>5. Got(ListedStatus(pid)) /\ dead' = Without(pid)
  BY DEF WaitRip
<1>6. /\ Becomes(tab, tab', Gone) /\ i' \in Nat \ {0}
      /\ answer' \in Status \cup {"none", "nochild", "interrupted"}
      /\ pc' \in {"bgloop", "hup", "return", "crashed", "waitjob"} /\ (pc' = "waitjob" => slot # 0)
  BY <1>1, <1>4, <1>5, GoneArePids, GotIs DEF JobsInv
<1>7. DeadList'
  BY <1>2, <1>3, <1>5 DEF DeadList, Entries
<1>8. UNCHANGED <<lastStopped, newjob, slot, pid>>
  BY DEF WaitRip, handler
<1>9. Locals'
  BY <1>6, <1>8 DEF JobsInv, Locals
<1>10. QED
  BY <1>2, <1>6, <1>7, <1>8, <1>9, Stepped

LEMMA BgLoopGood == ASSUME JobsInv, BgLoop PROVE Good
<1>1. KernelStep /\ Gone' = Gone
  BY KernelStays DEF JobsInv, BgLoop
<1>2. CASE Unfinished # {} /\ WaitForJob(Min(Unfinished), "bg") /\ UNCHANGED tab
  <2>1. Unfinished \subseteq Slots /\ Unfinished \subseteq Nat
    BY Slotted DEF Unfinished, Jobs
  <2>2. Min(Unfinished) \in Slots
    BY <1>2, <2>1, LeastIs
  <2>3. slot' \in Slots /\ i' = 1 /\ pc' = "waitjob"
    BY <1>2, <2>2 DEF WaitForJob
  <2>4. slot' \in 0 .. MaxJobs /\ slot' # 0
    BY <2>3, Slotted DEF Slots
  <2>5. UNCHANGED <<kernel, tab, newjob, dead, lastStopped, pid, answer>>
    BY <1>2 DEF BgLoop, handler
  <2>6. Locals'
    BY <2>3, <2>4, <2>5 DEF JobsInv, Locals
  <2>7. QED
    BY <2>3, <2>5, <2>6, Walks
<1>3. CASE /\ tab' = [tab EXCEPT !.slots = [k \in Slots |->
                         IF k \in Jobs /\ Complete(@[k]) THEN Flag(@[k], "notified") ELSE @[k]]]
           /\ pc' = "bgclear" /\ UNCHANGED <<slot, i, mode>>
  <2> DEFINE s == [k \in Slots |-> IF k \in Jobs /\ Complete(tab.slots[k])
                                   THEN Flag(tab.slots[k], "notified") ELSE tab.slots[k]]
  <2>1. Sound(tab, Gone) /\ tab \in Table
    BY DEF JobsInv, Sound
  <2>2. \A k \in Slots : Sane(s[k], Gone) /\ SameJob(s[k], tab.slots[k])
    <3>1. TAKE k \in Slots
    <3>2. Sane(tab.slots[k], Gone)
      BY <2>1 DEF Sound
    <3>3. Sane(Flag(tab.slots[k], "notified"), Gone) /\ SameJob(Flag(tab.slots[k], "notified"), tab.slots[k])
      BY <3>2, FlagIs DEF JobFlags
    <3>4. SameJob(tab.slots[k], tab.slots[k])
      BY DEF SameJob
    <3>5. QED
      BY <3>2, <3>3, <3>4
  <2>3. s \in [Slots -> Job]
    BY <2>2 DEF Sane
  <2>4. tab' = [tab EXCEPT !.slots = s]
    BY <1>3, <2>1 DEF Table
  <2> HIDE DEF s
  <2>5. Becomes(tab, tab', Gone)
    BY <2>1, <2>2, <2>3, <2>4, AllChanged
  <2>6. UNCHANGED <<newjob, dead, lastStopped, pid, answer, slot, i>> /\ pc' = "bgclear"
    BY <1>3 DEF BgLoop, handler
  <2>7. Locals'
    BY <2>6 DEF JobsInv, Locals
  <2>8. QED
    BY <1>1, <2>5, <2>6, <2>7, TurnsAlone
<1>4. QED
  BY <1>2, <1>3 DEF BgLoop

LEMMA BgClearGood == ASSUME JobsInv, BgClear PROVE Good
<1>1. KernelStep /\ Gone' = Gone
  BY KernelStays DEF JobsInv, BgClear
<1>2. Becomes(tab, tab', Gone)
  BY RemoveDeadKeeps DEF JobsInv, BgClear
<1>3. lastStopped' = lastStopped /\ newjob' = newjob /\ dead' = <<>> /\ pc' = "return" /\ UNCHANGED locals
  BY DEF BgClear, handler, locals
<1>4. Locals'
  BY <1>3, LocalsStay DEF JobsInv, Locals
<1>5. QED
  BY <1>1, <1>2, <1>3, <1>4, TurnsAlone

LEMMA FinIs ==
  ASSUME NEW G, Sound(tab, G), NEW S, S \subseteq Finished, S # {}, Fin(Min(S))
  PROVE  Becomes(tab, tab', G) /\ answer' \in Status /\ pc' = "return"
<1>1. S \subseteq Nat /\ \A k \in S : k \in Slots /\ tab.slots[k].num # 0 /\ Complete(tab.slots[k])
  BY Slotted DEF Finished, Jobs
<1>2. Min(S) \in S
  BY <1>1, LeastIs
<1>3. Becomes(tab, RemoveJob(tab, Min(S)), G)
  BY <1>1, <1>2, CompleteForgotten
<1>4. tab.slots[Min(S)].status \in Status
  BY <1>1, <1>2, TableIs DEF Sound
<1>5. QED
  BY <1>3, <1>4 DEF Fin

LEMMA AnyGood == ASSUME JobsInv, WaitAny \/ AnyDone PROVE Good
<1>1. KernelStep /\ Gone' = Gone
  BY KernelStays DEF JobsInv, WaitAny, AnyDone
<1>2. Untold \subseteq Finished
  BY DEF Untold
<1>3. \/ Untold # {} /\ Fin(Min(Untold))
      \/ Finished # {} /\ Fin(Min(Finished))
      \/ pc' = "anyloop" /\ answer' = answer /\ tab' = tab
  BY DEF WaitAny, AnyDone
<1>4. Becomes(tab, tab', Gone) /\ (answer' \in Status \/ answer' = answer) /\ pc' \in {"return", "anyloop"}
  BY <1>2, <1>3, FinIs, Remains DEF JobsInv
<1>5. UNCHANGED <<lastStopped, slot, i, pid, newjob, dead>>
  BY DEF WaitAny, AnyDone, handler
<1>6. Locals'
  BY <1>4, <1>5 DEF JobsInv, Locals
<1>7. QED
  BY <1>1, <1>4, <1>5, <1>6, TurnsAlone

LEMMA AnyCollectGood == ASSUME JobsInv, NEW p \in Pids, AnyCollect(p) PROVE Good
<1> DEFINE s == report[p]
           k == JobByPid(tab, p)
           j == tab.slots[k]
           h == SetJobStatus(SetPidStatus(j, p, s), p, s)
           t == [tab EXCEPT !.slots[k] = h]
           u == IF k = 0 THEN tab ELSE t
<1>1. s \in Status /\ s \in Ended /\ Collected({p}) /\ Kernel
  BY DEF JobsInv, Kernel, AnyCollect, Status
<1>2. KernelStep /\ p \in Gone'
  BY <1>1, CollectedIs
<1>3. Sound(tab, Gone') /\ Gone' \subseteq Pids
  BY <1>2, SoundGrows DEF JobsInv, KernelStep, Gone
<1>4. k # 0 => k \in Slots
  BY PidIsIn
<1>5. k # 0 => [tab EXCEPT !.slots[k] = SetJobStatus(SetPidStatus(@, p, s), p, s)] = t
  BY <1>3, <1>4 DEF Sound, Table
<1>6. tab' = RemoveDead(u)
  BY <1>5 DEF AnyCollect
<1>7. Becomes(tab, u, Gone')
  <2>1. CASE k = 0
    BY <1>3, <2>1, Remains
  <2>2. CASE k # 0
    <3>1. Sane(j, Gone')
      BY <1>3, <1>4, <2>2 DEF Sound
    <3> HIDE DEF s
    <3>2. Sane(h, Gone') /\ SameJob(h, j)
      BY <1>1, <1>2, <1>3, <3>1, BookedIs
    <3> HIDE DEF h, k
    <3>3. QED
      BY <1>3, <1>4, <2>2, <3>2, Changed1
  <2>3. QED
    BY <2>1, <2>2
<1> HIDE DEF u
<1>8. Becomes(tab, tab', Gone')
  <2>1. Becomes(u, RemoveDead(u), Gone')
    BY <1>7, RemoveDeadKeeps DEF Becomes
  <2>2. QED
    BY <1>6, <1>7, <2>1, ThenBecomes
<1>9. lastStopped' = lastStopped /\ newjob' = newjob /\ dead' = dead /\ pc' = "anydone" /\ UNCHANGED locals
  BY DEF AnyCollect, handler, locals
<1>10. Locals'
  BY <1>9, LocalsStay DEF JobsInv, Locals
<1>11. QED
  BY <1>2, <1>8, <1>9, <1>10, Turns

LEMMA HupGood == ASSUME JobsInv, Hup PROVE Good
<1> DEFINE todo == {k \in Jobs : k > slot /\ ~Flagged(tab.slots[k], "disowned")}
           k == Min(todo)
           h == Signalled(tab.slots[k], FALSE)
<1>1. todo \subseteq Slots /\ todo \subseteq Nat
  BY Slotted DEF Jobs
<1>2. CASE todo = {}
  <2>1. UNCHANGED <<kernel, tab, newjob, dead, lastStopped, pid, answer, slot, i>> /\ pc' = "exited"
    BY <1>2 DEF Hup, handler
  <2>2. Locals'
    BY <2>1 DEF JobsInv, Locals
  <2>3. QED
    BY <2>1, <2>2, Walks
<1>3. CASE todo # {}
  <2>1. /\ tab' = [tab EXCEPT !.slots[k] = Signalled(@, FALSE)]
        /\ Continued(Members(tab.slots[k]))
        /\ WaitForJob(k, "hup")
        /\ UNCHANGED <<newjob, dead, lastStopped, pid, answer>>
    BY <1>3 DEF Hup, handler
  <2>2. k \in Slots
    <3> HIDE DEF todo
    <3>1. k \in todo
      BY <1>1, <1>3, LeastIs
    <3>2. QED
      BY <1>1, <3>1
  <2> HIDE DEF todo, k
  <2>3. Sound(tab, Gone) /\ Sane(tab.slots[k], Gone)
    BY <2>2 DEF JobsInv, Sound
  <2>4. Sane(h, Gone) /\ SameJob(h, tab.slots[k])
    BY <2>3, SignalledIs
  <2>5. tab' = [tab EXCEPT !.slots[k] = h]
    BY <2>1, <2>2, <2>3 DEF Sound, Table
  <2> HIDE DEF h
  <2>6. Becomes(tab, tab', Gone)
    BY <2>2, <2>3, <2>4, <2>5, Changed1
  <2>7. KernelStep /\ Gone' = Gone
    BY <2>1, ContinuedIs DEF JobsInv
  <2>8. Locals' /\ pc' = "waitjob"
    BY <2>1, <2>2, Slotted DEF WaitForJob, JobsInv, Locals, Slots
  <2>9. QED
    BY <2>1, <2>6, <2>7, <2>8, TurnsAlone
<1>4. QED
  BY <1>2, <1>3

-----------------------------------------------------------------------------
(* The actions on the job under construction.                                *)

\* The table is kept, or takes the job under construction in.
LEMMA Built ==
  ASSUME JobsInv, KernelStep, DeadList', Sound(tab', Gone'), Keeps(tab, tab', Gone'),
         Held(tab') \subseteq Held(tab) \cup Members(newjob), Locals', NewOne',
         \A p \in Members(newjob') : proc'[p] # "unborn"
  PROVE  Good
<1>1. Held(tab) \subseteq Pids /\ Members(newjob) \subseteq Pids
  BY MembersInPids DEF JobsInv, NewOne, Sound, Held
<1>2. Members(newjob)' = Members(newjob') /\ Held(tab)' = Held(tab')
  BY DEF Members, Held
<1>3. Born'
  BY <1>1, <1>2 DEF JobsInv, Born, KernelStep
<1>4. QED
  BY <1>3 DEF Good, JobsInv, KernelStep

LEMMA NoJobIs == NoJob \in Job /\ Members(NoJob) = {} /\ \A G : Sane(NoJob, G)
<1>1. NoJob \in Job
  BY DEF NoJob, Job, Status, Ended
<1>2. NoJob.count = 0 /\ NoJob.procs = <<>> /\ NoJob.exits = {}
  BY DEF NoJob
<1>3. QED
  BY <1>1, <1>2 DEF Members, Sane

LEMMA NewJobIs ==
  ASSUME NEW p \in Pids, NEW flags, flags \subseteq JobFlags
  PROVE  /\ \A G : Sane(NewJob(p, flags), G)
         /\ NewJob(p, flags).count = Len(NewJob(p, flags).procs) /\ NewJob(p, flags).count >= 1
         /\ Members(NewJob(p, flags)) = {p}
<1> DEFINE g == IF monitor THEN p ELSE NoPid
           f == flags \cup (IF monitor THEN {"control"} ELSE {})
           h == [NoJob EXCEPT !.procs = <<p>>, !.count = 1, !.pgid = g, !.flags = f]
           z == NoJob
<1>1. g \in Pids \cup {NoPid} /\ f \subseteq JobFlags
  BY DEF JobFlags
<1>2. z \in Job /\ z.exits = {} /\ <<p>> \in Seq(Pids)
  BY NoJobIs DEF NoJob
<1> HIDE DEF g, f, z
<1>3. h \in Job /\ h.count = 1 /\ h.procs = <<p>> /\ h.exits = {}
  BY <1>1, <1>2 DEF Job, z
<1>4. h = NewJob(p, flags)
  BY DEF NewJob, g, f
<1> HIDE DEF h
<1>5. (\A G : Sane(h, G)) /\ Members(h) = {p} /\ h.count = Len(h.procs) /\ h.count >= 1
  BY <1>3 DEF Sane, Members
<1>6. QED
  BY <1>4, <1>5

LEMMA LaunchGood == ASSUME JobsInv, NEW p \in Pids, Launch(p) PROVE Good
<1>1. KernelStep /\ Gone' = Gone /\ proc'[p] = "running" /\ proc[p] = "unborn"
  BY ForkIs DEF JobsInv, Launch, Fork
<1>2. newjob' = NewJob(p, {}) /\ pc' = "adding"
  BY DEF Launch
<1>3. Sane(newjob', Gone') /\ newjob'.count = Len(newjob'.procs) /\ Members(newjob') = {p}
  <2>1. /\ Sane(NewJob(p, {}), Gone') /\ NewJob(p, {}).count = Len(NewJob(p, {}).procs)
        /\ Members(NewJob(p, {})) = {p}
    BY NewJobIs
  <2>2. QED
    BY <1>2, <2>1
<1>4. UNCHANGED <<tab, dead, lastStopped, slot, i, pid, answer>>
  BY DEF Launch, handler
<1>5. NewOne'
  <2>1. p \notin Held(tab)
    BY <1>1 DEF JobsInv, Born
  <2>2. Members(newjob)' = Members(newjob') /\ Held(tab)' = Held(tab)
    BY <1>4 DEF Members, Held
  <2>3. QED
    BY <1>2, <1>3, <2>1, <2>2 DEF NewOne
<1>6. Locals'
  BY <1>2, <1>4 DEF JobsInv, Locals
<1>7. DeadList'
  BY <1>1, <1>4, DeadStays DEF JobsInv
<1>8. Sound(tab', Gone') /\ Keeps(tab, tab', Gone') /\ Held(tab') \subseteq Held(tab)
  BY <1>1, <1>4, Remains DEF JobsInv, Becomes
<1>9. QED
  BY <1>1, <1>3, <1>5, <1>6, <1>7, <1>8, Built

LEMMA AddJobGood == ASSUME JobsInv, AddJob PROVE Good
<1>1. KernelStep /\ Gone' = Gone
  BY KernelStays DEF JobsInv, AddJob
<1>2. newjob' = NoJob /\ pc' = "idle" /\ UNCHANGED <<dead, lastStopped, slot, i, pid, answer>>
  BY DEF AddJob, handler
<1>3. /\ Sound(tab', Gone) /\ Held(tab') \subseteq Held(tab) \cup Members(newjob)
      /\ Keeps(tab, tab', Gone)
  <2>1. CASE Room(tab)
    <3>1. tab' = Add(tab, newjob)
      BY <2>1 DEF AddJob
    <3>2. Sound(tab, Gone) /\ Sane(newjob, Gone) /\ Members(newjob) \cap Held(tab) = {}
      BY DEF JobsInv, NewOne
    <3>3. /\ Sound(tab', Gone) /\ Held(tab') \subseteq Held(tab) \cup Members(newjob)
          /\ \A k \in Slots : tab.slots[k].num # 0 => tab'.slots[k] = tab.slots[k]
      BY <2>1, <3>1, <3>2, AddIs
    <3>4. Keeps(tab, tab', Gone)
      BY <3>3 DEF Keeps, SameJob
    <3>5. QED
      BY <3>3, <3>4
  <2>2. CASE ~Room(tab)
    <3>1. tab' = tab
      BY <2>2 DEF AddJob
    <3>2. QED
      BY <3>1, Remains DEF JobsInv, Becomes
  <2>3. QED
    BY <2>1, <2>2
<1>4. NewOne'
  <2>1. Members(newjob)' = {}
    BY <1>2, NoJobIs DEF Members
  <2>2. Sane(newjob', Gone') /\ newjob'.count = Len(newjob'.procs)
    BY <1>2, NoJobIs DEF NoJob
  <2>3. QED
    BY <1>2, <2>1, <2>2 DEF NewOne
<1>5. Locals'
  BY <1>2 DEF JobsInv, Locals
<1>6. DeadList'
  BY <1>1, <1>2, DeadStays DEF JobsInv
<1>7. QED
  BY <1>1, <1>2, <1>3, <1>4, <1>5, <1>6, NoJobIs, Built

LEMMA LongerIs ==
  ASSUME NEW G, NEW j, Sane(j, G), j.count = Len(j.procs), NEW p \in Pids
  PROVE  LET h == [j EXCEPT !.procs = Append(@, p), !.count = @ + 1]
         IN  /\ Sane(h, G) /\ h.count = Len(h.procs) /\ h.count >= 1
             /\ Members(h) \subseteq Members(j) \cup {p}
<1> DEFINE q == Append(j.procs, p)
           n == j.count + 1
           h == [j EXCEPT !.procs = q, !.count = n]
<1>1. j \in Job /\ j.procs \in Seq(Pids) /\ j.count \in Nat
  BY DEF Sane, Job
<1>2. q \in Seq(Pids) /\ n \in Nat /\ n >= 1 /\ Len(q) = n /\ q[n] = p
      /\ \A m \in 1 .. j.count : q[m] = j.procs[m]
  BY <1>1
<1>3. h = [j EXCEPT !.procs = Append(@, p), !.count = @ + 1]
  BY <1>1 DEF Job
<1> HIDE DEF q
<1>4. n = j.count + 1 /\ \A m \in 1 .. n : m = n \/ m \in 1 .. j.count
  BY <1>1
<1> HIDE DEF n
<1>5. h \in Job /\ h.procs = q /\ h.count = n /\ h.exits = j.exits
  BY <1>1, <1>2 DEF Job
<1> HIDE DEF h
<1>6. Sane(h, G) /\ h.count = Len(h.procs) /\ h.count >= 1
  BY <1>2, <1>5 DEF Sane
<1>7. Members(h) \subseteq Members(j) \cup {p}
  BY <1>2, <1>4, <1>5 DEF Members
<1>8. QED
  BY <1>3, <1>6, <1>7

LEMMA StartForegroundGood == ASSUME JobsInv, NEW p \in Pids, StartForeground(p) PROVE Good
<1>1. KernelStep /\ Gone' = Gone /\ proc'[p] = "running" /\ proc[p] = "unborn"
  BY ForkIs DEF JobsInv, StartForeground, Fork
<1>2. UNCHANGED <<tab, dead, lastStopped, slot, i, pid, answer>> /\ pc' = "forking"
  BY DEF StartForeground, handler
<1>3. p \notin Held(tab) /\ Members(newjob) \subseteq Pids
  BY <1>1, MembersInPids DEF JobsInv, Born, NewOne
<1>4. /\ Sane(newjob', Gone') /\ newjob'.count = Len(newjob'.procs) /\ newjob'.count >= 1
      /\ Members(newjob') \subseteq Members(newjob) \cup {p}
  <2>1. CASE pc = "idle"
    <3>1. newjob' = NewJob(p, {"fg"}) /\ {"fg"} \subseteq JobFlags
      BY <2>1 DEF StartForeground, JobFlags
    <3>2. /\ Sane(NewJob(p, {"fg"}), Gone') /\ NewJob(p, {"fg"}).count = Len(NewJob(p, {"fg"}).procs)
          /\ NewJob(p, {"fg"}).count >= 1 /\ Members(NewJob(p, {"fg"})) = {p}
      BY <3>1, NewJobIs
    <3>3. QED
      BY <3>1, <3>2
  <2>2. CASE pc # "idle"
    <3>1. newjob' = [newjob EXCEPT !.procs = Append(@, p), !.count = @ + 1]
      BY <2>2 DEF StartForeground
    <3>2. Sane(newjob, Gone') /\ newjob.count = Len(newjob.procs)
      BY <1>1 DEF JobsInv, NewOne
    <3>3. QED
      BY <3>1, <3>2, LongerIs
  <2>3. QED
    BY <2>1, <2>2
<1>5. NewOne'
  <2>1. Members(newjob)' = Members(newjob') /\ Held(tab)' = Held(tab)
    BY <1>2 DEF Members, Held
  <2>2. Members(newjob') \cap Held(tab) = {}
    BY <1>3, <1>4 DEF JobsInv, NewOne
  <2>3. QED
    BY <1>4, <2>1, <2>2 DEF NewOne
<1>6. \A q \in Members(newjob') : proc'[q] # "unborn"
  BY <1>1, <1>3, <1>4 DEF JobsInv, Born, KernelStep
<1>7. Locals'
  BY <1>2 DEF JobsInv, Locals
<1>8. DeadList'
  BY <1>1, <1>2, DeadStays DEF JobsInv
<1>9. Sound(tab', Gone') /\ Keeps(tab, tab', Gone') /\ Held(tab') \subseteq Held(tab)
  BY <1>1, <1>2, Remains DEF JobsInv, Becomes
<1>10. QED
  BY <1>1, <1>5, <1>6, <1>7, <1>8, <1>9, Built

LEMMA FgCollectGood == ASSUME JobsInv, FgCollect PROVE Good
<1> DEFINE s == ListedStatus(pid)
           signal == monitor /\ s \in {"stop", "killed"}
           marked == SetPidStatus(newjob, pid, s)
           job == IF signal THEN marked ELSE SetJobStatus(marked, pid, s)
           left == (1 .. job.count) \ Marked(job)
           F == Entries(Gone)
<1>1. pid \in Pids /\ pc = "fgwait" /\ Sound(tab, Gone) /\ Listed(pid) /\ Sane(newjob, Gone)
  BY DEF JobsInv, Locals, FgCollect, NewOne
<1>2. KernelStep /\ Gone' = Gone
  BY KernelStays DEF JobsInv, FgCollect
<1>3. dead[Place(pid)] \in F /\ dead[Place(pid)].pid = pid /\ Without(pid) \in Seq(F)
  <2>1. dead \in Seq(F)
    BY DEF JobsInv, DeadList
  <2> HIDE DEF F
  <2>2. QED
    BY <1>1, <2>1, PlaceIs
<1>4. s \in Status /\ (s \in Ended => pid \in Gone)
  BY <1>3 DEF Entries, ListedStatus
<1>5. Sane(job, Gone) /\ SameJob(job, newjob)
  <2>1. Sane(marked, Gone) /\ SameJob(marked, newjob)
    BY <1>1, <1>4, GoneArePids, PidStatusIs
  <2>2. Sane(SetJobStatus(marked, pid, s), Gone) /\ SameJob(SetJobStatus(marked, pid, s), newjob)
    BY <1>1, <1>4, GoneArePids, BookedIs
  <2>3. QED
    BY <2>1, <2>2
<1>6. /\ dead' = IF signal THEN Append(Without(pid), [pid |-> pid, status |-> s]) ELSE Without(pid)
      /\ tab'  = IF signal THEN SetCurJob(tab, 0) ELSE tab
      /\ \/ /\ pc' \in {"idle", "adding"}
            /\ newjob' = NoJob \/ newjob' = job
            /\ pid' = pid
         \/ /\ left # {}
            /\ pid'    = job.procs[Min(left)]
            /\ newjob' = job
            /\ pc' = pc
  BY DEF FgCollect
<1>7. DeadList'
  <2>1. [pid |-> pid, status |-> s] \in F
    BY <1>1, <1>4 DEF Entries
  <2> HIDE DEF F, s, signal
  <2>2. Append(Without(pid), [pid |-> pid, status |-> s]) \in Seq(F)
    BY <1>3, <2>1, AppendIs
  <2>3. dead' \in Seq(F)
    BY <1>3, <1>6, <2>2
  <2>4. Entries(Gone)' = Entries(Gone)
    BY <1>2 DEF Entries
  <2>5. QED
    BY <2>3, <2>4 DEF DeadList, F
<1> HIDE DEF s, signal, marked, job
<1>8. Becomes(tab, tab', Gone)
  BY <1>1, <1>6, CurJobKeeps, Remains
<1>9. pid' \in Pids
  <2>1. CASE pid' = pid
    BY <1>1, <2>1
  <2>2. CASE left # {} /\ pid' = job.procs[Min(left)]
    <3>1. left \subseteq Nat /\ left \subseteq 1 .. job.count
      BY <1>5 DEF Sane, Job
    <3>2. Min(left) \in 1 .. job.count
      <4> HIDE DEF left
      <4>1. QED
        BY <2>2, <3>1, LeastIs
    <3>3. job.procs \in Seq(Pids) /\ job.count \in Nat /\ job.count <= Len(job.procs)
      BY <1>5 DEF Sane, Job
    <3> DEFINE m == Min(left)
    <3> HIDE DEF m
    <3>4. m \in 1 .. job.count => job.procs[m] \in Pids
      BY <3>3
    <3>5. QED
      BY <2>2, <3>2, <3>4 DEF m
  <2>3. QED
    BY <1>6, <2>1, <2>2
<1>10. Locals'
  <2>1. UNCHANGED <<lastStopped, slot, i, answer>>
    BY DEF FgCollect, handler
  <2>2. pc' # "waitjob"
    BY <1>1, <1>6
  <2>3. QED
    BY <1>9, <2>1, <2>2 DEF JobsInv, Locals
<1>11. /\ Sane(newjob', Gone) /\ newjob'.count = Len(newjob'.procs)
       /\ Members(newjob') \subseteq Members(newjob) /\ pc' # "forking"
  <2>1. newjob.count = Len(newjob.procs)
    BY DEF JobsInv, NewOne
  <2>2. CASE newjob' = NoJob
    BY <1>1, <1>6, <2>2, NoJobIs DEF NoJob
  <2>3. CASE newjob' = job
    BY <1>1, <1>5, <1>6, <2>1, <2>3, SameMembers DEF SameJob
  <2>4. QED
    BY <1>6, <2>2, <2>3
<1>12. NewOne'
  <2>1. Members(newjob)' = Members(newjob') /\ Held(tab)' = Held(tab')
    BY DEF Members, Held
  <2>2. Members(newjob') \cap Held(tab') = {}
    BY <1>8, <1>11 DEF JobsInv, NewOne, Becomes
  <2>3. QED
    BY <1>2, <1>11, <2>1, <2>2 DEF NewOne
<1>13. \A p \in Members(newjob') : proc'[p] # "unborn"
  BY <1>1, <1>2, <1>11, MembersInPids DEF JobsInv, Born, KernelStep
<1>14. QED
  BY <1>2, <1>7, <1>8, <1>10, <1>12, <1>13, Built DEF Becomes

-----------------------------------------------------------------------------
(* All steps.                                                                *)

LEMMA InitJobs == Init => JobsInv
<1> SUFFICES ASSUME Init PROVE JobsInv
  OBVIOUS
<1> DEFINE z == NoJob
<1>1. z \in Job /\ z.num = 0 /\ z.count = 0 /\ Members(z) = {} /\ \A G : Sane(z, G)
  BY NoJobIs DEF NoJob
<1>2. Kernel
  BY DEF Init, Kernel, Ended
<1>3. DeadList
  BY DEF Init, DeadList
<1>4. tab = [slots |-> [k \in Slots |-> z], cur |-> 0, prev |-> 0, total |-> 0]
  BY DEF Init
<1>5. newjob = z /\ z.count = Len(z.procs) /\ pc = "idle"
  BY DEF Init, NoJob
<1> HIDE DEF z
<1>6. Sound(tab, Gone)
  <2>1. tab \in Table
    BY <1>1, <1>4, Slotted DEF Table
  <2>2. \A k \in Slots : tab.slots[k] = z
    BY <1>4
  <2>3. tab.total = 0
    BY <1>4
  <2>4. \A k \in Slots : ~(k <= 0)
    BY Slotted DEF Slots
  <2>5. /\ \A k \in Slots : Sane(tab.slots[k], Gone)
        /\ \A k \in Slots : tab.slots[k].num # 0 <=> k <= tab.total
        /\ \A k \in Slots : tab.slots[k].num = 0 => tab.slots[k].count = 0
    BY <1>1, <2>2, <2>3, <2>4
  <2>6. \A k, l \in Slots : k < l /\ l <= tab.total => tab.slots[k].num < tab.slots[l].num
    BY <2>3, <2>4
  <2>7. \A k, l \in Slots : k # l => Members(tab.slots[k]) \cap Members(tab.slots[l]) = {}
    BY <1>1, <2>2
  <2>8. QED
    BY <2>1, <2>5, <2>6, <2>7 DEF Sound
<1>7. Held(tab) = {}
  BY <1>1, <1>4 DEF Held
<1>8. NewOne /\ Born
  BY <1>1, <1>5, <1>7 DEF NewOne, Born
<1>9. Locals
  BY Slotted DEF Init, Locals
<1>10. QED
  BY <1>2, <1>3, <1>6, <1>8, <1>9 DEF JobsInv

LEMMA StepGood == JobsInv /\ HandInv /\ [Next]_vars => Good
<1> SUFFICES ASSUME JobsInv, HandInv, [Next]_vars PROVE Good
  OBVIOUS
<1>1. CASE UNCHANGED vars
  <2>1. UNCHANGED <<kernel, tab, newjob, dead, lastStopped, slot, i, pid, answer, pc>>
    BY <1>1 DEF vars, handler, locals
  <2>2. Locals'
    BY <2>1 DEF JobsInv, Locals
  <2>3. QED
    BY <2>1, <2>2, Walks
<1>2. ASSUME NEW p \in Pids, Child(p) PROVE Good
  BY <1>2, ChildGood
<1>3. CASE Handler
  BY <1>3, EnterGood, ReapGood, EndGood DEF Handler
<1>4. CASE Start
  BY <1>4, LaunchGood, StartForegroundGood DEF Start
<1>5. CASE Proceed
  <2>1. CASE AddJob \/ StartWait \/ FgCollect
    BY <2>1, AddJobGood, StartWaitGood, FgCollectGood
  <2>2. CASE CheckEntry \/ CheckReset \/ (\E p \in Pids : Drain(p)) \/ DrainEnd
    BY <2>2, CheckEntryGood, CheckGood, DrainGood
  <2>3. CASE NextProcess \/ WaitCollect \/ WaitRip \/ WaitNoChild \/ WaitOn \/ Return
    BY <2>3, NextProcessGood, WaitCollectGood, WaitRipGood, WaitEndsGood
  <2>4. CASE BgLoop \/ BgClear \/ AnyLoop \/ (\E p \in Pids : AnyCollect(p)) \/ AnyDone \/ AnyNoChild
    BY <2>4, BgLoopGood, BgClearGood, WaitBgGood, AnyCollectGood, AnyGood
  <2>5. CASE Hup
    BY <2>5, HupGood
  <2>6. QED
    BY <1>5, <2>1, <2>2, <2>3, <2>4, <2>5 DEF Proceed
<1>6. CASE WaitInterrupted \/ AnyInterrupted
  BY <1>6, ListGood
<1>7. CASE Builtin
  <2>1. ASSUME NEW k \in Jobs,
               \/ \E cont \in BOOLEAN : Kill(k, cont)
               \/ \E nohup \in BOOLEAN : Disown(k, nohup)
               \/ Bg(k) \/ Fg(k) \/ Notify(k) \/ WaitJobId(k)
        PROVE  Good
    <3>1. k \in Slots
      BY DEF Jobs
    <3>2. QED
      BY <2>1, <3>1, KillGood, DisownGood, BgGood, FgGood, NotifyGood, WaitJobIdGood
  <2>2. CASE \E nohup \in BOOLEAN, filter \in Filters : DisownAll(nohup, filter)
    BY <2>2, DisownAllGood
  <2>3. CASE WaitBg \/ WaitAny \/ \E p \in Pids : WaitPid(p)
    BY <2>3, WaitBgGood, AnyGood, WaitPidGood
  <2>4. CASE List \/ Leave \/ CheckOnChildren
    BY <2>4, ListGood, WaitBgGood, CheckGood
  <2>5. QED
    BY <1>7, <2>1, <2>2, <2>3, <2>4 DEF Builtin
<1>8. QED
  BY <1>1, <1>2, <1>3, <1>4, <1>5, <1>6, <1>7 DEF Next, Uncounted, Command

\* Only the handler touches what it has in hand.
LEMMA HandApart ==
  ASSUME [Next]_vars
  PROVE  UNCHANGED held \/ HandlerEnter \/ HandlerExit \/ HandlerPause \/ HandlerResume
<1> DEFINE Apart == UNCHANGED held
<1>1. CASE UNCHANGED vars
  BY <1>1 DEF vars, handler
<1>2. ASSUME NEW p \in Pids, Child(p) PROVE Apart
  BY <1>2 DEF Child, Exit, Stop, Cont, Change, handler
<1>3. ASSUME NEW p \in Pids, HandlerReap(p) PROVE Apart
  BY <1>3 DEF HandlerReap
<1>4. CASE Start
  BY <1>4 DEF Start, Launch, StartForeground, handler
<1>5. CASE Proceed
  <2>1. CASE AddJob \/ StartWait \/ FgCollect
    BY <2>1 DEF AddJob, StartWait, FgCollect, handler
  <2>2. CASE CheckEntry \/ CheckReset \/ (\E p \in Pids : Drain(p)) \/ DrainEnd
    BY <2>2 DEF CheckEntry, CheckReset, Drain, DrainEnd, handler
  <2>3. CASE NextProcess \/ WaitCollect \/ WaitRip \/ WaitNoChild \/ WaitOn \/ Return
    BY <2>3 DEF NextProcess, WaitCollect, WaitRip, WaitNoChild, WaitOn, Return, handler
  <2>4. CASE BgLoop \/ BgClear \/ AnyLoop \/ (\E p \in Pids : AnyCollect(p)) \/ AnyDone \/ AnyNoChild
    BY <2>4 DEF BgLoop, BgClear, AnyLoop, AnyCollect, AnyDone, AnyNoChild, handler
  <2>5. CASE Hup
    BY <2>5 DEF Hup, handler
  <2>6. QED
    BY <1>5, <2>1, <2>2, <2>3, <2>4, <2>5 DEF Proceed
<1>6. CASE WaitInterrupted \/ AnyInterrupted
  BY <1>6 DEF WaitInterrupted, AnyInterrupted, handler
<1>7. CASE Builtin
  <2>1. ASSUME NEW k \in Jobs,
               \/ \E cont \in BOOLEAN : Kill(k, cont)
               \/ \E nohup \in BOOLEAN : Disown(k, nohup)
               \/ Bg(k) \/ Fg(k) \/ Notify(k) \/ WaitJobId(k)
        PROVE  Apart
    BY <2>1 DEF Kill, Disown, Bg, Fg, Notify, WaitJobId, handler
  <2>2. CASE \E nohup \in BOOLEAN, filter \in Filters : DisownAll(nohup, filter)
    BY <2>2 DEF DisownAll, handler
  <2>3. CASE WaitBg \/ WaitAny \/ \E p \in Pids : WaitPid(p)
    BY <2>3 DEF WaitBg, WaitAny, WaitPid, handler
  <2>4. CASE List \/ Leave \/ CheckOnChildren
    BY <2>4 DEF List, Leave, CheckOnChildren, handler
  <2>5. QED
    BY <1>7, <2>1, <2>2, <2>3, <2>4 DEF Builtin
<1>8. QED
  BY <1>1, <1>2, <1>3, <1>4, <1>5, <1>6, <1>7 DEF Next, Uncounted, Command, Handler

LEMMA FirstIs == ASSUME NEW S, S \subseteq Slots PROVE FirstOr0(S) \in 0 .. MaxJobs
<1>1. 0 \in 0 .. MaxJobs /\ S \subseteq 0 .. MaxJobs /\ S \subseteq Nat
  BY Slotted DEF Slots
<1>2. CASE S = {}
  BY <1>1, <1>2 DEF FirstOr0
<1>3. CASE S # {}
  <2>1. Min(S) \in S
    BY <1>1, <1>3, LeastIs
  <2>2. FirstOr0(S) = Min(S)
    BY <1>3 DEF FirstOr0
  <2>3. QED
    BY <1>1, <2>1, <2>2
<1>4. QED
  BY <1>2, <1>3

LEMMA HandKept == JobsInv /\ HandInv /\ [Next]_vars => HandInv'
<1> SUFFICES ASSUME JobsInv, HandInv, [Next]_vars PROVE HandInv'
  OBVIOUS
<1>1. CASE UNCHANGED held
  BY <1>1 DEF HandInv
<1>2. CASE HandlerExit \/ HandlerResume
  <2>1. held' = held \/ held' = Nothing
    BY <1>2 DEF HandlerExit, HandlerResume
  <2>2. Nothing \in InHand
    BY Slotted DEF Nothing, InHand
  <2>3. QED
    BY <2>1, <2>2 DEF HandInv
<1>3. CASE HandlerPause
  <2>1. Chosen.cur \in Nat /\ Chosen.prev \in Nat
    BY ChosenIs, TableIs
  <2>2. \A n : FirstOr0(SlotOf(tab, n)) \in 0 .. MaxJobs
    BY FirstIs DEF SlotOf, Used
  <2>3. held' \in InHand /\ Reentrant
    BY <1>3, <2>1, <2>2, Slotted DEF HandlerPause, InHand
  <2>4. QED
    BY <2>3 DEF HandInv
<1>4. QED
  BY <1>1, <1>2, <1>3, HandApart DEF HandlerEnter

THEOREM JobsInvAlways == Spec => [](JobsInv /\ HandInv)
<1>1. Init => HandInv
  <2>1. Nothing \in InHand
    BY Slotted DEF Nothing, InHand
  <2>2. QED
    BY <2>1 DEF Init, HandInv
<1>2. JobsInv /\ HandInv /\ [Next]_vars => (JobsInv /\ HandInv)'
  BY StepGood, HandKept DEF Good
<1>3. QED
  BY InitJobs, <1>1, <1>2, PTL DEF Spec

-----------------------------------------------------------------------------
(* The properties of Jobs.                                                   *)

\* Every variable keeps its type.
THEOREM TypesHold == Spec => []TypeOK
<1>1. JobsInv /\ HandInv => TypeOK
  <2> SUFFICES ASSUME JobsInv, HandInv PROVE TypeOK
    OBVIOUS
  <2>1. dead \in Seq([pid : Pids, status : Status])
    <3> DEFINE E == [pid : Pids, status : Status]
    <3>1. Entries(Gone) \subseteq E
      BY DEF Entries
    <3> HIDE DEF E
    <3>2. dead \in Seq(E)
      BY <3>1 DEF JobsInv, DeadList
    <3>3. QED
      BY <3>2 DEF E
  <2>2. ASSUME NEW k \in Slots
        PROVE  LET j == tab.slots[k] IN
               /\ j.num \in Nat /\ j.procs \in Seq(Pids) /\ j.count \in 0 .. Len(j.procs)
               /\ j.exits \subseteq Pids /\ j.pgid \in Pids \cup {NoPid} /\ j.status \in Status
               /\ j.flags \subseteq {"fg", "control", "notified", "notify", "disowned"}
    <3> DEFINE j == tab.slots[k]
    <3>1. j \in Job /\ j.count <= Len(j.procs)
      BY DEF JobsInv, Sound, Sane
    <3> HIDE DEF j
    <3>2. /\ j.num \in Nat /\ j.procs \in Seq(Pids) /\ j.count \in 0 .. Len(j.procs)
          /\ j.exits \subseteq Pids /\ j.pgid \in Pids \cup {NoPid} /\ j.status \in Status
          /\ j.flags \subseteq {"fg", "control", "notified", "notify", "disowned"}
      BY <3>1 DEF Job, JobFlags
    <3>3. QED
      BY <3>2 DEF j
  <2>3. {tab.cur, tab.prev, tab.total} \subseteq Nat
    BY TableIs DEF JobsInv, Sound
  <2>4. QED
    BY <2>1, <2>2, <2>3 DEF TypeOK, JobsInv, Kernel, Locals, HandInv, InHand
<1>2. QED
  BY <1>1, JobsInvAlways, PTL

\* A removal leaves no hole in the table and keeps the numbers in order, so
\* that a new job finds a slot and a number that no other job has.
THEOREM StaysPacked == Spec => []Packed
<1>1. JobsInv => Packed
  <2> SUFFICES ASSUME JobsInv PROVE Packed
    OBVIOUS
  <2> DEFINE n == tab.total
  <2>1. n \in Nat /\ n <= MaxJobs /\ MaxJobs \in Nat
    BY TableIs, Slotted DEF JobsInv, Sound
  <2>2. \A l : l \in Jobs <=> l \in 1 .. n
    BY <2>1 DEF JobsInv, Sound, Jobs, Slots
  <2>3. ASSUME NEW k \in Jobs, NEW l \in 1 .. k - 1
        PROVE  l \in Jobs /\ tab.slots[l].num < tab.slots[k].num
    <3>1. k \in 1 .. n /\ k \in Slots
      BY <2>1, <2>2 DEF Slots
    <3>2. l \in 1 .. n /\ l \in Slots /\ l < k /\ k <= n
      BY <2>1, <3>1 DEF Slots
    <3>3. QED
      BY <2>2, <3>1, <3>2 DEF JobsInv, Sound
  <2>4. Cardinality(Jobs) = n
    <3> HIDE DEF n
    <3>1. Jobs = 1 .. n
      BY <2>2
    <3>2. 1 \in Int /\ n \in Int
      BY <2>1
    <3>3. Cardinality(1 .. n) = IF 1 > n THEN 0 ELSE n - 1 + 1
      BY <3>2, FS_Interval
    <3>4. (IF 1 > n THEN 0 ELSE n - 1 + 1) = n
      BY <2>1
    <3>5. QED
      BY <3>1, <3>3, <3>4
  <2>5. QED
    BY <2>3, <2>4 DEF Packed
<1>2. QED
  BY <1>1, JobsInvAlways, PTL

\* No process is counted by two slots, used ones or those a removal left.
THEOREM NoneInTwoJobs == Spec => []OneJobEach
<1>1. JobsInv => OneJobEach
  BY MembersAre DEF JobsInv, Sound, OneJobEach
<1>2. QED
  BY <1>1, JobsInvAlways, PTL

\* Only a process that the kernel has given up is marked as exited.
THEOREM OnlyGoneAreMarked == Spec => []MarkedAreGone
<1>1. JobsInv => MarkedAreGone
  BY DEF JobsInv, Sound, Sane, MarkedAreGone, Jobs, Marked, Gone
<1>2. QED
  BY <1>1, JobsInvAlways, PTL

\* A job that leaves the table was disowned, or none of its processes is left.
THEOREM ForgottenWhenDone == Spec => LeavesWhenDone
<1> DEFINE Left == \A k \in Jobs : LET j == tab.slots[k] IN
                      \/ \E l \in Slots : tab'.slots[l].num = j.num /\ tab'.slots[l].procs = j.procs
                      \/ Disowning
                      \/ \A p \in Members(j) : proc'[p] = "gone"
<1>1. Keeps(tab, tab', Gone') \/ Disowning => Left
  BY DEF Keeps, SameJob, Jobs, Gone
<1> HIDE DEF Left
<1>2. JobsInv /\ HandInv /\ [Next]_vars => [Left]_vars
  BY <1>1, StepGood DEF Good
<1>3. Spec => [][Left]_vars
  BY <1>2, JobsInvAlways, PTL DEF Spec
<1>4. QED
  BY <1>3 DEF LeavesWhenDone, Left

\* SIGCHLD_handler() leaves a current and a previous job that are in the table,
\* if it is not interrupted by itself.
THEOREM CurrentAreThere == ASSUME ~Reentrant PROVE Spec => CurrentExists
<1> DEFINE There == {tab'.cur, tab'.prev} \subseteq {0} \cup {tab'.slots[k].num : k \in Slots}
<1>1. ASSUME JobsInv, HandlerExit PROVE There
  <2>1. tab' = Chosen
    BY <1>1 DEF HandlerExit
  <2>2. QED
    BY <1>1, <2>1, ChosenIs DEF IsNumber
<1>2. HandInv => ~HandlerResume
  BY DEF HandInv, HandlerResume
<1>3. JobsInv /\ HandInv /\ [Next]_vars => [HandlerExit \/ HandlerResume => There]_vars
  BY <1>1, <1>2
<1>4. QED
  BY <1>3, JobsInvAlways, PTL DEF Spec, CurrentExists, There

(***************************************************************************)
(* The builtin wait without job control: while no child was stopped, no    *)
(* exit status is lost (AccountedWithoutControl), and "wait pid" answers   *)
(* with the status of that process (WaitPidRight), for any children, table *)
(* size and builtins, and with or without the -b option.                   *)
(***************************************************************************)

\* Without job control a job is one background process.
Control   == {"fg", "control"}
Plain(j)  == j.count = 0 \/ (j.count = 1 /\ Control \cap j.flags = {})

\* Every process of the job is in S or is marked as exited.
Booked(j, S)    == Members(j) \subseteq S \cup j.exits
AllBooked(t, S) == \A k \in Slots : Plain(t.slots[k]) /\ Booked(t.slots[k], S)

\* The processes whose status is not lost: still there, or listed.
Safe == {p \in Pids : p \notin Gone \/ Listed(p)}

\* Links between the places of the main program and its variables.
Places ==
    /\ pc \in {"waitjob", "bgloop", "bgclear", "anyloop", "waitany", "anydone"} => mode # "pid"
    /\ pc = "waitpid" /\ mode = "pid" => pid = asked
    /\ pc \in {"check", "reset", "drain"} => monitor
    /\ pc = "fgwait" => pid \in Members(newjob)

\* The dead list says of a process what waitpid() said.
Heard(d) == {e \in [pid : Pids, status : Status] : e.status \in d[e.pid]}
Told     == dead \in Seq(Heard(delivered))

\* A wait points to the job of its process, if that is in the table, and
\* wait without operands forgets the dead list when it has booked all of it.
Aimed    == pc = "waitpid" => IF slot = 0 THEN pid \notin Held(tab)
                              ELSE slot \in Slots /\ pid \in Members(tab.slots[slot])
Cleared  == pc = "bgclear" => AllBooked(tab, {})
Answered == pc = "return" /\ mode = "pid" /\ answer \in Status => asked \in Pids /\ answer \in delivered[asked]
Starting == pc = "adding" => Plain(newjob) /\ Booked(newjob, Safe)

Simple   == ~monitor /\ Unstopped
Bookkept == AllBooked(tab, Safe) /\ Starting /\ Aimed /\ Cleared /\ Answered
WaitInv  == Places /\ Told /\ (Simple => Bookkept)

-----------------------------------------------------------------------------
(* What the functions leave of a job: j is what has become of h.             *)

Bears(j, h) == /\ SameJob(j, h) /\ h.exits \subseteq j.exits
               /\ Control \cap j.flags \subseteq h.flags

LEMMA BearsSelf == \A j : Bears(j, j)
  BY DEF Bears, SameJob

LEMMA BearsTrans == \A i1, j, h : Bears(i1, j) /\ Bears(j, h) => Bears(i1, h)
  BY DEF Bears, SameJob

LEMMA FlagBears ==
  ASSUME NEW j \in Job, NEW f, f \notin Control
  PROVE  Bears(Flag(j, f), j)
  BY DEF Flag, Bears, SameJob, Job

LEMMA UnflagBears ==
  ASSUME NEW j \in Job, NEW fs
  PROVE  Bears(Unflag(j, fs), j)
  BY DEF Unflag, Bears, SameJob, Job

LEMMA SignalledBears ==
  ASSUME NEW j \in Job, NEW cont
  PROVE  Bears(Signalled(j, cont), j)
  BY UnflagBears DEF Signalled

LEMMA JobStatusBears ==
  ASSUME NEW j \in Job, NEW p, NEW s
  PROVE  Bears(SetJobStatus(j, p, s), j)
<1>1. CASE Leads(j, p)
  BY <1>1 DEF SetJobStatus, Bears, SameJob, Job
<1>2. CASE ~Leads(j, p)
  BY <1>2, BearsSelf DEF SetJobStatus
<1>3. QED
  BY <1>1, <1>2

LEMMA PidStatusBears ==
  ASSUME NEW G, NEW j, Sane(j, G), NEW p \in Pids, NEW s \in Ended
  PROVE  /\ Bears(SetPidStatus(j, p, s), j)
         /\ p \in Members(j) => p \in SetPidStatus(j, p, s).exits
<1> DEFINE e == IF ~IsIn(j, p) THEN j.exits ELSE j.exits \cup {p}
           h == [j EXCEPT !.exits = e]
           u == Unflag(h, {"notified"})
<1>1. j \in Job /\ j.count \in Nat /\ j.count <= Len(j.procs)
  BY DEF Sane, Job
<1>2. e \subseteq Pids /\ j.exits \subseteq e /\ (p \in Members(j) => p \in e)
  BY <1>1, MembersAre DEF Job
<1>3. h \in Job /\ Bears(h, j) /\ h.exits = e
  <2> HIDE DEF e
  <2>1. h \in Job /\ h.exits = e
    BY <1>1, <1>2 DEF Job
  <2>2. QED
    BY <1>1, <1>2, <2>1 DEF Bears, SameJob, Job
<1>4. SetPidStatus(j, p, s) = IF j.procs = <<>> THEN j ELSE u
  <2>1. [j EXCEPT !.exits = IF ~IsIn(j, p) THEN @
                            ELSE IF s \in Ended THEN @ \cup {p} ELSE @ \ {p}] = h
    BY <1>1 DEF Job
  <2>2. QED
    BY <2>1 DEF SetPidStatus
<1> HIDE DEF e, h
<1>5. Bears(u, h) /\ e \subseteq u.exits
  BY <1>3, UnflagBears DEF Bears
<1> HIDE DEF u
<1>6. CASE j.procs = <<>>
  <2>1. Members(j) = {}
    BY <1>1, <1>6 DEF Members
  <2>2. QED
    BY <1>4, <1>6, <2>1, BearsSelf
<1>7. CASE j.procs # <<>>
  BY <1>2, <1>3, <1>4, <1>5, <1>7, BearsTrans
<1>8. QED
  BY <1>6, <1>7

LEMMA BookedBears ==
  ASSUME NEW G, G \subseteq Pids, NEW j, Sane(j, G), NEW p \in G, NEW s \in Ended
  PROVE  /\ Bears(SetJobStatus(SetPidStatus(j, p, s), p, s), j)
         /\ p \in Members(j) => p \in SetJobStatus(SetPidStatus(j, p, s), p, s).exits
<1> DEFINE h == SetPidStatus(j, p, s)
<1>1. s \in Status /\ p \in Pids
  BY DEF Status
<1>2. Bears(h, j) /\ (p \in Members(j) => p \in h.exits)
  BY <1>1, PidStatusBears
<1>3. h \in Job
  BY <1>1, PidStatusIs DEF Sane
<1> HIDE DEF h
<1>4. Bears(SetJobStatus(h, p, s), h)
  BY <1>3, JobStatusBears
<1>5. QED
  BY <1>2, <1>4, BearsTrans DEF Bears, h

\* Without job control a process leads the job it is in, which ends as it does.
LEMMA PlainStatus ==
  ASSUME NEW G, G \subseteq Pids, NEW j, Sane(j, G), Plain(j), NEW p \in G, p \in Members(j), NEW s \in Ended
  PROVE  SetJobStatus(SetPidStatus(j, p, s), p, s).status = s
<1> DEFINE h == SetPidStatus(j, p, s)
<1>1. s \in Status /\ p \in Pids /\ j \in Job /\ j.count <= Len(j.procs)
  BY DEF Status, Sane
<1>2. Sane(h, G) /\ SameJob(h, j)
  BY <1>1, PidStatusIs
<1>3. j.count = 1 /\ j.procs # <<>> /\ j.procs[1] = p
  BY <1>1 DEF Plain, Members, Job
<1> HIDE DEF h
<1>4. h \in Job /\ h.procs = j.procs
  BY <1>2 DEF Sane, SameJob
<1>5. Leads(h, p)
  BY <1>3, <1>4 DEF Leads
<1>6. SetJobStatus(h, p, s).status = s
  BY <1>4, <1>5 DEF SetJobStatus, Job
<1>7. QED
  BY <1>6 DEF h

-----------------------------------------------------------------------------
(* What the functions leave of a table: every job of u comes from t.         *)

Comes(t, u) == \A l \in Slots : u.slots[l].count # 0 => \E k \in Slots : Bears(u.slots[l], t.slots[k])

LEMMA ComesTrans == \A t, u, v : Comes(t, u) /\ Comes(u, v) => Comes(t, v)
  BY BearsTrans DEF Comes, Bears, SameJob

LEMMA ComesSlots == \A t, u : u.slots = t.slots => Comes(t, u)
  BY BearsSelf DEF Comes

LEMMA ComesAll == \A t, u : (\A k \in Slots : Bears(u.slots[k], t.slots[k])) => Comes(t, u)
  BY DEF Comes

\* A job that comes from a booked one is booked.
LEMMA ComesBooked ==
  ASSUME NEW t, NEW u, NEW G, Sound(u, G), Comes(t, u), NEW S, AllBooked(t, S)
  PROVE  AllBooked(u, S)
<1>1. SUFFICES ASSUME NEW l \in Slots PROVE Plain(u.slots[l]) /\ Booked(u.slots[l], S)
  BY DEF AllBooked
<1>2. u.slots[l].count \in Nat
  BY DEF Sound, Table, Job
<1>3. CASE u.slots[l].count = 0
  BY <1>3 DEF Plain, Booked, Members
<1>4. CASE u.slots[l].count # 0
  <2>1. PICK k \in Slots : Bears(u.slots[l], t.slots[k])
    BY <1>4 DEF Comes
  <2>2. Plain(t.slots[k]) /\ Booked(t.slots[k], S)
    BY DEF AllBooked
  <2>3. Members(u.slots[l]) = Members(t.slots[k])
    BY <2>1, SameMembers DEF Bears
  <2>4. QED
    BY <1>4, <2>1, <2>2, <2>3 DEF Plain, Booked, Bears, SameJob
<1>5. QED
  BY <1>3, <1>4

LEMMA MoreBooked == \A t, S, T : AllBooked(t, S) /\ S \subseteq T => AllBooked(t, T)
  BY DEF AllBooked, Booked

LEMMA ChangeBears ==
  ASSUME NEW G, NEW t, Sound(t, G), NEW k \in Slots, NEW h, Sane(h, G), Bears(h, t.slots[k])
  PROVE  LET u == [t EXCEPT !.slots[k] = h]
         IN  Becomes(t, u, G) /\ u.slots[k] = h /\ \A l \in Slots : Bears(u.slots[l], t.slots[l])
<1> DEFINE u == [t EXCEPT !.slots[k] = h]
<1>1. Becomes(t, u, G) /\ u.slots[k] = h /\ \A l \in Slots : l # k => u.slots[l] = t.slots[l]
  BY Changed1 DEF Bears
<1> HIDE DEF u
<1>2. \A l \in Slots : Bears(u.slots[l], t.slots[l])
  BY <1>1, BearsSelf
<1>3. QED
  BY <1>1, <1>2 DEF u

LEMMA ChangeComes ==
  ASSUME NEW G, NEW t, Sound(t, G), NEW k \in Slots, NEW h, Sane(h, G), Bears(h, t.slots[k])
  PROVE  Comes(t, [t EXCEPT !.slots[k] = h])
<1> DEFINE u == [t EXCEPT !.slots[k] = h]
<1>1. Becomes(t, u, G) /\ u.slots[k] = h /\ \A l \in Slots : Bears(u.slots[l], t.slots[l])
  BY ChangeBears
<1> HIDE DEF u
<1>2. Comes(t, u)
  BY <1>1, ComesAll
<1>3. QED
  BY <1>2 DEF u

LEMMA RemoveComes ==
  ASSUME NEW G, NEW t, Sound(t, G), NEW k \in Slots, t.slots[k].num # 0
  PROVE  Comes(t, RemoveJob(t, k))
<1> DEFINE u == RemoveJob(t, k)
           n == t.total
<1>1. n \in Slots /\ Shifted(t.slots, u.slots, k, n)
  BY RemoveShifts
<1> HIDE DEF u
<1>2. SUFFICES ASSUME NEW l \in Slots, u.slots[l].count # 0
               PROVE  \E m \in Slots : Bears(u.slots[l], t.slots[m])
  BY DEF Comes, u
<1>3. /\ n \in Nat /\ MaxJobs \in Nat /\ n <= MaxJobs /\ k \in Nat
      /\ \A m : m \in Slots <=> m \in Nat /\ 1 <= m /\ m <= MaxJobs
  BY <1>1, Slotted DEF Slots
<1>4. CASE l < k \/ l > n
  BY <1>1, <1>4, BearsSelf DEF Shifted
<1>5. CASE k <= l /\ l < n
  <2>1. l + 1 \in Slots /\ u.slots[l] = t.slots[l + 1]
    BY <1>1, <1>3, <1>5 DEF Shifted
  <2>2. QED
    BY <2>1, BearsSelf
<1>6. CASE l = n
  BY <1>1, <1>2, <1>6 DEF Shifted, Emptied
<1>7. QED
  BY <1>3, <1>4, <1>5, <1>6

LEMMA RemoveDeadComes ==
  ASSUME NEW G, NEW t, Sound(t, G)
  PROVE  Comes(t, RemoveDead(t))
<1> DEFINE X == {u \in Table : Sound(u, G) /\ Comes(t, u)}
<1>1. t \in X
  BY ComesSlots DEF Sound
<1>2. \A u \in X : Round(u) \in X
  <2>1. TAKE u \in X
  <2>2. Sound(u, G) /\ Comes(t, u)
    OBVIOUS
  <2>3. Sound(Round(u), G) /\ Round(u) \in Table
    BY <2>2, RoundKeeps DEF Becomes, Sound
  <2>4. Comes(u, Round(u))
    <3>1. CASE Reported(u) = {}
      BY <3>1, ComesSlots DEF Round
    <3>2. CASE Reported(u) # {}
      <4> DEFINE k == Min(Reported(u))
      <4>1. Reported(u) \subseteq Nat
        BY Slotted DEF Reported, Used
      <4>2. k \in Slots /\ u.slots[k].num # 0
        BY <3>2, <4>1, LeastIs DEF Reported, Used
      <4> HIDE DEF k
      <4>3. Comes(u, RemoveJob(u, k))
        BY <2>2, <4>2, RemoveComes
      <4>4. QED
        BY <3>2, <4>3 DEF Round, k
    <3>3. QED
      BY <3>1, <3>2
  <2>5. QED
    BY <2>2, <2>3, <2>4, ComesTrans
<1> HIDE DEF X
<1>3. RemoveDead(t) \in X
  BY <1>1, <1>2, RemoveDeadIn
<1>4. QED
  BY <1>3 DEF X

LEMMA DisownComes ==
  ASSUME NEW G, NEW t, Sound(t, G), NEW k \in Slots, t.slots[k].num # 0, NEW nohup, NEW filter
  PROVE  Comes(t, DisownJob(t, k, nohup, filter))
<1> DEFINE h == Flag(t.slots[k], "disowned")
           v == [t EXCEPT !.slots[k] = h]
<1>1. \/ DisownJob(t, k, nohup, filter) = t
      \/ DisownJob(t, k, nohup, filter) = v
      \/ DisownJob(t, k, nohup, filter) = RemoveJob(t, k)
  <2>1. [t EXCEPT !.slots[k] = Flag(@, "disowned")] = v
    BY DEF Sound, Table
  <2>2. QED
    BY <2>1 DEF DisownJob
<1>2. Comes(t, v)
  <2>1. Sane(t.slots[k], G) /\ t.slots[k] \in Job /\ "disowned" \in JobFlags /\ "disowned" \notin Control
    BY DEF Sound, Sane, JobFlags, Control
  <2>2. Sane(h, G) /\ Bears(h, t.slots[k])
    BY <2>1, FlagIs, FlagBears
  <2> HIDE DEF h
  <2>3. QED
    BY <2>2, ChangeComes
<1> HIDE DEF v
<1>3. QED
  BY <1>1, <1>2, RemoveComes, ComesSlots

LEMMA DisownJobsComes ==
  ASSUME NEW G, Sound(tab, G), NEW nohup, NEW filter
  PROVE  Comes(tab, DisownJobs(nohup, filter))
<1> DEFINE X == {u \in Table : Sound(u, G) /\ Comes(tab, u)}
<1>1. tab \in X
  BY ComesSlots DEF Sound
<1>2. \A k \in Slots : \A u \in X : DisownRound(u, k, nohup, filter) \in X
  <2>1. TAKE k \in Slots
  <2> TAKE u \in X
  <2>2. CASE u.slots[k].num = 0
    BY <2>2 DEF DisownRound
  <2>3. CASE u.slots[k].num # 0
    <3> DEFINE v == DisownJob(u, k, nohup, filter)
    <3>1. Sound(v, G) /\ Comes(u, v)
      BY <2>3, DisownJobIs, DisownComes
    <3>2. DisownRound(u, k, nohup, filter) = v
      BY <2>3 DEF DisownRound
    <3> HIDE DEF v
    <3>3. v \in Table /\ Comes(tab, v)
      BY <3>1, ComesTrans DEF Sound
    <3>4. QED
      BY <3>1, <3>2, <3>3
  <2>4. QED
    BY <2>2, <2>3
<1> HIDE DEF X
<1>3. DisownJobs(nohup, filter) \in X
  BY <1>1, <1>2, DisownJobsIn
<1>4. QED
  BY <1>3 DEF X

\* jobs marks the processes it collects.
LEMMA UpdatedBears ==
  ASSUME NEW G, G \subseteq Pids, NEW j, Sane(j, G), Plain(j),
         \A p \in DeadMembers : p \in G /\ report[p] \in Ended
  PROVE  Bears(Updated(j), j) /\ Members(j) \cap DeadMembers \subseteq Updated(j).exits
<1> DEFINE X == {u \in Job : Sane(u, G)}
<1>1. j \in X /\ j.count \in Nat /\ j \in Job
  BY DEF Sane, Job
<1>2. \A n, u : u \in X => UpdateRound(j, n, u) \in X
  <2>1. SUFFICES ASSUME NEW n, NEW u \in X PROVE UpdateRound(j, n, u) \in X
    OBVIOUS
  <2> DEFINE p == j.procs[n]
             v == SetJobStatus(SetPidStatus(u, p, report[p]), p, report[p])
  <2>2. p \in DeadMembers => Sane(v, G)
    <3>1. p \in DeadMembers => p \in Pids /\ p \in G /\ report[p] \in Status
      BY DEF Status
    <3> HIDE DEF p
    <3>2. QED
      BY <3>1, BookedIs
  <2>3. UpdateRound(j, n, u) = IF p \in DeadMembers THEN v ELSE u
    BY DEF UpdateRound
  <2> HIDE DEF v, p
  <2>4. QED
    BY <2>2, <2>3 DEF Sane
<1>3. PICK g : IsUpdate(g, j) /\ g[j.count] \in X
  <2> HIDE DEF X
  <2>1. QED
    BY <1>1, <1>2, UpdatedRuns
<1> DEFINE u == g[j.count]
<1>4. Updated(j) = Flag(u, "notified") /\ u \in Job
  BY <1>3 DEF IsUpdate
<1>5. Bears(u, j) /\ Members(j) \cap DeadMembers \subseteq u.exits
  <2>1. CASE j.count = 0
    <3>1. u = j /\ Members(j) = {}
      BY <1>3, <2>1 DEF IsUpdate, Members
    <3>2. QED
      BY <3>1, BearsSelf
  <2>2. CASE j.count = 1
    <3> DEFINE p == j.procs[1]
               v == SetJobStatus(SetPidStatus(j, p, report[p]), p, report[p])
    <3>1. g[0] = j /\ g[1] = UpdateRound(j, 1, g[1 - 1]) /\ 1 - 1 = 0 /\ u = g[1]
      BY <1>3, <2>2 DEF IsUpdate
    <3>2. u = IF p \in DeadMembers THEN v ELSE j
      BY <3>1 DEF UpdateRound
    <3>3. Members(j) = {p}
      BY <2>2 DEF Members
    <3> HIDE DEF u, p
    <3>4. CASE p \in DeadMembers
      <4>1. p \in G /\ report[p] \in Ended
        BY <3>4
      <4>2. Bears(v, j) /\ (p \in Members(j) => p \in v.exits)
        BY <4>1, BookedBears
      <4> HIDE DEF v
      <4>3. QED
        BY <3>2, <3>3, <3>4, <4>2
    <3>5. CASE p \notin DeadMembers
      BY <3>2, <3>3, <3>5, BearsSelf
    <3>6. QED
      BY <3>4, <3>5
  <2>3. QED
    BY <2>1, <2>2 DEF Plain
<1> HIDE DEF u
<1>6. Bears(Flag(u, "notified"), u)
  BY <1>4, FlagBears DEF Control
<1>7. QED
  BY <1>4, <1>5, <1>6, BearsTrans DEF Bears

LEMMA ListedBooked ==
  ASSUME NEW G, G \subseteq Pids, Sound(tab, G), \A p \in DeadMembers : p \in G /\ report[p] \in Ended,
         NEW S, AllBooked(tab, S)
  PROVE  AllBooked(RemoveDead([tab EXCEPT !.slots =
             [k \in Slots |-> IF k \in Jobs THEN Updated(@[k]) ELSE @[k]]]), S \ DeadMembers)
<1> DEFINE s == [k \in Slots |-> IF k \in Jobs THEN Updated(tab.slots[k]) ELSE tab.slots[k]]
           u == [tab EXCEPT !.slots = s]
           D == DeadMembers
<1>1. \A k \in Slots : /\ Sane(s[k], G) /\ Bears(s[k], tab.slots[k])
                       /\ Members(tab.slots[k]) \cap D \subseteq s[k].exits
  <2>1. TAKE k \in Slots
  <2>2. Sane(tab.slots[k], G) /\ Plain(tab.slots[k])
    BY DEF Sound, AllBooked
  <2>3. CASE k \in Jobs
    <3>1. /\ Bears(Updated(tab.slots[k]), tab.slots[k])
          /\ Members(tab.slots[k]) \cap D \subseteq Updated(tab.slots[k]).exits
      BY <2>2, UpdatedBears
    <3>2. Sane(Updated(tab.slots[k]), G)
      BY <2>2, UpdatedIs DEF Status
    <3>3. QED
      BY <2>3, <3>1, <3>2
  <2>4. CASE k \notin Jobs
    <3>1. tab.slots[k].count = 0
      BY <2>4 DEF Sound, Jobs
    <3>2. Members(tab.slots[k]) = {}
      BY <3>1 DEF Members
    <3>3. QED
      BY <2>2, <2>4, <3>2, BearsSelf
  <2>5. QED
    BY <2>3, <2>4
<1>2. s \in [Slots -> Job] /\ tab \in Table
  <2>1. s = [k \in Slots |-> s[k]]
    OBVIOUS
  <2>2. \A k \in Slots : s[k] \in Job
    BY <1>1 DEF Sane
  <2> HIDE DEF s
  <2>3. QED
    BY <2>1, <2>2 DEF Sound
<1>3. [tab EXCEPT !.slots = [k \in Slots |-> IF k \in Jobs THEN Updated(@[k]) ELSE @[k]]] = u
  BY <1>2 DEF Table
<1> HIDE DEF s, D
<1>4. Sound(u, G) /\ u.slots = s
  <2>1. Becomes(tab, u, G)
    BY <1>1, <1>2, AllChanged DEF Bears
  <2>2. u.slots = s
    BY <1>2 DEF Table
  <2> HIDE DEF u
  <2>3. QED
    BY <2>1, <2>2 DEF Becomes
<1> HIDE DEF u
<1>5. AllBooked(u, S \ D)
  <2>1. AllBooked(u, S)
    BY <1>1, <1>4, ComesAll, ComesBooked
  <2>2. \A k \in Slots : Members(u.slots[k]) \cap D \subseteq u.slots[k].exits
    BY <1>1, <1>4, SameMembers DEF Bears
  <2>3. QED
    BY <2>1, <2>2 DEF AllBooked, Booked
<1>6. Sound(RemoveDead(u), G) /\ Comes(u, RemoveDead(u))
  BY <1>4, RemoveDeadKeeps, RemoveDeadComes DEF Becomes
<1>7. QED
  BY <1>3, <1>5, <1>6, ComesBooked DEF D

LEMMA AddBooked ==
  ASSUME NEW G, NEW t, Sound(t, G), Room(t), NEW j, Sane(j, G), Members(j) \cap Held(t) = {},
         NEW S, AllBooked(t, S), Plain(j), Booked(j, S)
  PROVE  AllBooked(Add(t, j), S)
<1> DEFINE u == Add(t, j)
<1>1. \A k \in Slots : u.slots[k] = t.slots[k] \/ u.slots[k] = [j EXCEPT !.num = u.slots[k].num]
  BY AddIs
<1>2. \A n : [j EXCEPT !.num = n].count = j.count /\ [j EXCEPT !.num = n].procs = j.procs
             /\ [j EXCEPT !.num = n].exits = j.exits /\ [j EXCEPT !.num = n].flags = j.flags
  BY DEF Sane, Job
<1> HIDE DEF u
<1>3. \A k \in Slots : Plain(u.slots[k]) /\ Booked(u.slots[k], S)
  <2>1. TAKE k \in Slots
  <2>2. CASE u.slots[k] = t.slots[k]
    BY <2>2 DEF AllBooked
  <2>3. CASE u.slots[k] = [j EXCEPT !.num = u.slots[k].num]
    <3> DEFINE h == u.slots[k]
    <3> HIDE DEF h
    <3>1. h.count = j.count /\ h.procs = j.procs /\ h.exits = j.exits /\ h.flags = j.flags
      BY <1>2, <2>3 DEF h
    <3>2. Plain(h) /\ Booked(h, S)
      BY <3>1 DEF Plain, Booked, Members
    <3>3. QED
      BY <3>2 DEF h
  <2>4. QED
    BY <1>1, <2>2, <2>3
<1>4. QED
  BY <1>3 DEF AllBooked, u

-----------------------------------------------------------------------------
(* SIGCHLD_handler() books the status of a process in the job it is in.      *)

LEMMA NotThere ==
  ASSUME NEW t, NEW p, JobByPid(t, p) = 0
  PROVE  p \notin Held(t)
<1> DEFINE S == {k \in Slots : IsIn(t.slots[k], p)}
<1>1. S \subseteq Nat /\ 0 \notin S
  BY Slotted DEF Slots
<1>2. S = {}
  <2>1. JobByPid(t, p) = IF S = {} THEN 0 ELSE Min(S)
    BY DEF JobByPid, FirstOr0
  <2> HIDE DEF S
  <2>2. S # {} => Min(S) \in S
    BY <1>1, LeastIs
  <2>3. QED
    BY <1>1, <2>1, <2>2
<1>3. QED
  BY <1>2, MembersAre DEF Held

\* No other slot has the process.
LEMMA OnlyThere ==
  ASSUME NEW G, NEW t, Sound(t, G), NEW p, NEW k \in Slots, p \in Members(t.slots[k])
  PROVE  JobByPid(t, p) = k /\ \A l \in Slots : p \in Members(t.slots[l]) => l = k
<1>1. \A l \in Slots : p \in Members(t.slots[l]) => l = k
  BY DEF Sound
<1>2. JobByPid(t, p) # 0
  BY NotThere DEF Held
<1>3. JobByPid(t, p) \in Slots /\ p \in Members(t.slots[JobByPid(t, p)])
  BY <1>2, PidIsIn, MembersAre
<1>4. QED
  BY <1>1, <1>3

LEMMA OutputBears ==
  ASSUME NEW G, NEW t, Sound(t, G), NEW p, \A k \in Slots : p \notin t.slots[k].exits
  PROVE  LET u == OutputStatus(t, p)
         IN  \A k \in Slots : Bears(u.slots[k], t.slots[k]) /\ u.slots[k].exits = t.slots[k].exits
<1> DEFINE k == JobByPid(t, p)
           h == Flag(t.slots[k], "notified")
           u == [t EXCEPT !.slots[k] = h]
<1>1. k # 0 => k \in Slots /\ p \in Members(t.slots[k])
  BY PidIsIn, MembersAre
<1>2. OutputStatus(t, p) = IF k = 0 THEN t ELSE IF Complete(u.slots[k]) THEN RemoveJob(u, k) ELSE u
  <2>1. k # 0 => [t EXCEPT !.slots[k] = Flag(@, "notified")] = u
    BY <1>1 DEF Sound, Table
  <2>2. QED
    BY <2>1 DEF OutputStatus
<1> HIDE DEF k
<1>3. CASE k = 0
  BY <1>2, <1>3, BearsSelf
<1>4. CASE k # 0
  <2>1. Sane(t.slots[k], G) /\ t.slots[k] \in Job /\ "notified" \in JobFlags /\ "notified" \notin Control
    BY <1>1, <1>4 DEF Sound, Sane, JobFlags, Control
  <2>2. Sane(h, G) /\ Bears(h, t.slots[k]) /\ h.exits = t.slots[k].exits
    BY <2>1, FlagIs, FlagBears
  <2> HIDE DEF h
  <2>3. Becomes(t, u, G) /\ u.slots[k] = h /\ \A l \in Slots : l # k => u.slots[l] = t.slots[l]
    <3>1. k \in Slots /\ Sane(h, G) /\ SameJob(h, t.slots[k])
      BY <1>1, <1>4, <2>2 DEF Bears
    <3>2. QED
      BY <3>1, Changed1
  <2> HIDE DEF u
  <2>4. ~Complete(h)
    <3>1. p \in Members(h) /\ p \notin h.exits
      BY <1>1, <1>4, <2>2, SameMembers DEF Bears
    <3>2. QED
      BY <2>2, <3>1, CompleteIs
  <2>5. QED
    BY <1>2, <1>4, <2>2, <2>3, <2>4, BearsSelf
<1>5. QED
  BY <1>3, <1>4

LEMMA NoticeBears ==
  ASSUME NEW G, G \subseteq Pids, NEW t, Sound(t, G), NEW p \in G, NEW s \in Ended,
         \A k \in Slots : p \notin t.slots[k].exits, \A k \in Slots : Plain(t.slots[k])
  PROVE  LET u == Notice(t, p, s)
         IN  \A k \in Slots : Bears(u.slots[k], t.slots[k])
                              /\ (p \in Members(t.slots[k]) => p \in u.slots[k].exits)
<1> DEFINE u == IF atOnce THEN OutputStatus(t, p) ELSE t
           k == JobByPid(u, p)
           h == SetJobStatus(SetPidStatus(u.slots[k], p, s), p, s)
           v == [u EXCEPT !.slots[k] = h]
           told == Flagged(v.slots[k], "control") /\ ~atOnce /\ Flagged(v.slots[k], "notify")
<1>1. /\ Sound(u, G)
      /\ \A l \in Slots : Bears(u.slots[l], t.slots[l])
  BY OutputBears, OutputKeeps, BearsSelf DEF Becomes
<1> HIDE DEF u
<1>2. k # 0 => k \in Slots /\ p \in Members(u.slots[k])
  BY PidIsIn, MembersAre
<1>3. \A l \in Slots : p \in Members(t.slots[l]) => p \in Members(u.slots[l])
  BY <1>1, SameMembers DEF Bears
<1>4. Notice(t, p, s) = IF k = 0 THEN u ELSE IF told THEN OutputStatus(v, p) ELSE v
  <2>1. k # 0 => [u EXCEPT !.slots[k] = SetJobStatus(SetPidStatus(@, p, s), p, s)] = v
    BY <1>1, <1>2 DEF Sound, Table
  <2>2. QED
    BY <2>1 DEF Notice, u
<1>5. k = 0 => p \notin Held(u)
  BY NotThere
<1>6. k # 0 => \A l \in Slots : p \in Members(u.slots[l]) => l = k
  BY <1>1, <1>2, OnlyThere
<1> HIDE DEF k
<1>7. CASE k = 0
  BY <1>1, <1>3, <1>4, <1>5, <1>7 DEF Held
<1>8. CASE k # 0
  <2>1. Sane(u.slots[k], G)
    BY <1>1, <1>2, <1>8 DEF Sound
  <2>2. Sane(h, G) /\ Bears(h, u.slots[k]) /\ p \in h.exits
    BY <1>2, <1>8, <2>1, BookedIs, BookedBears DEF Status
  <2> HIDE DEF h
  <2>3. Becomes(u, v, G) /\ v.slots[k] = h /\ \A l \in Slots : Bears(v.slots[l], u.slots[l])
    <3>1. k \in Slots /\ Sound(u, G) /\ Sane(h, G) /\ Bears(h, u.slots[k])
      BY <1>1, <1>2, <1>8, <2>2
    <3>2. QED
      BY <3>1, ChangeBears
  <2>4. ~told
    <3>1. Plain(t.slots[k]) /\ Bears(u.slots[k], t.slots[k]) /\ u.slots[k].count # 0
      BY <1>1, <1>2, <1>8, <2>1 DEF Members, Sane, Job
    <3>2. "control" \notin h.flags
      BY <2>2, <3>1 DEF Plain, Bears, SameJob, Control
    <3>3. QED
      BY <2>3, <3>2 DEF Flagged
  <2> HIDE DEF told, v
  <2>5. Notice(t, p, s) = v
    BY <1>4, <1>8, <2>4
  <2>6. \A l \in Slots : Bears(v.slots[l], t.slots[l])
    BY <1>1, <2>3, BearsTrans
  <2>7. \A l \in Slots : p \in Members(t.slots[l]) => p \in v.slots[l].exits
    BY <1>3, <1>6, <1>8, <2>2, <2>3
  <2>8. QED
    BY <2>5, <2>6, <2>7
<1>9. QED
  BY <1>7, <1>8

-----------------------------------------------------------------------------
(* The dead list.                                                            *)

Lists(d, p) == \E n \in DOMAIN d : d[n].pid = p

LEMMA PutLists ==
  ASSUME NEW F, dead \in Seq(F), NEW p, NEW s
  PROVE  Lists(Put(p, s), p) /\ \A q : Listed(q) => Lists(Put(p, s), q)
<1> DEFINE e == [pid |-> p, status |-> s]
<1>1. e.pid = p
  OBVIOUS
<1> HIDE DEF e
<1>2. CASE Listed(p)
  <2> DEFINE d == [n \in DOMAIN dead |-> IF dead[n].pid = p THEN e ELSE dead[n]]
  <2>1. Put(p, s) = d
    BY <1>2 DEF Put, e
  <2>2. DOMAIN d = DOMAIN dead /\ \A n \in DOMAIN dead : d[n].pid = dead[n].pid
    BY <1>1
  <2> HIDE DEF d
  <2>3. QED
    BY <1>2, <2>1, <2>2 DEF Lists, Listed
<1>3. CASE ~Listed(p)
  <2> DEFINE d == Append(dead, e)
  <2>1. Put(p, s) = d
    BY <1>3 DEF Put, e
  <2>2. /\ DOMAIN dead \subseteq DOMAIN d /\ \A n \in DOMAIN dead : d[n] = dead[n]
        /\ Len(dead) + 1 \in DOMAIN d /\ d[Len(dead) + 1] = e
    OBVIOUS
  <2> HIDE DEF d
  <2>3. QED
    BY <1>1, <2>1, <2>2 DEF Lists, Listed
<1>4. QED
  BY <1>2, <1>3

LEMMA JoinedIs ==
  ASSUME NEW F, NEW a \in Seq(F), NEW b \in Seq(F)
  PROVE  /\ a \o b \in Seq(F) /\ DOMAIN (a \o b) = 1 .. Len(a) + Len(b)
         /\ \A m \in 1 .. Len(a) : (a \o b)[m] = a[m]
         /\ \A m \in 1 .. Len(b) : (a \o b)[Len(a) + m] = b[m]
<1>1. Len(a) \in Nat /\ Len(b) \in Nat
  OBVIOUS
<1>2. a \o b \in Seq(F) /\ Len(a \o b) = Len(a) + Len(b)
  OBVIOUS
<1>3. DOMAIN (a \o b) = 1 .. Len(a \o b)
  BY <1>2
<1>4. \A m \in 1 .. Len(a) : (a \o b)[m] = a[m]
  OBVIOUS
<1>5. ASSUME NEW m \in 1 .. Len(b) PROVE (a \o b)[Len(a) + m] = b[m]
  <2>1. Len(a) + m \in 1 .. Len(a) + Len(b) /\ ~(Len(a) + m <= Len(a)) /\ (Len(a) + m) - Len(a) = m
    BY <1>1
  <2>2. QED
    BY <1>1, <2>1
<1>6. QED
  BY <1>2, <1>3, <1>4, <1>5

LEMMA WithoutLists ==
  ASSUME NEW F, dead \in Seq(F), NEW p, Listed(p), NEW q, q # p, Listed(q)
  PROVE  Lists(Without(p), q)
<1> DEFINE k == Place(p)
           a == SubSeq(dead, 1, k - 1)
           b == SubSeq(dead, k + 1, Len(dead))
           c == a \o b
           l == Len(dead)
<1>1. k \in 1 .. l /\ dead[k].pid = p /\ l \in Nat
  BY PlaceIs
<1> HIDE DEF k
<1>2. a \in Seq(F) /\ Len(a) = k - 1 /\ \A m \in 1 .. k - 1 : a[m] = dead[m]
  BY <1>1
<1>3. b \in Seq(F) /\ Len(b) = l - k /\ \A m \in 1 .. l - k : b[m] = dead[k + m]
  BY <1>1
<1>4. Without(p) = c
  BY DEF Without, RemoveAt, k
<1> HIDE DEF a, b
<1>5. /\ DOMAIN c = 1 .. Len(a) + Len(b)
      /\ \A m \in 1 .. Len(a) : c[m] = a[m]
      /\ \A m \in 1 .. Len(b) : c[Len(a) + m] = b[m]
  <2>1. a \in Seq(F) /\ b \in Seq(F)
    BY <1>2, <1>3
  <2> HIDE DEF l
  <2>2. QED
    BY ONLY <2>1, JoinedIs
<1>6. PICK m \in 1 .. l : dead[m].pid = q
  BY DEF Listed
<1> HIDE DEF c, l
<1>7. CASE m < k
  <2>1. m \in 1 .. Len(a) /\ m \in 1 .. Len(a) + Len(b) /\ m \in 1 .. k - 1
    BY <1>1, <1>2, <1>3, <1>6, <1>7
  <2>2. m \in DOMAIN c /\ c[m].pid = q
    BY <1>2, <1>5, <1>6, <2>1
  <2>3. QED
    BY <1>4, <2>2 DEF Lists
<1>8. CASE m > k
  <2>1. /\ m - k \in 1 .. Len(b) /\ m - k \in 1 .. l - k /\ k + (m - k) = m
        /\ Len(a) + (m - k) \in 1 .. Len(a) + Len(b)
    BY <1>1, <1>2, <1>3, <1>6, <1>8
  <2>2. Len(a) + (m - k) \in DOMAIN c /\ c[Len(a) + (m - k)].pid = q
    BY <1>3, <1>5, <1>6, <2>1
  <2>3. QED
    BY <1>4, <2>2 DEF Lists
<1>9. QED
  BY <1>1, <1>6, <1>7, <1>8

LEMMA HeardGrows ==
  ASSUME Told, \A p \in Pids : delivered[p] \subseteq delivered'[p]
  PROVE  dead \in Seq(Heard(delivered'))
<1> DEFINE E == Heard(delivered)
           F == Heard(delivered')
<1>1. E \subseteq F /\ dead \in Seq(E)
  BY DEF Heard, Told
<1> HIDE DEF E, F
<1>2. dead \in Seq(F)
  BY <1>1
<1>3. QED
  BY <1>2 DEF F

LEMMA ToldStays ==
  ASSUME Told, \A p \in Pids : delivered[p] \subseteq delivered'[p], dead' = dead \/ dead' = <<>>
  PROVE  Told'
<1>1. dead \in Seq(Heard(delivered')) /\ <<>> \in Seq(Heard(delivered'))
  BY HeardGrows
<1>2. QED
  BY <1>1 DEF Told, Heard

-----------------------------------------------------------------------------
(* The steps that hand out no status and touch no list.                      *)

LEMMA SimpleBefore ==
  ASSUME monitor' = monitor, \A p \in Pids : delivered[p] \subseteq delivered'[p], Simple'
  PROVE  Simple
  BY DEF Simple, Unstopped

LEMMA SafeStays == ASSUME Gone' = Gone, dead' = dead PROVE Safe' = Safe
  BY DEF Safe, Listed

LEMMA Calm ==
  ASSUME JobsInv', WaitInv, UNCHANGED <<monitor, delivered, dead>>, Gone' = Gone, Comes(tab, tab'),
         Places', pc' = "adding" => pc = "adding" /\ newjob' = newjob,
         pc' = "bgclear" => pc = "bgclear", Simple /\ Bookkept => Aimed' /\ Answered'
  PROVE  WaitInv'
<1>1. Told'
  BY ToldStays DEF WaitInv
<1>2. SUFFICES ASSUME Simple' PROVE Bookkept'
  BY <1>1 DEF WaitInv
<1>3. Simple /\ Bookkept
  BY <1>2, SimpleBefore DEF WaitInv
<1>4. Safe' = Safe /\ Sound(tab', Gone')
  BY SafeStays DEF JobsInv
<1>5. AllBooked(tab', Safe') /\ (pc' = "bgclear" => AllBooked(tab', {}))
  BY <1>3, <1>4, ComesBooked DEF Bookkept, Cleared
<1>6. Starting'
  BY <1>3, <1>4 DEF Bookkept, Starting, Plain, Booked, Members
<1>7. AllBooked(tab, Safe)' /\ Cleared'
  BY <1>5 DEF AllBooked, Cleared, Plain, Booked, Members
<1>8. QED
  BY <1>3, <1>6, <1>7 DEF Bookkept

LEMMA KernelSame == ASSUME JobsInv, UNCHANGED kernel PROVE Gone' = Gone /\ delivered' = delivered
  BY KernelStays DEF JobsInv, kernel

\* Nothing but the kernel's side changes.
LEMMA Aside ==
  ASSUME JobsInv', WaitInv, UNCHANGED <<monitor, delivered, dead, pc>>, UNCHANGED locals, Gone' = Gone,
         tab'.slots = tab.slots
  PROVE  WaitInv'
<1>1. UNCHANGED <<mode, newjob, slot, pid, asked, answer>>
  BY DEF locals
<1>2. Places'
  BY <1>1 DEF WaitInv, Places, Members
<1>3. Bookkept => Aimed' /\ Answered'
  <2>1. Held(tab') = Held(tab)
    BY DEF Held
  <2>2. QED
    BY <1>1, <2>1 DEF Bookkept, Aimed, Answered, Held, Members
<1>4. QED
  BY <1>1, <1>2, <1>3, ComesSlots, Calm

LEMMA ChildBooks == ASSUME JobsInv, JobsInv', WaitInv, NEW p \in Pids, Child(p) PROVE WaitInv'
<1>1. /\ UNCHANGED <<dead, tab, pc, delivered>> /\ UNCHANGED locals /\ monitor' = monitor
      /\ \E state \in {"zombie", "stopped", "running"} : proc' = [proc EXCEPT ![p] = state]
      /\ proc[p] \in {"running", "stopped"}
  BY DEF Child, Exit, Stop, Cont, Change, options
<1>2. Gone' = Gone
  BY <1>1 DEF Gone, JobsInv, Kernel
<1>3. QED
  BY <1>1, <1>2, Aside

LEMMA EnterBooks == ASSUME JobsInv, JobsInv', WaitInv, HandlerEnter PROVE WaitInv'
<1>1. UNCHANGED <<dead, tab, pc, delivered, proc>> /\ UNCHANGED locals /\ monitor' = monitor
  BY DEF HandlerEnter, options
<1>2. Gone' = Gone
  BY <1>1 DEF Gone
<1>3. QED
  BY <1>1, <1>2, Aside

LEMMA EndBooks ==
  ASSUME JobsInv, JobsInv', HandInv, WaitInv, HandlerExit \/ HandlerPause \/ HandlerResume
  PROVE  WaitInv'
<1>1. /\ UNCHANGED <<dead, pc, mode, newjob, slot, pid, asked, answer>> /\ UNCHANGED kernel
      /\ monitor' = monitor
  BY DEF HandlerExit, HandlerPause, HandlerResume, options, locals
<1>2. Gone' = Gone /\ delivered' = delivered
  BY <1>1, KernelSame
<1>3. tab'.slots = tab.slots
  BY ExitRenumbers, PauseRenumbers, ResumeRenumbers DEF Renumbered
<1>4. Places'
  BY <1>1 DEF WaitInv, Places, Members
<1>5. Bookkept => Aimed' /\ Answered'
  BY <1>1, <1>2, <1>3 DEF Bookkept, Aimed, Answered, Held, Members
<1>6. QED
  BY <1>1, <1>2, <1>3, <1>4, <1>5, ComesSlots, Calm

-----------------------------------------------------------------------------
(* The steps under job control.                                              *)

LEMMA CollectedHears ==
  ASSUME NEW S, Collected(S)
  PROVE  \A p \in Pids : delivered[p] \subseteq delivered'[p] /\ (p \in S => report[p] \in delivered'[p])
  BY DEF Collected

LEMMA WithControl == ASSUME monitor, monitor' = monitor, Places', Told' PROVE WaitInv'
  BY DEF WaitInv, Simple

LEMMA CheckBooks == ASSUME JobsInv, WaitInv, CheckOnChildren \/ CheckEntry \/ CheckReset \/ DrainEnd PROVE WaitInv'
<1>1. monitor /\ monitor' = monitor /\ newjob' = newjob /\ UNCHANGED kernel
  BY DEF WaitInv, Places, CheckOnChildren, CheckEntry, CheckReset, DrainEnd, options, locals
<1>2. pc' \in {"check", "reset", "drain", "idle"} /\ (dead' = dead \/ dead' = <<>>)
  BY DEF CheckOnChildren, CheckEntry, CheckReset, DrainEnd
<1>3. delivered' = delivered
  BY <1>1, KernelSame
<1>4. Places'
  BY <1>1, <1>2 DEF Places
<1>5. Told'
  BY <1>2, <1>3, ToldStays DEF WaitInv
<1>6. QED
  BY <1>1, <1>4, <1>5, WithControl

LEMMA DrainBooks == ASSUME JobsInv, WaitInv, NEW p \in Pids, Drain(p) PROVE WaitInv'
<1>1. monitor /\ monitor' = monitor /\ pc' = "drain" /\ dead' = dead
  BY DEF WaitInv, Places, Drain, options
<1>2. \A q \in Pids : delivered[q] \subseteq delivered'[q]
  BY CollectedHears DEF Drain
<1>3. Places'
  BY <1>1 DEF Places
<1>4. Told'
  BY <1>1, <1>2, ToldStays DEF WaitInv
<1>5. QED
  BY <1>1, <1>3, <1>4, WithControl

LEMMA FgBgBooks == ASSUME JobsInv, WaitInv, NEW k \in Slots, Fg(k) \/ Bg(k) PROVE WaitInv'
<1>1. monitor /\ monitor' = monitor /\ dead' = dead
  BY DEF Fg, Bg, options
<1>2. delivered' = delivered
  BY DEF Fg, Bg, Continued
<1>3. (pc' = "waitjob" /\ mode' = "fg") \/ (pc' = "idle")
  BY DEF Fg, Bg, WaitForJob, Idle
<1>4. Places'
  BY <1>3 DEF Places
<1>5. Told'
  BY <1>1, <1>2, ToldStays DEF WaitInv
<1>6. QED
  BY <1>1, <1>4, <1>5, WithControl

-----------------------------------------------------------------------------
(* The main program's steps that hand out no status.                         *)

LEMMA StartWaitBooks == ASSUME JobsInv, JobsInv', WaitInv, StartWait PROVE WaitInv'
<1>1. /\ UNCHANGED <<kernel, dead, tab, mode, newjob, slot, asked, answer>> /\ monitor' = monitor
      /\ pid' = newjob.procs[1] /\ pc' = "fgwait" /\ pc = "forking"
  BY DEF StartWait, options
<1>2. Gone' = Gone /\ delivered' = delivered
  BY <1>1, KernelSame
<1>3. newjob.procs[1] \in Members(newjob)
  BY <1>1 DEF JobsInv, NewOne, Sane, Job, Members
<1>4. Places'
  BY <1>1, <1>3 DEF Places, Members
<1>5. Aimed' /\ Answered'
  BY <1>1 DEF Aimed, Answered
<1>6. QED
  BY <1>1, <1>2, <1>4, <1>5, ComesSlots, Calm

LEMMA WaitJobIdBooks == ASSUME JobsInv, JobsInv', WaitInv, NEW k \in Slots, WaitJobId(k) PROVE WaitInv'
<1>1. /\ UNCHANGED <<kernel, dead, tab, newjob>> /\ monitor' = monitor
      /\ mode' = "job" /\ pc' = "waitjob"
  BY DEF WaitJobId, WaitForJob, options
<1>2. Gone' = Gone /\ delivered' = delivered
  BY <1>1, KernelSame
<1>3. Places' /\ Aimed' /\ Answered'
  BY <1>1 DEF Places, Aimed, Answered
<1>4. QED
  BY <1>1, <1>2, <1>3, ComesSlots, Calm

LEMMA WaitPidBooks == ASSUME JobsInv, JobsInv', WaitInv, NEW p \in Pids, WaitPid(p) PROVE WaitInv'
<1>1. /\ UNCHANGED <<kernel, dead, tab, newjob>> /\ monitor' = monitor
      /\ mode' = "pid" /\ pc' = "waitpid" /\ pid' = p /\ asked' = p /\ slot' = JobByPid(tab, p)
  BY DEF WaitPid, options
<1>2. Gone' = Gone /\ delivered' = delivered
  BY <1>1, KernelSame
<1>3. Places' /\ Answered'
  BY <1>1 DEF Places, Answered
<1>4. IF slot' = 0 THEN p \notin Held(tab) ELSE slot' \in Slots /\ p \in Members(tab.slots[slot'])
  BY <1>1, NotThere, PidIsIn, MembersAre
<1>5. Aimed'
  <2>1. Held(tab)' = Held(tab) /\ Members(tab.slots[slot])' = Members(tab.slots[slot'])
    BY <1>1 DEF Held, Members
  <2>2. QED
    BY <1>1, <1>4, <2>1 DEF Aimed
<1>6. QED
  BY <1>1, <1>2, <1>3, <1>5, ComesSlots, Calm

LEMMA AfterPid == \A m : After(m) \in {"bgloop", "hup", "return"} /\ (m = "pid" => After(m) = "return")
                         /\ (After(m) = "bgloop" => m # "pid")
  BY DEF After

LEMMA NextProcessBooks == ASSUME JobsInv, JobsInv', WaitInv, NextProcess PROVE WaitInv'
<1> DEFINE j == tab.slots[slot]
<1>1. /\ UNCHANGED <<kernel, dead, tab, mode, newjob, slot, asked>> /\ monitor' = monitor
      /\ pc = "waitjob" /\ slot \in Slots
  BY DEF NextProcess, options, JobsInv, Locals, Slots
<1>2. Gone' = Gone /\ delivered' = delivered
  BY <1>1, KernelSame
<1>3. \/ pc' = After(mode)
      \/ pc' = "waitjob" /\ answer' = answer
      \/ pc' = "waitpid" /\ i <= j.count /\ pid' = j.procs[i]
  BY <1>1 DEF NextProcess
<1>4. mode # "pid"
  BY <1>1 DEF WaitInv, Places
<1>5. Places' /\ Answered' /\ pc' \in {"bgloop", "hup", "return", "waitjob", "waitpid"}
  BY <1>1, <1>3, <1>4, AfterPid DEF Places, Answered
<1>6. Aimed'
  <2>1. CASE pc' = "waitpid"
    <3>1. i <= j.count /\ pid' = j.procs[i]
      BY <1>3, <2>1, AfterPid
    <3>2. i \in 1 .. j.count
      BY <1>1, <3>1, TableIs DEF JobsInv, Locals, Sound, Job
    <3>3. pid' \in Members(j)
      BY <3>1, <3>2 DEF Members
    <3>4. slot # 0 /\ Members(tab.slots[slot])' = Members(j)
      BY <1>1, Slotted DEF Members, Slots
    <3>5. QED
      BY <1>1, <3>3, <3>4 DEF Aimed
  <2>2. CASE pc' # "waitpid"
    BY <2>2 DEF Aimed
  <2>3. QED
    BY <2>1, <2>2
<1>7. QED
  BY <1>1, <1>2, <1>5, <1>6, ComesSlots, Calm

LEMMA WaitEndsBooks == ASSUME JobsInv, JobsInv', WaitInv, WaitNoChild \/ WaitOn \/ Return PROVE WaitInv'
<1>1. UNCHANGED <<kernel, dead, tab, newjob>> /\ monitor' = monitor
  BY DEF WaitNoChild, WaitOn, Return, options
<1>2. Gone' = Gone /\ delivered' = delivered
  BY <1>1, KernelSame
<1>3. \/ pc' \in {"bgloop", "hup", "return"} /\ answer' = "nochild" /\ (pc' = "bgloop" => mode' # "pid")
      \/ UNCHANGED <<pc, mode, slot, pid, asked, answer>>
      \/ pc' = "idle"
  BY AfterPid DEF WaitNoChild, WaitOn, Return
<1>4. "nochild" \notin Status
  BY DEF Status, Ended
<1>5. Places' /\ pc' # "adding"
  <2>1. pc' # "adding"
    BY AfterPid DEF WaitNoChild, WaitOn, Return, Waiting
  <2>2. QED
    BY <1>1, <1>3, <2>1 DEF WaitInv, Places
<1>6. pc' # "bgclear"
  BY AfterPid DEF WaitNoChild, WaitOn, Return, Waiting
<1>7. Bookkept => Aimed' /\ Answered'
  BY <1>1, <1>2, <1>3, <1>4 DEF Bookkept, Aimed, Answered, Held, Members
<1>8. QED
  BY <1>1, <1>2, <1>5, <1>6, <1>7, ComesSlots, Calm

LEMMA WaitBgBooks ==
  ASSUME JobsInv, JobsInv', WaitInv, WaitBg \/ AnyLoop \/ AnyNoChild \/ Leave
  PROVE  WaitInv'
<1>1. UNCHANGED <<kernel, dead, tab, newjob>> /\ monitor' = monitor
  BY DEF WaitBg, AnyLoop, AnyNoChild, Leave, options
<1>2. Gone' = Gone /\ delivered' = delivered
  BY <1>1, KernelSame
<1>3. pc' \in {"bgloop", "return", "waitany", "hup"} /\ mode' # "pid"
  BY DEF WaitBg, AnyLoop, AnyNoChild, Leave, WaitInv, Places
<1>4. Places' /\ Aimed' /\ Answered'
  BY <1>3 DEF Places, Aimed, Answered
<1>5. QED
  BY <1>1, <1>2, <1>3, <1>4, ComesSlots, Calm

-----------------------------------------------------------------------------
(* The builtins that change the table.                                       *)

LEMMA Aloof ==
  ASSUME JobsInv', WaitInv, UNCHANGED <<monitor, delivered, dead>>, UNCHANGED locals, Gone' = Gone,
         Comes(tab, tab'), pc = "idle", pc' = "idle"
  PROVE  WaitInv'
<1>1. Places' /\ Aimed' /\ Answered'
  BY DEF Places, Aimed, Answered
<1>2. QED
  BY <1>1, Calm

LEMMA SignalComes ==
  ASSUME NEW k \in Slots, NEW cont, Sound(tab, Gone), tab' = [tab EXCEPT !.slots[k] = Signalled(@, cont)]
  PROVE  Comes(tab, tab')
<1> DEFINE h == Signalled(tab.slots[k], cont)
<1>1. Sane(tab.slots[k], Gone) /\ tab.slots[k] \in Job
  BY DEF Sound, Sane
<1>2. Sane(h, Gone) /\ Bears(h, tab.slots[k])
  BY <1>1, SignalledIs, SignalledBears
<1>3. tab' = [tab EXCEPT !.slots[k] = h]
  BY DEF Sound, Table
<1> HIDE DEF h
<1>4. Comes(tab, [tab EXCEPT !.slots[k] = h])
  BY <1>2, ChangeComes
<1>5. QED
  BY <1>3, <1>4

LEMMA KillBooks == ASSUME JobsInv, JobsInv', WaitInv, NEW k \in Slots, NEW cont, Kill(k, cont) PROVE WaitInv'
<1>1. Gone' = Gone /\ delivered' = delivered
  BY ContinuedIs DEF JobsInv, Kill, Continued
<1>2. Comes(tab, tab')
  BY SignalComes DEF JobsInv, Kill
<1>3. UNCHANGED <<monitor, dead>> /\ UNCHANGED locals /\ pc = "idle" /\ pc' = "idle"
  BY DEF Kill, Idle, options
<1>4. QED
  BY <1>1, <1>2, <1>3, Aloof

LEMMA NotifyBooks == ASSUME JobsInv, JobsInv', WaitInv, NEW k \in Slots, Notify(k) PROVE WaitInv'
<1>1. Gone' = Gone /\ delivered' = delivered
  BY KernelSame DEF Notify
<1>2. Comes(tab, tab')
  <2> DEFINE h == Flag(tab.slots[k], "notify")
  <2>1. Sound(tab, Gone) /\ Sane(tab.slots[k], Gone) /\ tab.slots[k] \in Job
    BY DEF JobsInv, Sound, Sane
  <2>2. Sane(h, Gone) /\ Bears(h, tab.slots[k])
    BY <2>1, FlagIs, FlagBears DEF JobFlags, Control
  <2>3. tab' = [tab EXCEPT !.slots[k] = h]
    BY <2>1 DEF Notify, Sound, Table
  <2> HIDE DEF h
  <2>4. Comes(tab, [tab EXCEPT !.slots[k] = h])
    BY <2>1, <2>2, ChangeComes
  <2>5. QED
    BY <2>3, <2>4
<1>3. UNCHANGED <<monitor, dead>> /\ UNCHANGED locals /\ pc = "idle" /\ pc' = "idle"
  BY DEF Notify, Idle, options
<1>4. QED
  BY <1>1, <1>2, <1>3, Aloof

LEMMA DisownBooks ==
  ASSUME JobsInv, JobsInv', WaitInv,
         \/ \E k \in Jobs, nohup \in BOOLEAN : Disown(k, nohup)
         \/ \E nohup \in BOOLEAN, filter \in Filters : DisownAll(nohup, filter)
  PROVE  WaitInv'
<1>1. /\ UNCHANGED <<monitor, dead>> /\ UNCHANGED locals /\ pc = "idle" /\ pc' = "idle"
      /\ UNCHANGED kernel
  BY DEF Disown, DisownAll, Idle, options
<1>2. Gone' = Gone /\ delivered' = delivered
  BY <1>1, KernelSame
<1>3. Comes(tab, tab')
  <2>1. ASSUME NEW k \in Jobs, NEW nohup, Disown(k, nohup) PROVE Comes(tab, tab')
    <3>1. k \in Slots /\ tab.slots[k].num # 0 /\ Sound(tab, Gone)
      BY DEF Jobs, JobsInv
    <3>2. QED
      BY <2>1, <3>1, DisownComes DEF Disown
  <2>2. ASSUME NEW nohup, NEW filter, DisownAll(nohup, filter) PROVE Comes(tab, tab')
    BY <2>2, DisownJobsComes DEF DisownAll, JobsInv
  <2>3. QED
    BY <2>1, <2>2
<1>4. QED
  BY <1>1, <1>2, <1>3, Aloof

LEMMA HupBooks == ASSUME JobsInv, JobsInv', WaitInv, Hup PROVE WaitInv'
<1> DEFINE todo == {k \in Jobs : k > slot /\ ~Flagged(tab.slots[k], "disowned")}
           k == Min(todo)
<1>1. UNCHANGED <<monitor, dead, newjob, asked>>
  BY DEF Hup, options
<1>2. Gone' = Gone /\ delivered' = delivered /\ Comes(tab, tab') /\ pc' \in {"exited", "waitjob"}
      /\ (pc' = "waitjob" => mode' = "hup")
  <2>1. CASE todo = {}
    <3>1. UNCHANGED kernel /\ tab' = tab /\ pc' = "exited"
      BY <2>1 DEF Hup
    <3>2. QED
      BY <3>1, KernelSame, ComesSlots
  <2>2. CASE todo # {}
    <3>1. /\ tab' = [tab EXCEPT !.slots[k] = Signalled(@, FALSE)]
          /\ Continued(Members(tab.slots[k])) /\ WaitForJob(k, "hup")
      BY <2>2 DEF Hup
    <3>2. todo \subseteq Slots /\ todo \subseteq Nat
      BY Slotted DEF Jobs
    <3> HIDE DEF todo
    <3>3. k \in Slots
      BY <2>2, <3>2, LeastIs
    <3> HIDE DEF k
    <3>4. Gone' = Gone /\ delivered' = delivered
      BY <3>1, ContinuedIs DEF JobsInv, Continued
    <3>5. QED
      BY <3>1, <3>3, <3>4, SignalComes DEF JobsInv, WaitForJob
  <2>3. QED
    BY <2>1, <2>2
<1>3. Places' /\ Aimed' /\ Answered'
  BY <1>2 DEF Places, Aimed, Answered
<1>4. QED
  BY <1>1, <1>2, <1>3, Calm

LEMMA FinComes ==
  ASSUME Sound(tab, Gone), NEW S, S \subseteq Finished, S # {}, Fin(Min(S))
  PROVE  Comes(tab, tab') /\ pc' = "return"
<1>1. S \subseteq Nat /\ \A k \in S : k \in Slots /\ tab.slots[k].num # 0
  BY Slotted DEF Finished, Jobs
<1>2. Min(S) \in S
  BY <1>1, LeastIs
<1>3. QED
  BY <1>1, <1>2, RemoveComes DEF Fin

LEMMA AnyBooks == ASSUME JobsInv, JobsInv', WaitInv, WaitAny \/ AnyDone PROVE WaitInv'
<1>1. UNCHANGED <<monitor, dead, newjob>> /\ UNCHANGED kernel /\ mode' # "pid"
  BY DEF WaitAny, AnyDone, options, WaitInv, Places
<1>2. Gone' = Gone /\ delivered' = delivered
  BY <1>1, KernelSame
<1>3. Untold \subseteq Finished
  BY DEF Untold
<1>4. \/ Untold # {} /\ Fin(Min(Untold))
      \/ Finished # {} /\ Fin(Min(Finished))
      \/ pc' = "anyloop" /\ tab' = tab
  BY DEF WaitAny, AnyDone
<1>5. Comes(tab, tab') /\ pc' \in {"return", "anyloop"}
  BY <1>3, <1>4, FinComes, ComesSlots DEF JobsInv
<1>6. Places' /\ Aimed' /\ Answered'
  BY <1>1, <1>5 DEF Places, Aimed, Answered
<1>7. QED
  BY <1>1, <1>2, <1>5, <1>6, Calm

-----------------------------------------------------------------------------
(* The steps that hand out a status.                                         *)

\* A step keeps the invariant if it keeps its links, and the books without
\* job control.
LEMMA Keeping ==
  ASSUME WaitInv, monitor' = monitor, \A p \in Pids : delivered[p] \subseteq delivered'[p], Places', Told',
         Simple /\ Bookkept /\ Simple' =>
             /\ AllBooked(tab', Safe')
             /\ pc' = "adding" => Plain(newjob') /\ Booked(newjob', Safe')
             /\ pc' = "bgclear" => AllBooked(tab', {})
             /\ Aimed' /\ Answered'
  PROVE  WaitInv'
<1>1. SUFFICES ASSUME Simple' PROVE Bookkept'
  BY DEF WaitInv
<1>2. Simple /\ Bookkept
  BY <1>1, SimpleBefore DEF WaitInv
<1>3. /\ AllBooked(tab', Safe')
      /\ pc' = "adding" => Plain(newjob') /\ Booked(newjob', Safe')
      /\ pc' = "bgclear" => AllBooked(tab', {})
      /\ Aimed' /\ Answered'
  BY <1>1, <1>2
<1>4. AllBooked(tab, Safe)' /\ Cleared' /\ Starting'
  BY <1>3 DEF AllBooked, Cleared, Starting, Plain, Booked, Members
<1>5. QED
  BY <1>3, <1>4 DEF Bookkept

\* Once p is marked where it is, the books do without its entry.
LEMMA LessSafe ==
  ASSUME NEW t, NEW S, AllBooked(t, S), NEW p, \A k \in Slots : p \in Members(t.slots[k]) => p \in t.slots[k].exits
  PROVE  AllBooked(t, S \ {p})
  BY DEF AllBooked, Booked

LEMMA CollectedSafe ==
  ASSUME NEW S, Collected(S)
  PROVE  Gone' \subseteq Gone \cup S /\ (dead' = dead => Safe \ S \subseteq Safe')
<1>1. Gone' \subseteq Gone \cup S
  BY DEF Gone, Collected
<1>2. QED
  BY <1>1 DEF Safe, Listed

LEMMA RippedSafe ==
  ASSUME NEW F, dead \in Seq(F), NEW p, Listed(p), Gone' = Gone, dead' = Without(p)
  PROVE  Safe \ {p} \subseteq Safe'
<1>1. SUFFICES ASSUME NEW q \in Safe, q # p PROVE q \in Safe'
  OBVIOUS
<1>2. Listed(q) => Lists(dead', q)
  BY <1>1, WithoutLists
<1>3. QED
  BY <1>1, <1>2 DEF Safe, Lists, Listed

LEMMA GotBooks ==
  ASSUME Locals, pc = "waitpid", Aimed, NEW G, G \subseteq Pids, Sound(tab, G), NEW s \in Ended, pid \in G,
         Got(s), NEW S, AllBooked(tab, S)
  PROVE  /\ AllBooked(tab', S \ {pid})
         /\ pc' \in {"bgloop", "hup", "return", "waitjob"}
         /\ pc' \in {"bgloop", "waitjob"} => mode # "pid"
         /\ mode = "pid" => answer' = s
<1> DEFINE j == tab.slots[slot]
           h == SetJobStatus(SetPidStatus(j, pid, s), pid, s)
           e == Flag(h, "notified")
           t == [tab EXCEPT !.slots[slot] = e]
<1>1. CASE slot = 0
  <2>1. tab' = RemoveDead(tab) /\ answer' = s /\ pc' = After(mode)
    BY <1>1 DEF Got
  <2>2. pid \notin Held(tab)
    BY <1>1 DEF Aimed
  <2>3. AllBooked(tab, S \ {pid})
    BY <2>2, LessSafe DEF Held
  <2>4. Sound(RemoveDead(tab), G) /\ Comes(tab, RemoveDead(tab))
    BY RemoveDeadKeeps, RemoveDeadComes DEF Becomes
  <2>5. AllBooked(tab', S \ {pid})
    BY <2>1, <2>3, <2>4, ComesBooked
  <2>6. QED
    BY <2>1, <2>5, AfterPid
<1>2. CASE slot # 0
  <2>1. slot \in Slots /\ pid \in Members(j)
    BY <1>2 DEF Aimed
  <2>2. Sane(j, G) /\ j \in Job /\ Plain(j) /\ j.count <= Len(j.procs) /\ tab \in Table
    BY <2>1 DEF Sound, AllBooked, Sane
  <2>3. ~ReadsNull(j, pid)
    <3>1. j.count # 0 /\ j.count \in Nat
      BY <2>1, <2>2 DEF Members, Job
    <3>2. j.procs # <<>>
      BY <2>2, <3>1
    <3>3. QED
      BY <3>2 DEF ReadsNull
  <2>4. Sane(h, G) /\ Bears(h, j) /\ pid \in h.exits /\ h.status = s
    <3>1. pid \in Pids /\ s \in Status
      BY DEF Status
    <3>2. Sane(h, G)
      BY <2>2, <3>1, BookedIs
    <3>3. Bears(h, j) /\ pid \in h.exits
      BY <2>1, <2>2, BookedBears
    <3>4. h.status = s
      BY <2>1, <2>2, PlainStatus
    <3>5. QED
      BY <3>2, <3>3, <3>4
  <2>5. [tab EXCEPT !.slots[slot] = Flag(SetJobStatus(SetPidStatus(@, pid, s), pid, s), "notified")] = t
    BY <2>1, <2>2 DEF Table
  <2>6. /\ tab' = RemoveDead(t) /\ answer' = t.slots[slot].status
        /\ pc' = IF mode = "pid" THEN "return" ELSE "waitjob"
    BY <1>2, <2>3, <2>5 DEF Got
  <2> HIDE DEF h
  <2>7. Sane(e, G) /\ Bears(e, j) /\ pid \in e.exits /\ e.status = s
    <3>1. h \in Job /\ "notified" \in JobFlags /\ "notified" \notin Control
      BY <2>4 DEF Sane, JobFlags, Control
    <3>2. Sane(e, G) /\ e.exits = h.exits
      BY <2>4, <3>1, FlagIs
    <3>3. Bears(e, h) /\ e.status = h.status
      BY <3>1, FlagBears DEF Flag, Job
    <3> HIDE DEF e
    <3>4. QED
      BY <2>4, <3>2, <3>3, BearsTrans
  <2> HIDE DEF e
  <2>8. Becomes(tab, t, G) /\ t.slots[slot] = e /\ \A l \in Slots : Bears(t.slots[l], tab.slots[l])
    BY <2>1, <2>7, ChangeBears
  <2> HIDE DEF t
  <2>9. \A l \in Slots : pid \in Members(t.slots[l]) => pid \in t.slots[l].exits
    <3>1. \A l \in Slots : pid \in Members(tab.slots[l]) => l = slot
      BY <2>1, OnlyThere
    <3>2. \A l \in Slots : pid \in Members(t.slots[l]) => l = slot
      BY <2>8, <3>1, SameMembers DEF Bears
    <3>3. QED
      BY <2>7, <2>8, <3>2
  <2>10. AllBooked(t, S \ {pid}) /\ Sound(t, G)
    <3>1. Comes(tab, t) /\ Sound(t, G)
      BY <2>8, ComesAll DEF Becomes
    <3>2. AllBooked(t, S)
      BY <3>1, ComesBooked
    <3>3. QED
      BY <2>9, <3>1, <3>2, LessSafe
  <2>11. AllBooked(tab', S \ {pid})
    <3>1. Sound(RemoveDead(t), G) /\ Comes(t, RemoveDead(t))
      BY <2>10, RemoveDeadKeeps, RemoveDeadComes DEF Becomes
    <3>2. QED
      BY <2>6, <2>10, <3>1, ComesBooked
  <2>12. QED
    BY <2>6, <2>7, <2>8, <2>11
<1>3. QED
  BY <1>1, <1>2

LEMMA WaitCollectBooks == ASSUME JobsInv, WaitInv, WaitCollect PROVE WaitInv'
<1> DEFINE s == report[pid]
<1>1. /\ pid \in Pids /\ pc = "waitpid" /\ s \in Ended /\ s \in Status /\ Collected({pid}) /\ Got(s)
      /\ monitor' = monitor /\ UNCHANGED <<dead, mode, newjob, slot, pid, asked>>
  BY DEF JobsInv, Kernel, Locals, WaitCollect, Waiting, options, Status
<1>2. KernelStep /\ pid \in Gone'
  BY <1>1, CollectedIs DEF JobsInv
<1>3. Sound(tab, Gone') /\ Gone' \subseteq Pids
  BY <1>2, SoundGrows DEF JobsInv, KernelStep, Gone
<1>4. (\A p \in Pids : delivered[p] \subseteq delivered'[p]) /\ s \in delivered'[pid]
  BY <1>1, CollectedHears
<1>5. Safe \ {pid} \subseteq Safe'
  BY <1>1, CollectedSafe
<1> HIDE DEF s
<1>6. /\ pc' \in {"bgloop", "hup", "return", "crashed", "waitjob"}
      /\ pc' \in {"bgloop", "waitjob"} => mode # "pid"
  BY <1>1, AfterPid DEF Got
<1>7. Places'
  BY <1>1, <1>6 DEF Places
<1>8. Told'
  BY <1>1, <1>4, ToldStays DEF WaitInv
<1>9. ASSUME Simple, Bookkept
      PROVE  /\ AllBooked(tab', Safe') /\ pc' # "bgclear"
             /\ Aimed' /\ Answered'
  <2>1. /\ AllBooked(tab', Safe \ {pid})
        /\ pc' \in {"bgloop", "hup", "return", "waitjob"}
        /\ pc' \in {"bgloop", "waitjob"} => mode # "pid"
        /\ mode = "pid" => answer' = s
    BY <1>1, <1>2, <1>3, <1>9, GotBooks DEF JobsInv, Bookkept
  <2>2. mode = "pid" => asked = pid
    BY <1>1 DEF WaitInv, Places
  <2>3. Aimed' /\ Answered'
    BY <1>1, <1>4, <2>1, <2>2 DEF Aimed, Answered
  <2>4. QED
    BY <1>5, <2>1, <2>3, MoreBooked
<1>10. QED
  BY <1>1, <1>4, <1>6, <1>7, <1>8, <1>9, Keeping

LEMMA WaitRipBooks == ASSUME JobsInv, WaitInv, WaitRip PROVE WaitInv'
<1> DEFINE s == ListedStatus(pid)
           F == Heard(delivered)
           E == Entries(Gone)
<1>1. /\ pid \in Pids /\ pc = "waitpid" /\ Got(s) /\ Listed(pid) /\ dead' = Without(pid)
      /\ monitor' = monitor /\ UNCHANGED <<mode, newjob, slot, pid, asked>> /\ UNCHANGED kernel
  BY DEF JobsInv, Locals, WaitRip, Waiting, options
<1>2. Gone' = Gone /\ delivered' = delivered
  BY <1>1, KernelSame
<1>3. dead \in Seq(F) /\ dead \in Seq(E)
  BY DEF WaitInv, Told, JobsInv, DeadList
<1>4. dead[Place(pid)] \in F /\ dead[Place(pid)] \in E /\ dead[Place(pid)].pid = pid /\ Without(pid) \in Seq(F)
  <2> HIDE DEF F, E
  <2>1. QED
    BY <1>1, <1>3, PlaceIs
<1>5. s \in delivered[pid] /\ (s \in Ended => pid \in Gone)
  BY <1>4 DEF ListedStatus, Heard, Entries
<1> HIDE DEF s
<1>6. /\ pc' \in {"bgloop", "hup", "return", "crashed", "waitjob"}
      /\ pc' \in {"bgloop", "waitjob"} => mode # "pid"
  BY <1>1, AfterPid DEF Got
<1>7. Places'
  BY <1>1, <1>6 DEF Places
<1>8. Told'
  BY <1>1, <1>2, <1>4 DEF Told, Heard
<1>9. Safe \ {pid} \subseteq Safe'
  <2> HIDE DEF F
  <2>1. QED
    BY <1>1, <1>2, <1>3, RippedSafe
<1>10. ASSUME Simple, Bookkept
       PROVE  /\ AllBooked(tab', Safe') /\ pc' # "bgclear"
              /\ Aimed' /\ Answered'
  <2>1. s \in Ended /\ pid \in Gone
    BY <1>1, <1>5, <1>10 DEF Simple, Unstopped
  <2>2. /\ AllBooked(tab', Safe \ {pid})
        /\ pc' \in {"bgloop", "hup", "return", "waitjob"}
        /\ pc' \in {"bgloop", "waitjob"} => mode # "pid"
        /\ mode = "pid" => answer' = s
    BY <1>1, <1>10, <2>1, GoneArePids, GotBooks DEF JobsInv, Bookkept
  <2>3. mode = "pid" => asked = pid
    BY <1>1 DEF WaitInv, Places
  <2>4. Aimed' /\ Answered'
    BY <1>1, <1>2, <1>5, <2>2, <2>3 DEF Aimed, Answered
  <2>5. QED
    BY <1>9, <2>2, <2>4, MoreBooked
<1>11. QED
  BY <1>1, <1>2, <1>6, <1>7, <1>8, <1>10, Keeping

LEMMA ListBooks == ASSUME JobsInv, JobsInv', WaitInv, List \/ WaitInterrupted \/ AnyInterrupted PROVE WaitInv'
<1> DEFINE D == DeadMembers
<1>1. /\ Listing /\ monitor' = monitor /\ UNCHANGED <<dead, mode, newjob, slot, pid, asked>>
      /\ \/ pc' = "idle"
         \/ pc = "waitpid" /\ pc' = After(mode) /\ answer' = "interrupted"
         \/ pc = "waitany" /\ pc' \in {"return", "anydone"} /\ answer' = "interrupted"
  BY DEF List, WaitInterrupted, AnyInterrupted, Idle, Waiting, options, locals
<1>2. Collected(D)
  BY <1>1 DEF Listing
<1>3. \A p \in D : p \in Pids /\ proc[p] = "zombie" /\ report[p] \in Ended /\ report[p] \in Status
  <2>1. D \subseteq Pids /\ \A p \in D : proc[p] = "zombie"
    BY MembersInPids DEF DeadMembers, JobsInv, Sound, Jobs
  <2>2. QED
    BY <2>1 DEF JobsInv, Kernel, Status
<1> HIDE DEF D
<1>4. KernelStep /\ \A p \in D : p \in Gone'
  BY <1>2, <1>3, CollectedIs DEF JobsInv
<1>5. Sound(tab, Gone') /\ Gone' \subseteq Pids
  BY <1>4, SoundGrows DEF JobsInv, KernelStep, Gone
<1>6. \A p \in Pids : delivered[p] \subseteq delivered'[p]
  BY <1>2, CollectedHears
<1>7. Safe \ D \subseteq Safe'
  BY <1>1, <1>2, CollectedSafe
<1>8. /\ pc' \in {"idle", "bgloop", "hup", "return", "anydone"}
      /\ pc' \in {"bgloop", "anydone"} => mode # "pid"
      /\ pc' = "return" => answer' = "interrupted"
  BY <1>1, AfterPid DEF WaitInv, Places
<1>9. Places'
  BY <1>1, <1>8 DEF Places
<1>10. Told'
  BY <1>1, <1>6, ToldStays DEF WaitInv
<1>11. Aimed' /\ Answered'
  BY <1>8 DEF Aimed, Answered, Status, Ended
<1>12. ASSUME AllBooked(tab, Safe) PROVE AllBooked(tab', Safe')
  <2>1. \A p \in DeadMembers : p \in Gone' /\ report[p] \in Ended
    BY <1>3, <1>4 DEF D
  <2>2. AllBooked(tab', Safe \ D)
    BY <1>1, <1>5, <1>12, <2>1, ListedBooked DEF Listing, D
  <2>3. QED
    BY <1>7, <2>2, MoreBooked
<1>13. QED
  BY <1>1, <1>6, <1>8, <1>9, <1>10, <1>11, <1>12, Keeping DEF Bookkept

LEMMA BgLoopBooks == ASSUME JobsInv, JobsInv', WaitInv, BgLoop PROVE WaitInv'
<1>1. /\ UNCHANGED <<dead, newjob, asked>> /\ monitor' = monitor /\ UNCHANGED kernel /\ pc = "bgloop"
  BY DEF BgLoop, options
<1>2. Gone' = Gone /\ delivered' = delivered /\ Safe' = Safe /\ mode # "pid"
  BY <1>1, KernelSame, SafeStays DEF WaitInv, Places
<1>3. CASE Unfinished # {} /\ WaitForJob(Min(Unfinished), "bg") /\ UNCHANGED tab
  <2>1. Places' /\ Aimed' /\ Answered' /\ pc' = "waitjob"
    BY <1>3 DEF WaitForJob, Places, Aimed, Answered
  <2>2. QED
    BY <1>1, <1>2, <1>3, <2>1, ComesSlots, Calm
<1>4. CASE /\ Unfinished = {} /\ pc' = "bgclear" /\ UNCHANGED <<slot, i, mode>>
           /\ tab' = [tab EXCEPT !.slots = [k \in Slots |->
                         IF k \in Jobs /\ Complete(@[k]) THEN Flag(@[k], "notified") ELSE @[k]]]
  <2> DEFINE s == [k \in Slots |-> IF k \in Jobs /\ Complete(tab.slots[k])
                                   THEN Flag(tab.slots[k], "notified") ELSE tab.slots[k]]
  <2>1. Sound(tab, Gone) /\ tab \in Table /\ Sound(tab', Gone')
    BY DEF JobsInv, Sound
  <2>2. \A k \in Slots : Bears(s[k], tab.slots[k])
    <3>1. TAKE k \in Slots
    <3>2. tab.slots[k] \in Job /\ "notified" \notin Control
      BY <2>1 DEF Sound, Sane, Control
    <3>3. Bears(Flag(tab.slots[k], "notified"), tab.slots[k]) /\ Bears(tab.slots[k], tab.slots[k])
      BY <3>2, FlagBears, BearsSelf
    <3>4. QED
      BY <3>3
  <2>3. tab'.slots = s
    BY <1>4, <2>1 DEF Table
  <2> HIDE DEF s
  <2>4. Comes(tab, tab')
    BY <2>2, <2>3, ComesAll
  <2>5. ASSUME AllBooked(tab, Safe) PROVE AllBooked(tab, {})
    <3>1. SUFFICES ASSUME NEW k \in Slots PROVE Plain(tab.slots[k]) /\ Members(tab.slots[k]) \subseteq tab.slots[k].exits
      BY DEF AllBooked, Booked
    <3>2. Plain(tab.slots[k]) /\ Sane(tab.slots[k], Gone)
      BY <2>1, <2>5 DEF AllBooked, Sound
    <3>3. CASE tab.slots[k].count = 0
      BY <3>2, <3>3 DEF Members
    <3>4. CASE tab.slots[k].count # 0
      <4>1. k \in Jobs /\ "fg" \notin tab.slots[k].flags
        BY <2>1, <3>2, <3>4 DEF Plain, Control, Sound, Jobs
      <4>2. Complete(tab.slots[k])
        BY <1>4, <4>1 DEF Unfinished, Flagged
      <4>3. QED
        BY <3>2, <4>2, CompleteIs
    <3>5. QED
      BY <3>3, <3>4
  <2>6. AllBooked(tab, Safe) => AllBooked(tab', {}) /\ AllBooked(tab', Safe')
    BY <2>1, <2>4, <2>5, ComesBooked, MoreBooked
  <2>7. Places' /\ Aimed' /\ Answered'
    BY <1>2, <1>4 DEF Places, Aimed, Answered
  <2>8. Told'
    BY <1>1, <1>2, ToldStays DEF WaitInv
  <2>9. QED
    BY <1>1, <1>2, <1>4, <2>6, <2>7, <2>8, Keeping DEF Bookkept
<1>5. QED
  BY <1>3, <1>4 DEF BgLoop

LEMMA BgClearBooks == ASSUME JobsInv, WaitInv, BgClear PROVE WaitInv'
<1>1. /\ tab' = RemoveDead(tab) /\ dead' = <<>> /\ pc = "bgclear" /\ pc' = "return"
      /\ monitor' = monitor /\ UNCHANGED locals /\ UNCHANGED kernel /\ mode' = mode
  BY DEF BgClear, options, locals
<1>2. delivered' = delivered /\ mode # "pid"
  BY <1>1, KernelSame DEF WaitInv, Places
<1>3. Places' /\ Aimed' /\ Answered'
  BY <1>1, <1>2 DEF Places, Aimed, Answered
<1>4. Told'
  BY <1>1, <1>2, ToldStays DEF WaitInv
<1>5. ASSUME Cleared PROVE AllBooked(tab', Safe')
  <2>1. AllBooked(tab, {})
    BY <1>1, <1>5 DEF Cleared
  <2>2. Sound(RemoveDead(tab), Gone) /\ Comes(tab, RemoveDead(tab))
    BY RemoveDeadKeeps, RemoveDeadComes DEF Becomes, JobsInv
  <2>3. QED
    BY <1>1, <2>1, <2>2, ComesBooked, MoreBooked
<1>6. QED
  BY <1>1, <1>2, <1>3, <1>4, <1>5, Keeping DEF Bookkept

LEMMA AnyCollectBooks == ASSUME JobsInv, JobsInv', WaitInv, NEW p \in Pids, AnyCollect(p) PROVE WaitInv'
<1> DEFINE s == report[p]
           k == JobByPid(tab, p)
           j == tab.slots[k]
           h == SetJobStatus(SetPidStatus(j, p, s), p, s)
           t == [tab EXCEPT !.slots[k] = h]
           u == IF k = 0 THEN tab ELSE t
<1>1. /\ s \in Ended /\ s \in Status /\ Collected({p}) /\ monitor' = monitor /\ dead' = dead
      /\ pc = "waitany" /\ pc' = "anydone" /\ mode' = mode /\ mode # "pid"
  BY DEF JobsInv, Kernel, AnyCollect, Status, options, locals, WaitInv, Places
<1>2. KernelStep /\ p \in Gone'
  BY <1>1, CollectedIs DEF JobsInv
<1>3. Sound(tab, Gone') /\ Gone' \subseteq Pids
  BY <1>2, SoundGrows DEF JobsInv, KernelStep, Gone
<1>4. \A q \in Pids : delivered[q] \subseteq delivered'[q]
  BY <1>1, CollectedHears
<1>5. Safe \ {p} \subseteq Safe'
  BY <1>1, CollectedSafe
<1>6. k # 0 => k \in Slots /\ p \in Members(j)
  BY PidIsIn, MembersAre
<1>7. tab' = RemoveDead(u)
  <2>1. k # 0 => [tab EXCEPT !.slots[k] = SetJobStatus(SetPidStatus(@, p, s), p, s)] = t
    BY <1>3, <1>6 DEF Sound, Table
  <2>2. QED
    BY <2>1 DEF AnyCollect
<1> HIDE DEF s
<1>8. Sound(u, Gone') /\ Comes(tab, u) /\ \A l \in Slots : p \in Members(u.slots[l]) => p \in u.slots[l].exits
  <2>1. CASE k = 0
    <3>1. p \notin Held(tab)
      BY <2>1, NotThere
    <3>2. QED
      BY <1>3, <2>1, <3>1, ComesSlots DEF Held
  <2>2. CASE k # 0
    <3>1. Sane(j, Gone')
      BY <1>3, <1>6, <2>2 DEF Sound
    <3>2. Sane(h, Gone') /\ Bears(h, j) /\ p \in h.exits
      BY <1>1, <1>2, <1>3, <1>6, <2>2, <3>1, BookedIs, BookedBears
    <3>3. \A l \in Slots : p \in Members(tab.slots[l]) => l = k
      BY <1>3, <1>6, <2>2, OnlyThere
    <3> HIDE DEF h, k
    <3>4. Becomes(tab, t, Gone') /\ t.slots[k] = h /\ \A l \in Slots : Bears(t.slots[l], tab.slots[l])
      BY <1>3, <1>6, <2>2, <3>2, ChangeBears
    <3> HIDE DEF t
    <3>5. \A l \in Slots : p \in Members(t.slots[l]) => p \in t.slots[l].exits
      BY <3>2, <3>3, <3>4, SameMembers DEF Bears
    <3>6. QED
      BY <2>2, <3>4, <3>5, ComesAll DEF Becomes
  <2>3. QED
    BY <2>1, <2>2
<1> HIDE DEF u
<1>9. ASSUME AllBooked(tab, Safe) PROVE AllBooked(tab', Safe')
  <2>1. AllBooked(u, Safe \ {p})
    BY <1>8, <1>9, ComesBooked, LessSafe
  <2>2. Sound(RemoveDead(u), Gone') /\ Comes(u, RemoveDead(u))
    BY <1>8, RemoveDeadKeeps, RemoveDeadComes DEF Becomes
  <2>3. QED
    BY <1>5, <1>7, <2>1, <2>2, ComesBooked, MoreBooked
<1>10. Places' /\ Aimed' /\ Answered'
  BY <1>1 DEF Places, Aimed, Answered
<1>11. Told'
  BY <1>1, <1>4, ToldStays DEF WaitInv
<1>12. QED
  BY <1>1, <1>4, <1>9, <1>10, <1>11, Keeping DEF Bookkept

LEMMA ReapBooks == ASSUME JobsInv, JobsInv', WaitInv, NEW p \in Pids, HandlerReap(p) PROVE WaitInv'
<1> DEFINE s == report[p]
           F == Heard(delivered')
<1>1. /\ s \in Status /\ Collected({p}) /\ dead' = Put(p, s) /\ tab' = Notice(tab, p, s)
      /\ monitor' = monitor /\ UNCHANGED <<pc, mode, newjob, slot, pid, asked, answer>>
  BY DEF JobsInv, Kernel, HandlerReap, options, locals
<1>2. KernelStep /\ (s \in Ended => p \in Gone' /\ p \notin Gone)
  BY <1>1, CollectedIs DEF JobsInv, Kernel, Gone
<1>3. Sound(tab, Gone') /\ Gone' \subseteq Pids
  BY <1>2, SoundGrows DEF JobsInv, KernelStep, Gone
<1>4. (\A q \in Pids : delivered[q] \subseteq delivered'[q]) /\ s \in delivered'[p]
  BY <1>1, CollectedHears
<1>5. Gone' \subseteq Gone \cup {p}
  BY <1>1, CollectedSafe
<1> HIDE DEF s
<1>6. dead \in Seq(F) /\ dead' \in Seq(F)
  <2>1. dead \in Seq(F)
    BY <1>4, HeardGrows DEF WaitInv
  <2>2. [pid |-> p, status |-> s] \in F
    BY <1>1, <1>4 DEF Heard
  <2> HIDE DEF F
  <2>3. QED
    BY <1>1, <2>1, <2>2, PutIs
<1>7. Told'
  BY <1>6 DEF Told, Heard
<1>8. Safe \subseteq Safe'
  <2> HIDE DEF F
  <2>1. Lists(dead', p) /\ \A q : Listed(q) => Lists(dead', q)
    BY <1>1, <1>6, PutLists
  <2>2. QED
    BY <1>5, <2>1 DEF Safe, Lists, Listed
<1>9. Places'
  BY <1>1 DEF WaitInv, Places, Members
<1>10. ASSUME Simple, Bookkept, Simple'
       PROVE  /\ AllBooked(tab', Safe')
              /\ pc' = "adding" => Plain(newjob') /\ Booked(newjob', Safe')
              /\ pc' = "bgclear" => AllBooked(tab', {})
              /\ Aimed' /\ Answered'
  <2>1. s \in Ended /\ p \in Gone' /\ p \notin Gone
    BY <1>2, <1>4, <1>10 DEF Simple, Unstopped
  <2>2. \A k \in Slots : p \notin tab.slots[k].exits /\ Plain(tab.slots[k])
    BY <1>10, <2>1 DEF JobsInv, Sound, Sane, Bookkept, AllBooked
  <2>3. \A k \in Slots : Bears(tab'.slots[k], tab.slots[k])
    BY <1>1, <1>3, <2>1, <2>2, NoticeBears
  <2>4. Comes(tab, tab') /\ Sound(tab', Gone')
    BY <2>3, ComesAll DEF JobsInv
  <2>5. AllBooked(tab', Safe') /\ (pc' = "bgclear" => AllBooked(tab', {}))
    BY <1>1, <1>8, <1>10, <2>4, ComesBooked, MoreBooked DEF Bookkept, Cleared
  <2>6. pc' = "adding" => Plain(newjob') /\ Booked(newjob', Safe')
    BY <1>1, <1>8, <1>10 DEF Bookkept, Starting, Booked
  <2>7. \A k \in Slots : Members(tab'.slots[k]) = Members(tab.slots[k])
    BY <2>3, SameMembers DEF Bears
  <2>8. Aimed'
    <3>1. Held(tab') = Held(tab)
      BY <2>7 DEF Held
    <3>2. Held(tab)' = Held(tab') /\ Members(tab.slots[slot])' = Members(tab'.slots[slot])
      BY <1>1 DEF Held, Members
    <3>3. slot \in Slots => Members(tab'.slots[slot]) = Members(tab.slots[slot])
      BY <2>7
    <3>4. QED
      BY <1>1, <1>10, <3>1, <3>2, <3>3 DEF Bookkept, Aimed
  <2>9. Answered'
    <3>1. asked \in Pids => delivered[asked] \subseteq delivered'[asked]
      BY <1>4
    <3>2. QED
      BY <1>1, <1>10, <3>1 DEF Bookkept, Answered
  <2>10. QED
    BY <2>5, <2>6, <2>8, <2>9
<1>11. QED
  BY <1>1, <1>4, <1>7, <1>9, <1>10, Keeping

-----------------------------------------------------------------------------
(* The steps that start a job.                                               *)

LEMMA ForkBooks ==
  ASSUME JobsInv, WaitInv, NEW p \in Pids, Launch(p) \/ StartForeground(p)
  PROVE  WaitInv'
<1>1. /\ Fork(p) /\ monitor' = monitor /\ dead' = dead /\ tab' = tab
      /\ pc' = "forking" \/ (Launch(p) /\ pc' = "adding")
  BY DEF Launch, StartForeground, options
<1>2. Gone' = Gone /\ delivered' = delivered /\ proc'[p] = "running"
  BY <1>1, ForkIs DEF JobsInv, Fork
<1>3. Safe' = Safe
  BY <1>1, <1>2, SafeStays
<1>4. Places' /\ Aimed' /\ Answered'
  BY <1>1 DEF Places, Aimed, Answered
<1>5. Told'
  BY <1>1, <1>2, ToldStays DEF WaitInv
<1>6. ASSUME ~monitor, pc' = "adding" PROVE Plain(newjob') /\ Booked(newjob', Safe')
  <2>1. newjob' = NewJob(p, {})
    BY <1>1, <1>6 DEF Launch
  <2>2. Members(NewJob(p, {})) = {p}
    BY NewJobIs
  <2>3. p \in Safe'
    BY <1>2 DEF Safe, Gone
  <2>4. NewJob(p, {}).count = 1 /\ NewJob(p, {}).flags = {}
    BY <1>6 DEF NewJob, NoJob
  <2>5. QED
    BY <2>1, <2>2, <2>3, <2>4 DEF Plain, Booked
<1>7. QED
  BY <1>1, <1>2, <1>3, <1>4, <1>5, <1>6, Keeping DEF Simple, Bookkept

LEMMA AddJobBooks == ASSUME JobsInv, WaitInv, AddJob PROVE WaitInv'
<1>1. /\ UNCHANGED kernel /\ monitor' = monitor /\ dead' = dead /\ pc = "adding" /\ pc' = "idle"
      /\ tab' = IF Room(tab) THEN Add(tab, newjob) ELSE tab
  BY DEF AddJob, options
<1>2. Gone' = Gone /\ delivered' = delivered
  BY <1>1, KernelSame
<1>3. Safe' = Safe
  BY <1>1, <1>2, SafeStays
<1>4. Places' /\ Aimed' /\ Answered'
  BY <1>1 DEF Places, Aimed, Answered
<1>5. Told'
  BY <1>1, <1>2, ToldStays DEF WaitInv
<1>6. ASSUME AllBooked(tab, Safe), Starting PROVE AllBooked(tab', Safe)
  <2>1. Sound(tab, Gone) /\ Sane(newjob, Gone) /\ Members(newjob) \cap Held(tab) = {}
    BY DEF JobsInv, NewOne
  <2>2. Plain(newjob) /\ Booked(newjob, Safe)
    BY <1>1, <1>6 DEF Starting
  <2>3. Room(tab) => AllBooked(Add(tab, newjob), Safe)
    BY <1>6, <2>1, <2>2, AddBooked
  <2>4. QED
    BY <1>1, <1>6, <2>3
<1>7. QED
  BY <1>1, <1>2, <1>3, <1>4, <1>5, <1>6, Keeping DEF Bookkept

LEMMA FgCollectBooks == ASSUME JobsInv, WaitInv, FgCollect PROVE WaitInv'
<1> DEFINE s == ListedStatus(pid)
           signal == monitor /\ s \in {"stop", "killed"}
           marked == SetPidStatus(newjob, pid, s)
           job == IF signal THEN marked ELSE SetJobStatus(marked, pid, s)
           left == (1 .. job.count) \ Marked(job)
           F == Heard(delivered)
           E == Entries(Gone)
<1>1. /\ pid \in Pids /\ pc = "fgwait" /\ Sound(tab, Gone) /\ Listed(pid) /\ Sane(newjob, Gone)
      /\ UNCHANGED kernel /\ monitor' = monitor /\ pid \in Members(newjob)
  BY DEF JobsInv, Locals, FgCollect, NewOne, options, WaitInv, Places
<1>2. Gone' = Gone /\ delivered' = delivered
  BY <1>1, KernelSame
<1>3. dead[Place(pid)] \in F /\ dead[Place(pid)] \in E /\ dead[Place(pid)].pid = pid /\ Without(pid) \in Seq(F)
  <2>1. dead \in Seq(F) /\ dead \in Seq(E)
    BY DEF WaitInv, Told, JobsInv, DeadList
  <2> HIDE DEF F, E
  <2>2. QED
    BY <1>1, <2>1, PlaceIs
<1>4. s \in Status /\ (s \in Ended => pid \in Gone) /\ s \in delivered[pid]
  BY <1>3 DEF Entries, Heard, ListedStatus
<1>5. Sane(job, Gone)
  <2>1. Sane(marked, Gone) /\ SameJob(marked, newjob)
    BY <1>1, <1>4, GoneArePids, PidStatusIs
  <2>2. Sane(SetJobStatus(marked, pid, s), Gone)
    BY <1>1, <1>4, GoneArePids, BookedIs
  <2>3. QED
    BY <2>1, <2>2
<1>6. /\ dead' = IF signal THEN Append(Without(pid), [pid |-> pid, status |-> s]) ELSE Without(pid)
      /\ tab'  = IF signal THEN SetCurJob(tab, 0) ELSE tab
      /\ \/ /\ signal \/ left = {}
            /\ pc' = IF left = {} THEN "idle" ELSE "adding"
         \/ /\ left # {}
            /\ pid'    = job.procs[Min(left)]
            /\ newjob' = job
            /\ pc' = "fgwait"
  BY <1>1 DEF FgCollect
<1>7. Told'
  <2>1. [pid |-> pid, status |-> s] \in F
    BY <1>1, <1>4 DEF Heard
  <2> HIDE DEF F, s, signal
  <2>2. Append(Without(pid), [pid |-> pid, status |-> s]) \in Seq(F)
    BY <1>3, <2>1, AppendIs
  <2>3. dead' \in Seq(F)
    BY <1>3, <1>6, <2>2
  <2>4. Heard(delivered)' = Heard(delivered)
    BY <1>2 DEF Heard
  <2>5. QED
    BY <2>3, <2>4 DEF Told, F
<1>8. ~monitor => ~signal
  OBVIOUS
<1> HIDE DEF s, signal, marked, job
<1>9. Places'
  <2>1. CASE pc' \in {"idle", "adding"}
    BY <2>1 DEF Places
  <2>2. CASE left # {} /\ pid' = job.procs[Min(left)] /\ newjob' = job /\ pc' = "fgwait"
    <3>1. left \subseteq Nat /\ left \subseteq 1 .. job.count
      BY <1>5 DEF Sane, Job
    <3>2. Min(left) \in 1 .. job.count
      <4> HIDE DEF left
      <4>1. QED
        BY <2>2, <3>1, LeastIs
    <3> HIDE DEF left
    <3>3. pid' \in Members(newjob')
      BY <2>2, <3>2 DEF Members
    <3>4. Members(newjob)' = Members(newjob')
      BY DEF Members
    <3>5. QED
      BY <2>2, <3>3, <3>4 DEF Places
  <2>3. QED
    BY <1>6, <2>1, <2>2
<1>10. ASSUME ~monitor, AllBooked(tab, Safe)
       PROVE  AllBooked(tab', Safe') /\ pc' \in {"idle", "fgwait"}
  <2>1. dead' = Without(pid) /\ tab' = tab /\ pc' \in {"idle", "fgwait"}
    BY <1>6, <1>8, <1>10
  <2>2. pid \notin Held(tab)
    BY <1>1 DEF JobsInv, NewOne
  <2>3. AllBooked(tab, Safe \ {pid})
    BY <1>10, <2>2, LessSafe DEF Held
  <2>4. Safe \ {pid} \subseteq Safe'
    <3> DEFINE A == Entries(Gone)
    <3>1. dead \in Seq(A)
      BY DEF JobsInv, DeadList
    <3> HIDE DEF A
    <3>2. QED
      BY <1>1, <1>2, <2>1, <3>1, RippedSafe
  <2>5. QED
    BY <2>1, <2>3, <2>4, MoreBooked
<1>11. pc' \in {"idle", "adding", "fgwait"}
  BY <1>6
<1>12. Aimed' /\ Answered'
  BY <1>11 DEF Aimed, Answered
<1>13. QED
  BY <1>1, <1>2, <1>7, <1>9, <1>10, <1>11, <1>12, Keeping DEF Simple, Bookkept

-----------------------------------------------------------------------------
(* All steps.                                                                *)

LEMMA InitWait == Init => WaitInv
<1> SUFFICES ASSUME Init PROVE WaitInv
  OBVIOUS
<1>1. dead = <<>> /\ pc = "idle"
  BY DEF Init
<1>2. Places /\ Starting /\ Aimed /\ Cleared /\ Answered
  BY <1>1 DEF Places, Starting, Aimed, Cleared, Answered
<1>3. Told
  BY <1>1 DEF Told
<1>4. \A k \in Slots : tab.slots[k] = NoJob
  BY DEF Init
<1>5. AllBooked(tab, Safe)
  <2>1. NoJob.count = 0
    BY DEF NoJob
  <2>2. Plain(NoJob) /\ Booked(NoJob, Safe)
    BY <2>1, NoJobIs DEF Plain, Booked
  <2>3. QED
    BY <1>4, <2>2 DEF AllBooked
<1>6. QED
  BY <1>2, <1>3, <1>5 DEF WaitInv, Bookkept

LEMMA StepBooks == JobsInv /\ HandInv /\ WaitInv /\ [Next]_vars => WaitInv'
<1> SUFFICES ASSUME JobsInv, HandInv, WaitInv, [Next]_vars PROVE WaitInv'
  OBVIOUS
<1>1. JobsInv'
  BY StepGood DEF Good
<1>2. CASE UNCHANGED vars
  <2>1. UNCHANGED <<kernel, monitor, delivered, dead, tab, pc>> /\ UNCHANGED locals
    BY <1>2 DEF vars, options, kernel
  <2>2. Gone' = Gone
    BY <2>1, KernelSame
  <2>3. QED
    BY <1>1, <2>1, <2>2, Aside
<1>3. ASSUME NEW p \in Pids, Child(p) PROVE WaitInv'
  BY <1>1, <1>3, ChildBooks
<1>4. CASE Handler
  BY <1>1, <1>4, EnterBooks, ReapBooks, EndBooks DEF Handler
<1>5. CASE Start
  BY <1>5, ForkBooks DEF Start
<1>6. CASE Proceed
  <2>1. CASE AddJob \/ StartWait \/ FgCollect
    BY <1>1, <2>1, AddJobBooks, StartWaitBooks, FgCollectBooks
  <2>2. CASE CheckEntry \/ CheckReset \/ (\E p \in Pids : Drain(p)) \/ DrainEnd
    BY <2>2, CheckBooks, DrainBooks
  <2>3. CASE NextProcess \/ WaitCollect \/ WaitRip \/ WaitNoChild \/ WaitOn \/ Return
    BY <1>1, <2>3, NextProcessBooks, WaitCollectBooks, WaitRipBooks, WaitEndsBooks
  <2>4. CASE BgLoop \/ BgClear \/ AnyLoop \/ (\E p \in Pids : AnyCollect(p)) \/ AnyDone \/ AnyNoChild
    BY <1>1, <2>4, BgLoopBooks, BgClearBooks, WaitBgBooks, AnyCollectBooks, AnyBooks
  <2>5. CASE Hup
    BY <1>1, <2>5, HupBooks
  <2>6. QED
    BY <1>6, <2>1, <2>2, <2>3, <2>4, <2>5 DEF Proceed
<1>7. CASE WaitInterrupted \/ AnyInterrupted
  BY <1>1, <1>7, ListBooks
<1>8. CASE Builtin
  <2>1. ASSUME NEW k \in Jobs,
               (\E cont \in BOOLEAN : Kill(k, cont)) \/ Bg(k) \/ Fg(k) \/ Notify(k) \/ WaitJobId(k)
        PROVE  WaitInv'
    <3>1. k \in Slots
      BY DEF Jobs
    <3>2. QED
      BY <1>1, <2>1, <3>1, KillBooks, FgBgBooks, NotifyBooks, WaitJobIdBooks
  <2>2. CASE \/ \E k \in Jobs, nohup \in BOOLEAN : Disown(k, nohup)
             \/ \E nohup \in BOOLEAN, filter \in Filters : DisownAll(nohup, filter)
    BY <1>1, <2>2, DisownBooks
  <2>3. CASE WaitBg \/ WaitAny \/ \E p \in Pids : WaitPid(p)
    BY <1>1, <2>3, WaitBgBooks, AnyBooks, WaitPidBooks
  <2>4. CASE List \/ Leave \/ CheckOnChildren
    BY <1>1, <2>4, ListBooks, WaitBgBooks, CheckBooks
  <2>5. QED
    BY <1>8, <2>1, <2>2, <2>3, <2>4 DEF Builtin
<1>9. QED
  BY <1>2, <1>3, <1>4, <1>5, <1>6, <1>7, <1>8 DEF Next, Uncounted, Command

\* The invariant that both theorems rest on.
THEOREM WaitInvAlways == Spec => []WaitInv
<1>1. QED
  BY JobsInvAlways, InitWait, StepBooks, PTL DEF Spec

\* Without job control, and while no child was stopped, the status of every
\* dead process of a listed job is booked in its job or is on the dead list,
\* whenever SIGCHLD_handler() is not running: no status is lost.
THEOREM NothingLost == Spec => []AccountedWithoutControl
<1>1. WaitInv => AccountedWithoutControl
  <2>1. SUFFICES ASSUME WaitInv, ~monitor, Unstopped, NEW k \in Jobs, NEW p \in Members(tab.slots[k]),
                        proc[p] = "gone"
                 PROVE  p \in tab.slots[k].exits \/ Listed(p)
    BY DEF AccountedWithoutControl
  <2>2. k \in Slots /\ AllBooked(tab, Safe)
    BY <2>1 DEF Jobs, WaitInv, Simple, Bookkept
  <2>3. p \in Safe \cup tab.slots[k].exits
    BY <2>2 DEF AllBooked, Booked
  <2>4. QED
    BY <2>1, <2>3 DEF Safe, Gone
<1>2. QED
  BY <1>1, WaitInvAlways, PTL

\* Without job control, and while no child was stopped, "wait pid" answers
\* with a status that waitpid() handed out for that process.
THEOREM AnswersRight == Spec => []WaitPidRight
<1>1. WaitInv => WaitPidRight
  BY DEF WaitInv, Simple, Bookkept, Answered, WaitPidRight
<1>2. QED
  BY <1>1, WaitInvAlways, PTL
=============================================================================
