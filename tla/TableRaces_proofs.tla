------------------------- MODULE TableRaces_proofs -------------------------
(***************************************************************************)
(* Proofs about TableRaces for every size of the jobs table, every number   *)
(* of processes and every length of a pipeline: without a lapse the table  *)
(* is kept, wherever SIGCHLD_handler() runs in between.                     *)
(***************************************************************************)
EXTENDS TableRaces, FiniteSetTheorems, TLAPS

Bounds == MaxPids \in Nat /\ JobSize \in Nat /\ MAX_JOBS \in Nat

Jobs == [num : Nat, count : Nat, pids : Seq(Pids), exits : SUBSET Nat, notify : BOOLEAN]

Places == {"idle", "forked", "adding", "checking", "found", "shifting"}

TypeInv ==
    /\ slots \in [1..MAX_JOBS -> Jobs] /\ total_jobs \in 0..MAX_JOBS
    /\ new \in Jobs /\ deadlist \in Seq(Pids)
    /\ at \in Places /\ job \in Nat /\ job2 \in Nat /\ chunk \in 0..3 /\ entry \in Nat
    /\ proc \in [Pids -> {"unborn", "running", "ended"}]
    /\ jobs \subseteq Seq(Pids)

\* The processes of j that have ended, if p says what became of each.
Ends(p, j) == {i \in DOMAIN j.pids : p[j.pids[i]] = "ended"}

\* The job that is being added, and the slot that remove_job() is about to fill
\* or, when it has copied a job down, to clear.
Starting == at \in {"forked", "adding"}
Gap  == IF at = "shifting"
        THEN {IF chunk = 3 THEN job2 ELSE IF job <= total_jobs THEN job ELSE total_jobs}
        ELSE {}
Good == (1..total_jobs) \ Gap

\* Processes are started one after the other, and each belongs to one job.
Known == jobs \cup (IF Starting THEN {new.pids} ELSE {})
Born  == \E s \in 0..MaxPids : {p \in Pids : proc[p] # "unborn"} = 1..s
Apart ==
    /\ \A ps \in Known : \A i \in DOMAIN ps : proc[ps[i]] # "unborn"
    /\ \A ps, qs \in Known : ps # qs =>
          \A i \in DOMAIN ps : \A j \in DOMAIN qs : ps[i] # qs[j]
    /\ \A ps \in Known : Len(ps) >= 1
    /\ Starting => new.pids \notin jobs

\* The rest of the table, whatever is done to the gap.
Whole(j) == j.num >= 1 /\ j.count = Len(j.pids) /\ j.exits = Ends(proc, j)
Shape ==
    /\ \A k \in Good : Whole(slots[k]) /\ slots[k].pids \in jobs
    /\ \A k, l \in Good : k < l => slots[k].num < slots[l].num /\ slots[k].pids # slots[l].pids
    /\ \A k \in (total_jobs + 1)..MAX_JOBS : ~(at = "adding" /\ k = job) => slots[k] = Unused

\* How far memcpy() is with a job that has no number.
Half(c, ps) == [num |-> 0, count |-> c, pids |-> ps, exits |-> {}, notify |-> FALSE]

\* The new job, as it was forked and as far as it is copied.
Adding ==
    /\ Starting => new.num = 0 /\ new.notify = FALSE /\ new.count = Len(new.pids)
    /\ Starting /\ chunk < 3 => new.exits = Ends(proc, new)
    /\ at = "adding" =>
         /\ job = total_jobs + 1 /\ job <= MAX_JOBS
         /\ chunk = 0 => slots[job] = Unused
         /\ chunk = 1 => slots[job] = Half(new.count, <<>>)
         /\ chunk = 2 => slots[job] = Half(new.count, new.pids)
         /\ chunk = 3 => /\ slots[job].num = 0 /\ slots[job].notify = FALSE
                         /\ slots[job].count = new.count /\ slots[job].pids = new.pids
                         /\ slots[job].exits = Ends(proc, slots[job])

\* The job behind the gap, as far as it is copied into it.
Moving ==
    /\ at \notin {"adding", "shifting"} => chunk = 0
    /\ at = "shifting" =>
         /\ job \in 1..MAX_JOBS /\ job2 = job + 1 /\ total_jobs >= 1
         /\ chunk = 0 => \A k \in Gap : slots[k] = Unused
         /\ chunk > 0 => /\ job2 <= total_jobs
                         /\ slots[job].num = slots[job2].num /\ slots[job].count = slots[job2].count
         /\ chunk > 1 => slots[job].pids = slots[job2].pids

\* check_on_children() has found the job of the entry it looks at.
Finding ==
    /\ at \in {"checking", "found", "shifting"} => entry >= 1
    /\ at = "found" => \E p \in Pids :
          entry \in 1..Len(deadlist) /\ p = deadlist[entry] /\ job # 0 /\ job = Found(p)

\* A job with a running process is in the table.
Recorded == \A ps \in jobs : (\E i \in DOMAIN ps : proc[ps[i]] = "running") =>
                \E k \in Good : slots[k].pids = ps

TableInv == /\ TypeInv /\ Born /\ Apart /\ Shape /\ Adding /\ Moving
            /\ Finding /\ Recorded

LEMMA UnusedType == Bounds => Unused \in Jobs
  BY DEF Unused, Jobs, Bounds

LEMMA InitTableInv == Bounds /\ Init => TableInv
<1> SUFFICES ASSUME Bounds, Init PROVE TableInv
  OBVIOUS
<1>1. TypeInv
  BY UnusedType DEF Init, TypeInv, Places, Bounds, Pids
<1>2. Born
  <2>1. {p \in Pids : proc[p] # "unborn"} = 1..0
    BY DEF Init
  <2>2. 0 \in 0..MaxPids
    BY DEF Bounds
  <2>3. QED
    BY <2>1, <2>2 DEF Born
<1>3. Apart
  BY DEF Init, Apart, Known, Starting
<1>4. Shape
  BY DEF Init, Shape, Good, Gap
<1>5. Adding /\ Moving /\ Finding /\ Recorded
  BY DEF Init, Adding, Moving, Finding, Recorded, Starting
<1>6. QED
  BY <1>1, <1>2, <1>3, <1>4, <1>5 DEF TableInv

----------------------------------------------------------------------------
(* Looking a process up.                                                    *)
Lists(j, p) == \E i \in 1..j.count : i \in DOMAIN j.pids /\ j.pids[i] = p

Real == Good \cup (IF at = "adding" /\ chunk = 3 THEN {job} ELSE {})

\* Between two copies each process of a job is found in that job's slot.
LEMMA LeastOf ==
  ASSUME NEW ks \in SUBSET Nat, NEW k \in ks, \A l \in ks : k <= l
  PROVE  Lowest(ks) = k
<1>1. \E m \in ks : \A l \in ks : m <= l
  OBVIOUS
<1>2. Lowest(ks) \in ks /\ \A l \in ks : Lowest(ks) <= l
  BY <1>1 DEF Lowest
<1>3. k \in Nat /\ Lowest(ks) \in Nat /\ Lowest(ks) <= k /\ k <= Lowest(ks)
  BY <1>2
<1>4. QED
  BY <1>3

LEMMA RealSlots ==
  ASSUME Bounds, TableInv, chunk \in {0, 3}
  PROVE  /\ Real \subseteq 1..MAX_JOBS
         /\ \A k \in Real : slots[k].count = Len(slots[k].pids) /\ slots[k].pids \in Known
         /\ \A k, l \in Real : k # l => slots[k].pids # slots[l].pids
         /\ \A k \in 1..MAX_JOBS : k \notin Real =>
               \/ slots[k].count = 0
               \/ /\ at = "shifting" /\ chunk = 3 /\ k = job2 /\ job \in Real
                  /\ slots[k].pids = slots[job].pids /\ slots[k].count = slots[job].count
<1>a. /\ slots \in [1..MAX_JOBS -> Jobs] /\ total_jobs \in 0..MAX_JOBS
      /\ job \in Nat /\ job2 \in Nat /\ MAX_JOBS \in Nat
  BY DEF TableInv, TypeInv, Bounds
<1>b. at = "adding" => job = total_jobs + 1 /\ job <= MAX_JOBS
  BY DEF TableInv, Adding
<1>1. Real \subseteq 1..MAX_JOBS
  BY <1>a, <1>b DEF Real, Good
<1>2. \A k \in Good : slots[k].count = Len(slots[k].pids) /\ slots[k].pids \in Known
  BY DEF TableInv, Shape, Whole, Known
<1>3. at = "adding" /\ chunk = 3 =>
          slots[job].count = Len(slots[job].pids) /\ slots[job].pids = new.pids
          /\ slots[job].pids \in Known /\ new.pids \notin jobs
  BY DEF TableInv, Adding, Known, Starting, Apart
<1>4. \A k \in Real : slots[k].count = Len(slots[k].pids) /\ slots[k].pids \in Known
  BY <1>2, <1>3 DEF Real
<1>5. \A k, l \in Good : k # l => slots[k].pids # slots[l].pids
  <2>1. SUFFICES ASSUME NEW k \in Good, NEW l \in Good, k # l PROVE slots[k].pids # slots[l].pids
    OBVIOUS
  <2>2. k < l \/ l < k
    BY <1>a, <2>1 DEF Good
  <2>3. QED
    BY <2>2 DEF TableInv, Shape
<1>6. \A k \in Good : slots[k].pids \in jobs
  BY DEF TableInv, Shape
<1>7. \A k, l \in Real : k # l => slots[k].pids # slots[l].pids
  BY <1>3, <1>5, <1>6 DEF Real
<1>8. ASSUME NEW k \in 1..MAX_JOBS, k \notin Real
      PROVE  \/ slots[k].count = 0
             \/ /\ at = "shifting" /\ chunk = 3 /\ k = job2 /\ job \in Real
                /\ slots[k].pids = slots[job].pids /\ slots[k].count = slots[job].count
  <2>1. CASE k \in (total_jobs + 1)..MAX_JOBS
    <3>1. CASE at = "adding" /\ k = job
      <4>1. chunk = 0
        BY <1>8, <3>1 DEF Real
      <4>2. slots[k] = Unused
        BY <3>1, <4>1 DEF TableInv, Adding
      <4>3. QED
        BY <4>2 DEF Unused
    <3>2. CASE ~(at = "adding" /\ k = job)
      BY <2>1, <3>2 DEF TableInv, Shape, Unused
    <3>3. QED
      BY <3>1, <3>2
  <2>2. CASE k \notin (total_jobs + 1)..MAX_JOBS
    <3>1. k \in Gap /\ at = "shifting"
      BY <1>a, <1>8, <2>2 DEF Real, Good, Gap
    <3>2. CASE chunk = 0
      BY <3>1, <3>2 DEF TableInv, Moving, Unused
    <3>3. CASE chunk = 3
      <4>1. k = job2 /\ job2 = job + 1 /\ job2 <= total_jobs /\ job \in 1..MAX_JOBS
        BY <3>1, <3>3 DEF Gap, TableInv, Moving
      <4>2. job \in Real
        BY <1>a, <3>1, <3>3, <4>1 DEF Real, Good, Gap
      <4>3. slots[k].pids = slots[job].pids /\ slots[k].count = slots[job].count
        BY <3>1, <3>3, <4>1 DEF TableInv, Moving
      <4>4. QED
        BY <3>1, <3>3, <4>1, <4>2, <4>3
    <3>4. QED
      BY <3>2, <3>3
  <2>3. QED
    BY <2>1, <2>2
<1>9. QED
  BY <1>1, <1>4, <1>7, <1>8

LEMMA FoundSlot ==
  ASSUME Bounds, TableInv, chunk \in {0, 3}, NEW p
  PROVE  /\ Found(p) # 0 => Found(p) \in Real /\ Lists(slots[Found(p)], p)
         /\ Found(p) = 0 => \A k \in Real : ~Lists(slots[k], p)
         /\ \A k \in Real : Lists(slots[k], p) => k = Found(p)
<1>a. /\ DOMAIN slots = 1..MAX_JOBS /\ job \in Nat /\ MAX_JOBS \in Nat
      /\ job2 \in Nat /\ slots \in [1..MAX_JOBS -> Jobs]
      /\ at = "shifting" => job2 = job + 1
  BY DEF TableInv, TypeInv, Bounds, Moving
<1>b. /\ Real \subseteq 1..MAX_JOBS
      /\ \A k \in Real : slots[k].count = Len(slots[k].pids) /\ slots[k].pids \in Known
      /\ \A k, l \in Real : k # l => slots[k].pids # slots[l].pids
      /\ \A k \in 1..MAX_JOBS : k \notin Real =>
            \/ slots[k].count = 0
            \/ /\ at = "shifting" /\ chunk = 3 /\ k = job2 /\ job \in Real
               /\ slots[k].pids = slots[job].pids /\ slots[k].count = slots[job].count
  BY RealSlots
<1>1. Listing(p) = {k \in 1..MAX_JOBS : Lists(slots[k], p)}
  BY <1>a DEF Listing, Lists
<1>2. ASSUME NEW k \in Real, Lists(slots[k], p), NEW l \in Real, Lists(slots[l], p)
      PROVE  k = l
  <2>1. PICK i \in DOMAIN slots[k].pids : slots[k].pids[i] = p
    BY <1>2 DEF Lists
  <2>2. PICK j \in DOMAIN slots[l].pids : slots[l].pids[j] = p
    BY <1>2 DEF Lists
  <2>3. slots[k].pids \in Known /\ slots[l].pids \in Known
    BY <1>b, <1>2
  <2>4. \A ps, qs \in Known : ps # qs =>
            \A m \in DOMAIN ps : \A n \in DOMAIN qs : ps[m] # qs[n]
    BY DEF TableInv, Apart
  <2>5. slots[k].pids = slots[l].pids
    BY <2>1, <2>2, <2>3, <2>4
  <2>6. QED
    BY <1>b, <1>2, <2>5
<1>3. ASSUME NEW k \in 1..MAX_JOBS, Lists(slots[k], p)
      PROVE  \E l \in Real : Lists(slots[l], p) /\ l <= k
  <2>1. CASE k \in Real
    BY <1>3, <2>1
  <2>2. CASE k \notin Real
    <3>1. slots[k].count # 0
      BY <1>3 DEF Lists
    <3>2. /\ k = job + 1 /\ job \in Real
          /\ slots[k].pids = slots[job].pids /\ slots[k].count = slots[job].count
      BY <1>a, <1>b, <2>2, <3>1
    <3>3. Lists(slots[job], p)
      BY <1>3, <3>2 DEF Lists
    <3>4. QED
      BY <1>a, <3>2, <3>3
  <2>3. QED
    BY <2>1, <2>2
<1>4. ASSUME NEW k \in Real, Lists(slots[k], p) PROVE Found(p) = k
  <2>1. k \in Listing(p) /\ Listing(p) \subseteq Nat
    BY <1>1, <1>b, <1>4
  <2>2. \A l \in Listing(p) : k <= l
    BY <1>1, <1>2, <1>3, <1>4
  <2>3. Lowest(Listing(p)) = k
    BY <2>1, <2>2, LeastOf
  <2>4. QED
    BY <2>1, <2>3 DEF Found
<1>5. ASSUME \A k \in Real : ~Lists(slots[k], p) PROVE Found(p) = 0
  BY <1>1, <1>3, <1>5 DEF Found
<1>6. \A k \in Real : k # 0
  BY <1>b
<1>7. QED
  BY <1>4, <1>5, <1>6

----------------------------------------------------------------------------
(* What the helpers do to a whole table.                                    *)

LEMMA CompleteEnded ==
  ASSUME NEW f, NEW j \in Jobs, j.count = Len(j.pids), j.exits = Ends(f, j), Complete(j)
  PROVE  \A i \in DOMAIN j.pids : f[j.pids[i]] = "ended"
<1>1. Len(j.pids) \in Nat /\ DOMAIN j.pids = 1..Len(j.pids) /\ 1 \in Int
  BY DEF Jobs
<1>2. IsFiniteSet(1..Len(j.pids)) /\ Cardinality(1..Len(j.pids)) = Len(j.pids)
  BY <1>1, FS_Interval
<1>3. j.exits \in SUBSET (1..Len(j.pids))
  BY <1>1 DEF Ends
<1>4. Cardinality(j.exits) = Cardinality(1..Len(j.pids))
  BY <1>2 DEF Complete
<1>5. j.exits = 1..Len(j.pids)
  BY <1>2, <1>3, <1>4, FS_Subset
<1>6. QED
  BY <1>1, <1>5 DEF Ends

Table(t, n, f, J) ==
    /\ \A k \in 1..n : /\ t[k].num >= 1 /\ t[k].count = Len(t[k].pids)
                       /\ t[k].exits = Ends(f, t[k]) /\ t[k].pids \in J
    /\ \A k, l \in 1..n : k < l => t[k].num < t[l].num /\ t[k].pids # t[l].pids
    /\ \A k \in (n + 1)..MAX_JOBS : t[k] = Unused

LEMMA CutTable ==
  ASSUME Bounds, NEW t \in [1..MAX_JOBS -> Jobs], NEW n \in 0..MAX_JOBS, NEW f, NEW J,
         Table(t, n, f, J), NEW k \in 1..n
  PROVE  /\ Removed(t, k) \in [1..MAX_JOBS -> Jobs]
         /\ Table(Removed(t, k), n - 1, f, J \ {t[k].pids})
         /\ \A i \in 1..n : i # k =>
               \E l \in 1..(n - 1) : Removed(t, k)[l].pids = t[i].pids
<1> DEFINE r == [i \in 1..MAX_JOBS |-> IF i < k \/ i > n THEN t[i]
                                       ELSE IF i < n THEN t[i + 1] ELSE Unused]
<1>a. MAX_JOBS \in Nat /\ Unused.num = 0 /\ Unused \in Jobs
  BY UnusedType DEF Bounds, Unused
<1>b. /\ \A i \in 1..n : t[i].num >= 1
      /\ \A i \in 1..MAX_JOBS : i > n => t[i] = Unused
      /\ \A i \in 1..MAX_JOBS : t[i].num \in Nat
  <2>1. \A i \in 1..n : t[i].num >= 1
    BY DEF Table
  <2>2. \A i \in 1..MAX_JOBS : i > n => t[i] = Unused
    BY <1>a DEF Table
  <2>3. \A i \in 1..MAX_JOBS : t[i].num \in Nat
    BY DEF Jobs
  <2>4. QED
    BY <2>1, <2>2, <2>3
<1>1. Removed(t, k) = r
  <2>1. \A i \in 1..MAX_JOBS :
            (IF i >= k /\ i < MAX_JOBS /\ t[i+1].num # 0 THEN t[i+1]
             ELSE IF i = k \/ (i > k /\ t[i].num # 0) THEN Unused
             ELSE t[i]) = r[i]
    <3>1. SUFFICES ASSUME NEW i \in 1..MAX_JOBS
                   PROVE  (IF i >= k /\ i < MAX_JOBS /\ t[i+1].num # 0 THEN t[i+1]
                           ELSE IF i = k \/ (i > k /\ t[i].num # 0) THEN Unused
                           ELSE t[i]) = r[i]
      OBVIOUS
    <3>2. CASE i < k
      BY <1>a, <3>2
    <3>3. CASE i >= k /\ i < n
      <4>1. t[i + 1].num # 0 /\ i < MAX_JOBS
        BY <1>a, <1>b, <3>3
      <4>2. QED
        BY <1>a, <3>3, <4>1
    <3>4. CASE i >= k /\ i = n
      <4>1. i < MAX_JOBS => t[i + 1].num = 0
        BY <1>a, <1>b, <3>4
      <4>2. t[i].num # 0
        BY <1>a, <1>b, <3>4
      <4>3. QED
        BY <1>a, <3>4, <4>1, <4>2
    <3>5. CASE i > n
      <4>1. (i < MAX_JOBS => t[i + 1].num = 0) /\ t[i].num = 0 /\ i > k
        BY <1>a, <1>b, <3>5
      <4>2. QED
        BY <1>a, <3>5, <4>1
    <3>6. QED
      BY <1>a, <3>2, <3>3, <3>4, <3>5
  <2>2. DOMAIN t = 1..MAX_JOBS
    OBVIOUS
  <2>3. QED
    BY <2>1, <2>2 DEF Removed
<1>2. r \in [1..MAX_JOBS -> Jobs]
  BY <1>a
<1> DEFINE from(i) == IF i < k THEN i ELSE i + 1
<1>3. \A i \in 1..(n - 1) : r[i] = t[from(i)] /\ from(i) \in 1..n /\ from(i) # k
  BY <1>a
<1>4. \A i, l \in 1..(n - 1) : i < l => from(i) < from(l)
  OBVIOUS
<1>5. \A i \in n..MAX_JOBS : r[i] = Unused
  BY <1>a, <1>b
<1>6. \A i \in 1..n : i # k => \E l \in 1..(n - 1) : from(l) = i
  <2>1. SUFFICES ASSUME NEW i \in 1..n, i # k PROVE \E l \in 1..(n - 1) : from(l) = i
    OBVIOUS
  <2>2. CASE i < k
    BY <2>2
  <2>3. CASE i > k
    <3>1. i - 1 \in 1..(n - 1) /\ from(i - 1) = i
      BY <2>3
    <3>2. QED
      BY <3>1
  <2>4. QED
    BY <2>1, <2>2, <2>3
<1> HIDE DEF r, from
<1>7. Table(r, n - 1, f, J \ {t[k].pids})
  <2>1. \A i, l \in 1..n : i # l => t[i].pids # t[l].pids
    <3>1. SUFFICES ASSUME NEW i \in 1..n, NEW l \in 1..n, i # l PROVE t[i].pids # t[l].pids
      OBVIOUS
    <3>2. i < l \/ l < i
      BY <3>1
    <3>3. QED
      BY <3>2 DEF Table
  <2>2. \A i \in 1..(n - 1) : /\ r[i].num >= 1 /\ r[i].count = Len(r[i].pids)
                              /\ r[i].exits = Ends(f, r[i]) /\ r[i].pids \in J \ {t[k].pids}
    BY <1>3, <2>1 DEF Table
  <2>3. \A i, l \in 1..(n - 1) : i < l => r[i].num < r[l].num /\ r[i].pids # r[l].pids
    <3>1. SUFFICES ASSUME NEW i \in 1..(n - 1), NEW l \in 1..(n - 1), i < l
                   PROVE  r[i].num < r[l].num /\ r[i].pids # r[l].pids
      OBVIOUS
    <3>2. from(i) < from(l) /\ from(i) \in 1..n /\ from(l) \in 1..n
      BY <1>3, <1>4, <3>1
    <3>3. t[from(i)].num < t[from(l)].num /\ t[from(i)].pids # t[from(l)].pids
      BY <3>2 DEF Table
    <3>4. QED
      BY <1>3, <3>3
  <2>4. \A i \in (n - 1 + 1)..MAX_JOBS : r[i] = Unused
    BY <1>5
  <2>5. QED
    BY <2>2, <2>3, <2>4 DEF Table
<1>8. \A i \in 1..n : i # k => \E l \in 1..(n - 1) : r[l].pids = t[i].pids
  BY <1>3, <1>6
<1>9. QED
  BY <1>1, <1>2, <1>7, <1>8

(* One more process has ended, as the jobs see it.                          *)
LEMMA OneMoreEnds ==
  ASSUME TypeInv, NEW p \in Pids, NEW j \in Jobs
  PROVE  Ends([proc EXCEPT ![p] = "ended"], j) = Ends(proc, j) \cup {i \in DOMAIN j.pids : j.pids[i] = p}
<1>1. \A i \in DOMAIN j.pids : j.pids[i] \in Pids
  BY DEF Jobs
<1>2. proc \in [Pids -> {"unborn", "running", "ended"}]
  BY DEF TypeInv
<1>3. QED
  BY <1>1, <1>2 DEF Ends

LEMMA MarkedJob ==
  ASSUME TypeInv, NEW p \in Pids, NEW j \in Jobs, j.count = Len(j.pids), j.exits = Ends(proc, j)
  PROVE  /\ Marked(j, p) \in Jobs
         /\ Marked(j, p).num = j.num /\ Marked(j, p).count = j.count
         /\ Marked(j, p).pids = j.pids /\ Marked(j, p).notify = j.notify
         /\ Marked(j, p).exits = Ends([proc EXCEPT ![p] = "ended"], Marked(j, p))
<1>1. DOMAIN j.pids = 1..j.count /\ j.count \in Nat
  BY DEF Jobs
<1>2. /\ Marked(j, p) \in Jobs
      /\ Marked(j, p).num = j.num /\ Marked(j, p).count = j.count
      /\ Marked(j, p).pids = j.pids /\ Marked(j, p).notify = j.notify
      /\ Marked(j, p).exits = j.exits \cup {i \in DOMAIN j.pids : j.pids[i] = p}
  BY <1>1 DEF Marked, Jobs
<1>3. Ends([proc EXCEPT ![p] = "ended"], Marked(j, p)) = Ends([proc EXCEPT ![p] = "ended"], j)
  BY <1>2 DEF Ends
<1>4. QED
  BY <1>2, <1>3, OneMoreEnds

----------------------------------------------------------------------------
(* SIGCHLD_handler().                                                       *)

LEMMA IdleTable ==
  ASSUME TableInv, at \notin {"adding", "shifting"}
  PROVE  Good = 1..total_jobs /\ Table(slots, total_jobs, proc, jobs)
  BY DEF TableInv, Shape, Good, Gap, Table, Whole

\* The parts of the invariant that no slot and no exit status is a part of.
LEMMA HandlerRest ==
  ASSUME Bounds, TableInv, NEW p \in Pids, SIGCHLD_handler(p)
  PROVE  /\ proc[p] = "running" /\ proc' = [proc EXCEPT ![p] = "ended"]
         /\ proc' \in [Pids -> {"unborn", "running", "ended"}]
         /\ UNCHANGED <<new, at, job, job2, chunk, entry, jobs>>
         /\ deadlist' \in Seq(Pids)
         /\ \A e \in 1..Len(deadlist) : e \in 1..Len(deadlist') /\ deadlist'[e] = deadlist[e]
         /\ Born' /\ Apart'
<1>a. /\ proc \in [Pids -> {"unborn", "running", "ended"}] /\ deadlist \in Seq(Pids)
      /\ new \in Jobs /\ jobs \subseteq Seq(Pids)
  BY DEF TableInv, TypeInv
<1>1. /\ proc[p] = "running" /\ proc' = [proc EXCEPT ![p] = "ended"]
      /\ UNCHANGED <<new, at, job, job2, chunk, entry, jobs>>
      /\ deadlist' = Append(deadlist, p)
  BY DEF SIGCHLD_handler, place
<1>2. \A q \in Pids : proc'[q] = "unborn" <=> proc[q] = "unborn"
  BY <1>a, <1>1
<1>3. Born'
  <2>1. {q \in Pids : proc'[q] # "unborn"} = {q \in Pids : proc[q] # "unborn"}
    BY <1>2
  <2>2. QED
    BY <2>1 DEF TableInv, Born
<1>4. Apart'
  <2>1. Known' = Known /\ (Starting' <=> Starting)
    BY <1>1 DEF Known, Starting
  <2>2. \A ps \in Known : ps \in Seq(Pids)
    BY <1>a DEF Known, Jobs
  <2>3. \A ps \in Known : \A i \in DOMAIN ps : proc'[ps[i]] # "unborn"
    BY <1>2, <2>2 DEF TableInv, Apart
  <2>4. QED
    BY <1>1, <2>1, <2>3 DEF TableInv, Apart
<1>5. QED
  BY <1>a, <1>1, <1>3, <1>4

\* The handler marks one slot at most.
LEMMA HandlerMarks ==
  ASSUME Bounds, Lapses = {}, TableInv, NEW p \in Pids, SIGCHLD_handler(p),
         total_jobs' = total_jobs,
         \/ Found(p) = 0 /\ slots' = slots
         \/ Found(p) # 0 /\ slots' = [slots EXCEPT ![Found(p)] = Marked(@, p)]
  PROVE  TableInv'
<1> DEFINE k == Found(p)
           f == [proc EXCEPT ![p] = "ended"]
<1>a. /\ slots \in [1..MAX_JOBS -> Jobs] /\ total_jobs \in 0..MAX_JOBS
      /\ new \in Jobs /\ deadlist \in Seq(Pids)
      /\ at \in Places /\ job \in Nat /\ job2 \in Nat /\ chunk \in 0..3 /\ entry \in Nat
      /\ proc \in [Pids -> {"unborn", "running", "ended"}]
      /\ jobs \subseteq Seq(Pids) /\ TypeInv /\ MAX_JOBS \in Nat
  BY DEF TableInv, TypeInv, Bounds
<1>b. /\ proc[p] = "running" /\ proc' = f /\ proc' \in [Pids -> {"unborn", "running", "ended"}]
      /\ UNCHANGED <<new, at, job, job2, chunk, entry, jobs>>
      /\ deadlist' \in Seq(Pids)
      /\ \A e \in 1..Len(deadlist) : e \in 1..Len(deadlist') /\ deadlist'[e] = deadlist[e]
      /\ Born' /\ Apart'
  BY HandlerRest
<1>c. /\ ~(at \in {"adding", "shifting"} /\ chunk \in {1, 2})
      /\ ~(Starting /\ chunk < 3 /\ \E i \in DOMAIN new.pids : new.pids[i] = p)
  BY DEF SIGCHLD_handler, HeldBack, Starting
<1>1. chunk \in {0, 3}
  BY <1>a, <1>c DEF TableInv, Moving
<1>2. /\ Real \subseteq 1..MAX_JOBS
      /\ \A l \in Real : slots[l].count = Len(slots[l].pids)
  BY <1>1, RealSlots
<1>3. /\ k # 0 => k \in Real
      /\ \A l \in Real : Lists(slots[l], p) => l = k
  BY <1>1, FoundSlot
<1>4. \A l \in Real : slots[l].exits = Ends(proc, slots[l])
  BY DEF Real, TableInv, Shape, Whole, Adding
<1> HIDE DEF k
<1>5. \A l \in 1..MAX_JOBS : l # k => slots'[l] = slots[l]
  BY <1>a DEF k
<1>6. ASSUME k # 0
      PROVE  /\ slots'[k] = Marked(slots[k], p) /\ slots[k] \in Jobs /\ slots'[k] \in Jobs
             /\ slots'[k].num = slots[k].num /\ slots'[k].count = slots[k].count
             /\ slots'[k].pids = slots[k].pids /\ slots'[k].notify = slots[k].notify
             /\ slots'[k].exits = Ends(f, slots'[k])
  <2>1. k \in Real /\ k \in 1..MAX_JOBS /\ slots[k] \in Jobs
    BY <1>a, <1>2, <1>3, <1>6
  <2>2. slots'[k] = Marked(slots[k], p)
    BY <1>a, <1>6, <2>1 DEF k
  <2>3. slots[k].count = Len(slots[k].pids) /\ slots[k].exits = Ends(proc, slots[k])
    BY <1>2, <1>4, <2>1
  <2>4. /\ Marked(slots[k], p) \in Jobs
        /\ Marked(slots[k], p).num = slots[k].num /\ Marked(slots[k], p).count = slots[k].count
        /\ Marked(slots[k], p).pids = slots[k].pids /\ Marked(slots[k], p).notify = slots[k].notify
        /\ Marked(slots[k], p).exits = Ends(f, Marked(slots[k], p))
    BY <1>a, <2>1, <2>3, MarkedJob
  <2>5. QED
    BY <2>1, <2>2, <2>4
<1>7. ASSUME NEW l \in Real, l # k
      PROVE  slots'[l].exits = Ends(f, slots'[l])
  <2>1. slots'[l] = slots[l] /\ slots[l] \in Jobs
    BY <1>a, <1>2, <1>5, <1>7
  <2>2. ~\E i \in DOMAIN slots[l].pids : slots[l].pids[i] = p
    <3>1. DOMAIN slots[l].pids = 1..slots[l].count
      BY <1>2, <1>7, <2>1 DEF Jobs
    <3>2. ~Lists(slots[l], p)
      BY <1>3, <1>7
    <3>3. QED
      BY <3>1, <3>2 DEF Lists
  <2>3. Ends(f, slots[l]) = Ends(proc, slots[l])
    <3>1. Ends(f, slots[l]) = Ends(proc, slots[l]) \cup
                              {i \in DOMAIN slots[l].pids : slots[l].pids[i] = p}
      BY <1>a, <2>1, OneMoreEnds
    <3>2. {i \in DOMAIN slots[l].pids : slots[l].pids[i] = p} = {}
      BY <2>2
    <3>3. QED
      BY <3>1, <3>2
  <2>4. QED
    BY <1>4, <1>7, <2>1, <2>3
<1>8. /\ Real' = Real /\ Good' = Good /\ Gap' = Gap
      /\ slots' \in [1..MAX_JOBS -> Jobs]
      /\ \A l \in 1..MAX_JOBS : /\ slots'[l].num = slots[l].num /\ slots'[l].count = slots[l].count
                                /\ slots'[l].pids = slots[l].pids
                                /\ slots'[l].notify = slots[l].notify
      /\ \A l \in Real : slots'[l].exits = Ends(f, slots'[l])
      /\ \A l \in 1..MAX_JOBS : l \notin Real => slots'[l] = slots[l]
  <2>1. Real' = Real /\ Good' = Good /\ Gap' = Gap
    BY <1>b DEF Real, Good, Gap
  <2>2. DOMAIN slots' = 1..MAX_JOBS /\ slots' = [l \in 1..MAX_JOBS |-> slots'[l]]
    BY <1>a
  <2>3. \A l \in 1..MAX_JOBS : slots'[l] \in Jobs
    <3>1. SUFFICES ASSUME NEW l \in 1..MAX_JOBS PROVE slots'[l] \in Jobs
      OBVIOUS
    <3>2. CASE l = k
      BY <1>6, <3>2
    <3>3. CASE l # k
      BY <1>a, <1>5, <3>3
    <3>4. QED
      BY <3>2, <3>3
  <2>4. slots' \in [1..MAX_JOBS -> Jobs]
    BY <2>2, <2>3
  <2>5. \A l \in Real : slots'[l].exits = Ends(f, slots'[l])
    <3>1. SUFFICES ASSUME NEW l \in Real PROVE slots'[l].exits = Ends(f, slots'[l])
      OBVIOUS
    <3>2. l # 0
      BY <1>2
    <3>3. CASE l = k
      BY <1>6, <3>2, <3>3
    <3>4. CASE l # k
      BY <1>7, <3>4
    <3>5. QED
      BY <3>3, <3>4
  <2>6. \A l \in 1..MAX_JOBS : l \notin Real => slots'[l] = slots[l]
    BY <1>2, <1>3, <1>5
  <2>7. QED
    BY <1>5, <1>6, <2>1, <2>4, <2>5, <2>6
<1> HIDE DEF f
<1>9. TypeInv'
  BY <1>a, <1>b, <1>8 DEF TypeInv
<1>10. Shape'
  <2>1. Good \subseteq Real /\ Good \subseteq 1..MAX_JOBS
    BY <1>a DEF Real, Good
  <2>2. \A l \in Good : Whole(slots[l])' /\ slots'[l].pids \in jobs'
    BY <1>b, <1>8, <2>1 DEF TableInv, Shape, Whole
  <2>3. \A l, m \in Good : l < m => slots'[l].num < slots'[m].num /\ slots'[l].pids # slots'[m].pids
    BY <1>8, <2>1 DEF TableInv, Shape
  <2>4. \A l \in (total_jobs + 1)..MAX_JOBS : ~(at = "adding" /\ l = job) => slots'[l] = Unused
    <3>1. SUFFICES ASSUME NEW l \in (total_jobs + 1)..MAX_JOBS, ~(at = "adding" /\ l = job)
                   PROVE  slots'[l] = Unused
      OBVIOUS
    <3>2. l \notin Real /\ l \in 1..MAX_JOBS
      BY <1>a, <3>1 DEF Real, Good
    <3>3. QED
      BY <1>8, <3>1, <3>2 DEF TableInv, Shape
  <2>5. QED
    BY <1>b, <1>8, <2>2, <2>3, <2>4 DEF Shape
<1>11. Adding'
  <2>1. Starting' <=> Starting
    BY <1>b DEF Starting
  <2>2. Starting => new.num = 0 /\ new.notify = FALSE /\ new.count = Len(new.pids)
    BY DEF TableInv, Adding
  <2>3. Starting /\ chunk < 3 => new.exits = Ends(f, new)
    <3>1. Starting /\ chunk < 3 => Ends(f, new) = Ends(proc, new)
      BY <1>a, <1>c, OneMoreEnds DEF f
    <3>2. QED
      BY <3>1 DEF TableInv, Adding
  <2>4. at = "adding" => job = total_jobs + 1 /\ job <= MAX_JOBS
    BY DEF TableInv, Adding
  <2>5. at = "adding" /\ chunk = 0 => slots'[job] = Unused
    <3>1. at = "adding" /\ chunk = 0 => job \in 1..MAX_JOBS /\ job \notin Real
      BY <1>a, <2>4 DEF Real, Good
    <3>2. QED
      BY <1>8, <3>1 DEF TableInv, Adding
  <2>6. at = "adding" /\ chunk = 3 => job \in 1..MAX_JOBS /\ job \in Real
    BY <1>a, <2>4 DEF Real
  <2>7. at = "adding" /\ chunk = 3 =>
            /\ slots'[job].num = 0 /\ slots'[job].notify = FALSE
            /\ slots'[job].count = new.count /\ slots'[job].pids = new.pids
            /\ slots'[job].exits = Ends(f, slots'[job])
    BY <1>8, <2>6 DEF TableInv, Adding
  <2>8. QED
    BY <1>1, <1>b, <2>1, <2>2, <2>3, <2>4, <2>5, <2>7 DEF Adding
<1>12. Moving'
  <2>1. at \notin {"adding", "shifting"} => chunk = 0
    BY DEF TableInv, Moving
  <2>2. at = "shifting" =>
         /\ job \in 1..MAX_JOBS /\ job2 = job + 1 /\ total_jobs >= 1
         /\ chunk = 0 => \A l \in Gap : slots'[l] = Unused
         /\ chunk > 0 => /\ job2 <= total_jobs
                         /\ slots'[job].num = slots'[job2].num
                         /\ slots'[job].count = slots'[job2].count
         /\ chunk > 1 => slots'[job].pids = slots'[job2].pids
    <3>1. SUFFICES ASSUME at = "shifting"
          PROVE  /\ job \in 1..MAX_JOBS /\ job2 = job + 1 /\ total_jobs >= 1
                 /\ chunk = 0 => \A l \in Gap : slots'[l] = Unused
                 /\ chunk > 0 => /\ job2 <= total_jobs
                                 /\ slots'[job].num = slots'[job2].num
                                 /\ slots'[job].count = slots'[job2].count
                 /\ chunk > 1 => slots'[job].pids = slots'[job2].pids
      OBVIOUS
    <3>2. /\ job \in 1..MAX_JOBS /\ job2 = job + 1 /\ total_jobs >= 1
          /\ chunk = 0 => \A l \in Gap : slots[l] = Unused
          /\ chunk > 0 => /\ job2 <= total_jobs
                          /\ slots[job].num = slots[job2].num /\ slots[job].count = slots[job2].count
          /\ chunk > 1 => slots[job].pids = slots[job2].pids
      BY <3>1 DEF TableInv, Moving
    <3>3. chunk > 0 => job2 \in 1..MAX_JOBS
      BY <1>a, <3>2
    <3>4. chunk = 0 => \A l \in Gap : l \in 1..MAX_JOBS /\ l \notin Real
      BY <1>a, <3>1, <3>2 DEF Gap, Real, Good
    <3>5. chunk = 0 => \A l \in Gap : slots'[l] = Unused
      BY <1>8, <3>2, <3>4
    <3>6. chunk > 0 => /\ slots'[job].num = slots'[job2].num
                       /\ slots'[job].count = slots'[job2].count
      BY <1>8, <3>2, <3>3
    <3>7. chunk > 1 => slots'[job].pids = slots'[job2].pids
      <4>1. chunk > 1 => chunk > 0
        BY <1>a
      <4>2. QED
        BY <1>8, <3>2, <3>3, <4>1
    <3>8. QED
      BY <3>2, <3>5, <3>6, <3>7
  <2>3. QED
    BY <1>b, <1>8, <2>1, <2>2 DEF Moving
<1>13. Finding'
  <2>a. at \in {"checking", "found", "shifting"} => entry >= 1
    BY DEF TableInv, Finding
  <2>1. SUFFICES ASSUME at = "found" PROVE Finding'
    BY <1>b, <2>a DEF Finding
  <2>2. PICK q \in Pids :
            entry \in 1..Len(deadlist) /\ q = deadlist[entry] /\ job # 0 /\ job = Found(q)
    BY <2>1 DEF TableInv, Finding
  <2>3. q = deadlist'[entry] /\ entry \in 1..Len(deadlist')
    BY <1>b, <2>2
  <2>4. Listing(q)' = Listing(q)
    BY <1>8, <1>a DEF Listing
  <2>5. Found(q)' = Found(q)
    BY <2>4 DEF Found
  <2>6. QED
    BY <1>b, <2>2, <2>3, <2>5, <2>a DEF Finding
<1>14. Recorded'
  <2>1. Good \subseteq 1..MAX_JOBS
    BY <1>a DEF Good
  <2>2. SUFFICES ASSUME NEW ps \in jobs, NEW i \in DOMAIN ps, proc'[ps[i]] = "running"
                 PROVE  \E l \in Good : slots'[l].pids = ps
    BY <1>b, <1>8 DEF Recorded
  <2>3. proc[ps[i]] = "running"
    BY <1>a, <1>b, <2>2 DEF f
  <2>4. QED
    BY <1>8, <2>1, <2>3 DEF TableInv, Recorded
<1>15. QED
  BY <1>b, <1>9, <1>10, <1>11, <1>12, <1>13, <1>14 DEF TableInv

\* A table without a gap, however the step came to it.
LEMMA WholeTable ==
  ASSUME TypeInv', Born', Apart', at' \notin {"adding", "shifting"}, chunk' = 0,
         Table(slots', total_jobs', proc', jobs'), Adding', Finding', Recorded'
  PROVE  TableInv'
<1>1. Good' = 1..total_jobs'
  BY DEF Good, Gap
<1>2. Shape'
  BY <1>1 DEF Shape, Table, Whole
<1>3. Moving'
  BY DEF Moving
<1>4. QED
  BY <1>2, <1>3 DEF TableInv

\* In the main program's own code the handler also removes a job.
LEMMA HandlerRemoves ==
  ASSUME Bounds, TableInv, NEW p \in Pids, SIGCHLD_handler(p), at = "idle",
         NEW t, t = [slots EXCEPT ![Found(p)] = Marked(@, p)],
         Found(p) # 0, Complete(t[Found(p)]),
         slots' = Removed(t, Found(p)), total_jobs' = total_jobs - 1
  PROVE  TableInv'
<1> DEFINE k == Found(p)
           f == [proc EXCEPT ![p] = "ended"]
<1>a. /\ slots \in [1..MAX_JOBS -> Jobs] /\ total_jobs \in 0..MAX_JOBS
      /\ proc \in [Pids -> {"unborn", "running", "ended"}]
      /\ jobs \subseteq Seq(Pids) /\ TypeInv /\ MAX_JOBS \in Nat
  BY DEF TableInv, TypeInv, Bounds
<1>b. /\ proc[p] = "running" /\ proc' = f /\ proc' \in [Pids -> {"unborn", "running", "ended"}]
      /\ UNCHANGED <<new, at, job, job2, chunk, entry, jobs>>
      /\ deadlist' \in Seq(Pids)
      /\ Born' /\ Apart'
  BY HandlerRest
<1>1. Table(slots, total_jobs, proc, jobs) /\ Good = 1..total_jobs /\ Real = 1..total_jobs
      /\ chunk = 0
  BY IdleTable DEF Real, TableInv, Moving
<1>2. /\ k \in 1..total_jobs
      /\ \A l \in 1..total_jobs : Lists(slots[l], p) => l = k
  BY <1>1, FoundSlot
<1> HIDE DEF k, f
<1>3. k \in 1..MAX_JOBS /\ slots[k] \in Jobs /\ t = [slots EXCEPT ![k] = Marked(slots[k], p)]
      /\ t[k] = Marked(slots[k], p) /\ \A l \in 1..MAX_JOBS : l # k => t[l] = slots[l]
  BY <1>a, <1>2 DEF k
<1>4. /\ t[k] \in Jobs /\ t[k].num = slots[k].num /\ t[k].count = slots[k].count
      /\ t[k].pids = slots[k].pids /\ t[k].exits = Ends(f, t[k])
  <2>1. slots[k].count = Len(slots[k].pids) /\ slots[k].exits = Ends(proc, slots[k])
    BY <1>1, <1>2 DEF Table
  <2>2. /\ Marked(slots[k], p) \in Jobs
        /\ Marked(slots[k], p).num = slots[k].num /\ Marked(slots[k], p).count = slots[k].count
        /\ Marked(slots[k], p).pids = slots[k].pids
        /\ Marked(slots[k], p).exits = Ends(f, Marked(slots[k], p))
    BY <1>3, <1>a, <2>1, MarkedJob DEF f
  <2>3. QED
    BY <1>3, <2>2
<1>5. ASSUME NEW l \in 1..total_jobs, l # k PROVE Ends(f, slots[l]) = Ends(proc, slots[l])
  <2>1. slots[l] \in Jobs /\ slots[l].count = Len(slots[l].pids)
    BY <1>a, <1>1 DEF Table
  <2>2. DOMAIN slots[l].pids = 1..slots[l].count
    BY <2>1 DEF Jobs
  <2>3. ~Lists(slots[l], p)
    BY <1>2, <1>5
  <2>4. {i \in DOMAIN slots[l].pids : slots[l].pids[i] = p} = {}
    BY <2>2, <2>3 DEF Lists
  <2>5. Ends(f, slots[l]) = Ends(proc, slots[l]) \cup
                            {i \in DOMAIN slots[l].pids : slots[l].pids[i] = p}
    BY <1>a, <2>1, OneMoreEnds DEF f
  <2>6. QED
    BY <2>4, <2>5
<1>6. t \in [1..MAX_JOBS -> Jobs]
  BY <1>a, <1>3, <1>4
<1>7. Table(t, total_jobs, f, jobs)
  <2>1. \A l \in 1..total_jobs : /\ t[l].num >= 1 /\ t[l].count = Len(t[l].pids)
                                 /\ t[l].exits = Ends(f, t[l]) /\ t[l].pids \in jobs
    <3>1. SUFFICES ASSUME NEW l \in 1..total_jobs
                   PROVE  /\ t[l].num >= 1 /\ t[l].count = Len(t[l].pids)
                          /\ t[l].exits = Ends(f, t[l]) /\ t[l].pids \in jobs
      OBVIOUS
    <3>2. CASE l = k
      BY <1>1, <1>4, <3>2 DEF Table
    <3>3. CASE l # k
      <4>1. t[l] = slots[l]
        BY <1>a, <1>3, <3>3
      <4>2. QED
        BY <1>1, <1>5, <3>3, <4>1 DEF Table
    <3>4. QED
      BY <3>2, <3>3
  <2>2. \A l \in 1..total_jobs : t[l].num = slots[l].num /\ t[l].pids = slots[l].pids
    BY <1>a, <1>3, <1>4
  <2>3. \A l, m \in 1..total_jobs : l < m => t[l].num < t[m].num /\ t[l].pids # t[m].pids
    BY <1>1, <2>2 DEF Table
  <2>4. \A l \in (total_jobs + 1)..MAX_JOBS : t[l] = Unused
    BY <1>a, <1>1, <1>2, <1>3 DEF Table
  <2>5. QED
    BY <2>1, <2>3, <2>4 DEF Table
<1>8. /\ slots' \in [1..MAX_JOBS -> Jobs]
      /\ Table(slots', total_jobs - 1, f, jobs \ {t[k].pids})
      /\ \A i \in 1..total_jobs : i # k => \E l \in 1..(total_jobs - 1) : slots'[l].pids = t[i].pids
  <2>1. slots' = Removed(t, k)
    BY DEF k
  <2>2. /\ Removed(t, k) \in [1..MAX_JOBS -> Jobs]
        /\ Table(Removed(t, k), total_jobs - 1, f, jobs \ {t[k].pids})
        /\ \A i \in 1..total_jobs : i # k =>
              \E l \in 1..(total_jobs - 1) : Removed(t, k)[l].pids = t[i].pids
    <3>1. total_jobs \in 0..MAX_JOBS
      BY <1>a
    <3>2. QED
      BY ONLY Bounds, <3>1, <1>2, <1>6, <1>7, CutTable
  <2>3. QED
    BY <2>1, <2>2
<1>9. Table(slots', total_jobs', proc', jobs')
  BY <1>b, <1>8 DEF Table
<1>10. TypeInv'
  <2>1. total_jobs' \in 0..MAX_JOBS
    BY <1>a, <1>2
  <2>2. QED
    BY <1>a, <1>b, <1>8, <2>1 DEF TypeInv
<1>11. Adding' /\ Finding'
  BY <1>b DEF Adding, Finding, Starting
<1>12. Recorded'
  <2>1. Good' = 1..(total_jobs - 1)
    BY <1>b DEF Good, Gap
  <2>2. SUFFICES ASSUME NEW ps \in jobs, NEW i \in DOMAIN ps, proc'[ps[i]] = "running"
                 PROVE  \E l \in 1..(total_jobs - 1) : slots'[l].pids = ps
    BY <1>b, <2>1 DEF Recorded
  <2>3. proc[ps[i]] = "running" /\ ps \in Seq(Pids)
    BY <1>a, <1>b, <2>2 DEF f
  <2>4. PICK l \in 1..total_jobs : slots[l].pids = ps
    BY <1>1, <2>2, <2>3 DEF TableInv, Recorded
  <2>5. l # k
    <3>1. \A m \in DOMAIN t[k].pids : f[t[k].pids[m]] = "ended"
      <4>1. t[k].count = Len(t[k].pids)
        BY <1>2, <1>7 DEF Table
      <4>2. QED
        BY <1>4, <4>1, CompleteEnded DEF k
    <3>2. QED
      BY <1>4, <1>b, <2>2, <2>4, <3>1
  <2>6. t[l].pids = ps
    BY <1>3, <1>a, <2>4, <2>5
  <2>7. QED
    BY <1>8, <2>5, <2>6
<1>13. QED
  BY <1>1, <1>9, <1>10, <1>11, <1>12, <1>b, WholeTable

LEMMA HandlerInv ==
  ASSUME Bounds, Lapses = {}, TableInv, NEW p \in Pids, SIGCHLD_handler(p)
  PROVE  TableInv'
<1>1. CASE Found(p) = 0
  <2>1. UNCHANGED <<slots, total_jobs>>
    BY <1>1 DEF SIGCHLD_handler
  <2>2. QED
    BY <1>1, <2>1, HandlerMarks
<1>2. CASE Found(p) # 0
  <2> DEFINE t == [slots EXCEPT ![Found(p)] = Marked(@, p)]
  <2>1. CASE t[Found(p)].notify /\ Complete(t[Found(p)])
    <3>1. slots' = Removed(t, Found(p)) /\ total_jobs' = total_jobs - 1
      BY <1>2, <2>1 DEF SIGCHLD_handler
    <3>2. at = "idle"
      <4>1. at # "idle" => slots[Found(p)].notify = FALSE \/ ~slots[Found(p)].notify
        BY <1>2 DEF SIGCHLD_handler, HeldBack
      <4>2. t[Found(p)].notify = slots[Found(p)].notify
        <5>1. chunk \in {0, 3}
          BY DEF SIGCHLD_handler, HeldBack, TableInv, Moving, TypeInv
        <5>2. Found(p) \in 1..MAX_JOBS
          BY <1>2, <5>1, FoundSlot, RealSlots
        <5>3. slots[Found(p)] \in Jobs /\ t[Found(p)] = Marked(slots[Found(p)], p)
          BY <5>2 DEF TableInv, TypeInv
        <5>4. QED
          BY <5>3 DEF Marked, Jobs
      <4>3. at # "idle" => ~slots[Found(p)].notify
        BY <1>2 DEF SIGCHLD_handler, HeldBack
      <4>4. QED
        BY <2>1, <4>2, <4>3
    <3>3. QED
      BY <1>2, <2>1, <3>1, <3>2, HandlerRemoves
  <2>2. CASE ~(t[Found(p)].notify /\ Complete(t[Found(p)]))
    <3>1. slots' = t /\ UNCHANGED total_jobs
      BY <1>2, <2>2 DEF SIGCHLD_handler
    <3>2. QED
      BY <1>2, <3>1, HandlerMarks
  <2>3. QED
    BY <2>1, <2>2
<1>3. QED
  BY <1>1, <1>2

----------------------------------------------------------------------------
(* The main program.                                                        *)

\* A step that leaves the table and the processes alone, between two jobs.
LEMMA SameTable ==
  ASSUME Bounds, TableInv, UNCHANGED <<slots, total_jobs, proc, jobs>>,
         at \notin {"adding", "shifting"}, at' \notin {"adding", "shifting"}, chunk' = chunk
  PROVE  /\ Table(slots', total_jobs', proc', jobs') /\ Born' /\ Recorded' /\ chunk' = 0
         /\ Known' \subseteq Known /\ (Starting' => Starting /\ new' = new) => Apart'
<1>1. Good' = Good /\ Good = 1..total_jobs
  BY IdleTable DEF Good, Gap
<1>2. Table(slots', total_jobs', proc', jobs') /\ chunk' = 0
  BY IdleTable DEF TableInv, Moving
<1>3. Born' /\ Recorded'
  BY <1>1 DEF TableInv, Born, Recorded
<1>4. ASSUME Known' \subseteq Known, Starting' => Starting /\ new' = new PROVE Apart'
  BY <1>4 DEF TableInv, Apart
<1>5. QED
  BY <1>2, <1>3, <1>4

LEMMA LaunchInv ==
  ASSUME Bounds, TableInv, NEW n \in 1..JobSize, NEW ended \in SUBSET (1..n), Launch(n, ended)
  PROVE  TableInv'
<1>a. /\ proc \in [Pids -> {"unborn", "running", "ended"}] /\ jobs \subseteq Seq(Pids)
      /\ slots \in [1..MAX_JOBS -> Jobs] /\ MaxPids \in Nat /\ Pids = 1..MaxPids
      /\ n \in Nat /\ n >= 1 /\ MAX_JOBS \in Nat /\ total_jobs \in 0..MAX_JOBS /\ TypeInv
  BY DEF TableInv, TypeInv, Bounds, Pids
<1>1. PICK s \in 0..MaxPids : {p \in Pids : proc[p] # "unborn"} = 1..s
  BY DEF TableInv, Born
<1>2. Started = s
  <2>1. 1 \in Int /\ s \in Int
    BY <1>a
  <2>2. Cardinality(1..s) = s
    BY <1>a, <2>1, FS_Interval
  <2>3. QED
    BY <1>1, <2>2 DEF Started
<1>3. /\ at = "idle" /\ at' = "forked" /\ s + n <= MaxPids
      /\ new' = [num |-> 0, count |-> n, pids |-> [i \in 1..n |-> s + i],
                 exits |-> ended, notify |-> FALSE]
      /\ proc' = [p \in Pids |-> IF p - s \in ended  THEN "ended"
                                 ELSE IF p - s \in 1..n THEN "running"
                                 ELSE proc[p]]
      /\ UNCHANGED <<slots, total_jobs, deadlist, job, job2, chunk, entry, jobs>>
  BY <1>2 DEF Launch, Unused
<1>4. /\ [i \in 1..n |-> s + i] \in Seq(Pids) /\ Len([i \in 1..n |-> s + i]) = n
      /\ DOMAIN [i \in 1..n |-> s + i] = 1..n
  BY <1>a, <1>1, <1>3
<1>5. new' \in Jobs /\ new'.pids = [i \in 1..n |-> s + i] /\ new'.count = n
      /\ new'.num = 0 /\ new'.notify = FALSE /\ new'.exits = ended
  BY <1>a, <1>3, <1>4 DEF Jobs
<1>6. proc' \in [Pids -> {"unborn", "running", "ended"}]
  BY <1>a, <1>3
<1>7. TypeInv'
  BY <1>a, <1>3, <1>5, <1>6 DEF TypeInv, Places
<1>8. \A p \in Pids : (p \in 1..s <=> proc[p] # "unborn") /\ (p <= s => proc'[p] = proc[p])
                      /\ (proc'[p] # "unborn" <=> p \in 1..(s + n))
                      /\ (proc[p] # "unborn" => proc'[p] # "unborn")
  <2>1. SUFFICES ASSUME NEW p \in Pids
                 PROVE  (p \in 1..s <=> proc[p] # "unborn") /\ (p <= s => proc'[p] = proc[p])
                        /\ (proc'[p] # "unborn" <=> p \in 1..(s + n))
                        /\ (proc[p] # "unborn" => proc'[p] # "unborn")
    OBVIOUS
  <2>2. p \in 1..s <=> proc[p] # "unborn"
    BY <1>1
  <2>3. proc'[p] = IF p - s \in ended  THEN "ended"
                   ELSE IF p - s \in 1..n THEN "running" ELSE proc[p]
    BY <1>3
  <2>4. (p - s \in 1..n <=> p \in 1..(s + n) /\ ~(p \in 1..s)) /\ p >= 1
        /\ (p - s \in ended => p - s \in 1..n)
    BY <1>a, <1>1
  <2>5. CASE p - s \in 1..n
    <3>1. proc'[p] # "unborn" /\ ~(p \in 1..s) /\ ~(p <= s) /\ p \in 1..(s + n)
      BY <1>a, <1>1, <2>3, <2>4, <2>5
    <3>2. QED
      BY <2>2, <3>1
  <2>6. CASE ~(p - s \in 1..n)
    <3>1. proc'[p] = proc[p]
      BY <2>3, <2>4, <2>6
    <3>2. p \in 1..s <=> p \in 1..(s + n)
      BY <1>a, <1>1, <2>4, <2>6
    <3>3. QED
      BY <2>2, <3>1, <3>2
  <2>7. QED
    BY <2>5, <2>6
<1>9. Born'
  <2>1. {p \in Pids : proc'[p] # "unborn"} = 1..(s + n) /\ s + n \in 0..MaxPids
    BY <1>a, <1>1, <1>3, <1>8
  <2>2. QED
    BY <2>1 DEF Born
<1>10. /\ Known = jobs /\ \A ps \in jobs : ps \in Seq(Pids)
       /\ \A ps \in jobs : \A i \in DOMAIN ps :
             ps[i] \in Pids /\ ps[i] <= s /\ proc'[ps[i]] = proc[ps[i]] /\ proc[ps[i]] # "unborn"
  <2>1. Known = jobs /\ \A ps \in jobs : ps \in Seq(Pids)
    BY <1>3, <1>a DEF Known, Starting
  <2>2. \A ps \in jobs : \A i \in DOMAIN ps : proc[ps[i]] # "unborn" /\ ps[i] \in Pids
    BY <2>1 DEF TableInv, Apart
  <2>3. \A p \in Pids : proc[p] # "unborn" => p <= s
    BY <1>8, <1>1, <1>a
  <2>4. QED
    BY <1>8, <2>1, <2>2, <2>3
<1>11. Apart'
  <2>1. Known' = jobs \cup {new'.pids} /\ Starting'
    BY <1>3 DEF Known, Starting
  <2>2. \A i \in DOMAIN new'.pids : new'.pids[i] \in Pids /\ new'.pids[i] > s
                                    /\ proc'[new'.pids[i]] # "unborn"
    <3>1. SUFFICES ASSUME NEW i \in 1..n PROVE s + i \in Pids /\ s + i > s /\ proc'[s + i] # "unborn"
      BY <1>4, <1>5
    <3>2. s + i \in Pids /\ s + i > s /\ s + i \in 1..(s + n)
      BY <1>a, <1>1, <1>3
    <3>3. QED
      BY <1>8, <3>2
  <2>3. DOMAIN new'.pids = 1..n /\ 1 \in 1..n /\ Len(new'.pids) = n
    BY <1>4, <1>5, <1>a
  <2>4. \A ps \in jobs : \A i \in DOMAIN ps : \A j \in DOMAIN new'.pids : ps[i] # new'.pids[j]
    BY <1>10, <1>a, <1>1, <2>2
  <2>5. \A ps \in jobs : Len(ps) >= 1 /\ 1 \in DOMAIN ps
    <3>1. \A ps \in jobs : Len(ps) >= 1 /\ ps \in Seq(Pids)
      BY <1>10 DEF TableInv, Apart
    <3>2. QED
      BY <3>1
  <2>6. new'.pids \notin jobs
    BY <2>3, <2>4
  <2>7. \A ps \in Known' : \A i \in DOMAIN ps : proc'[ps[i]] # "unborn"
    BY <1>10, <2>1, <2>2
  <2>8. \A ps, qs \in Known' : ps # qs => \A i \in DOMAIN ps : \A j \in DOMAIN qs : ps[i] # qs[j]
    <3>1. \A ps, qs \in jobs : ps # qs => \A i \in DOMAIN ps : \A j \in DOMAIN qs : ps[i] # qs[j]
      BY <1>10 DEF TableInv, Apart
    <3>2. QED
      BY <2>1, <2>4, <3>1
  <2>9. \A ps \in Known' : Len(ps) >= 1
    BY <1>a, <2>1, <2>3, <2>5
  <2>10. QED
    BY <1>3, <2>6, <2>7, <2>8, <2>9 DEF Apart
<1>12. Table(slots', total_jobs', proc', jobs') /\ chunk' = 0 /\ Good' = Good /\ Good = 1..total_jobs
  <2>1. Table(slots, total_jobs, proc, jobs) /\ Good = 1..total_jobs /\ chunk = 0 /\ Good' = Good
    BY <1>3, IdleTable DEF TableInv, Moving, Good, Gap
  <2>2. \A l \in 1..total_jobs : Ends(proc', slots[l]) = Ends(proc, slots[l])
    BY <1>10, <2>1 DEF Table, Ends
  <2>3. QED
    BY <1>3, <2>1, <2>2 DEF Table
<1>13. Adding'
  <2>1. Ends(proc', new') = ended
    <3>1. \A i \in 1..n : proc'[s + i] = "ended" <=> i \in ended
      <4>1. SUFFICES ASSUME NEW i \in 1..n PROVE proc'[s + i] = "ended" <=> i \in ended
        OBVIOUS
      <4>2. s + i \in Pids /\ s + i - s = i
        BY <1>a, <1>1, <1>3
      <4>3. proc'[s + i] = IF i \in ended  THEN "ended"
                           ELSE IF i \in 1..n THEN "running" ELSE proc[s + i]
        BY <1>3, <4>2
      <4>4. QED
        BY <4>3
    <3>2. Ends(proc', new') = {i \in 1..n : proc'[s + i] = "ended"}
      BY <1>4, <1>5 DEF Ends
    <3>3. QED
      BY <3>1, <3>2
  <2>2. Len(new'.pids) = n
    BY <1>4, <1>5
  <2>3. QED
    BY <1>3, <1>5, <2>1, <2>2 DEF Adding
<1>14. Finding' /\ Recorded'
  BY <1>3, <1>10, <1>12 DEF Finding, Recorded, TableInv
<1>15. QED
  BY <1>3, <1>7, <1>9, <1>11, <1>12, <1>13, <1>14, WholeTable

LEMMA AddFindInv == ASSUME Bounds, TableInv, AddFind PROVE TableInv'
<1>a. /\ slots \in [1..MAX_JOBS -> Jobs] /\ total_jobs \in 0..MAX_JOBS /\ MAX_JOBS \in Nat
      /\ TypeInv /\ new \in Jobs
  BY DEF TableInv, TypeInv, Bounds
<1>b. /\ at = "forked" /\ UNCHANGED <<slots, total_jobs, deadlist, job2, chunk, entry, proc, jobs>>
  BY DEF AddFind
<1>1. Good = 1..total_jobs /\ Table(slots, total_jobs, proc, jobs) /\ chunk = 0
  BY <1>b, IdleTable DEF TableInv, Moving
<1>2. \A k \in 1..MAX_JOBS : slots[k].num = 0 <=> k > total_jobs
  <2>1. SUFFICES ASSUME NEW k \in 1..MAX_JOBS PROVE slots[k].num = 0 <=> k > total_jobs
    OBVIOUS
  <2>2. CASE k > total_jobs
    <3>1. slots[k] = Unused
      BY <1>a, <1>1, <2>2 DEF Table
    <3>2. QED
      BY <2>2, <3>1 DEF Unused
  <2>3. CASE ~(k > total_jobs)
    <3>1. slots[k].num >= 1
      BY <1>a, <1>1, <2>3 DEF Table
    <3>2. QED
      BY <2>3, <3>1
  <2>4. QED
    BY <2>2, <2>3
<1> DEFINE ks == {k \in DOMAIN slots : slots[k].num = 0}
<1>3. DOMAIN slots = 1..MAX_JOBS
  BY <1>a
<1>4. CASE ks = {}
  <2>1. at' = "idle" /\ new' = Unused /\ job' = job
    BY <1>4 DEF AddFind
  <2>2. /\ Table(slots', total_jobs', proc', jobs') /\ Born' /\ Recorded' /\ chunk' = 0
        /\ Known' \subseteq Known /\ (Starting' => Starting /\ new' = new) => Apart'
    BY <1>b, <2>1, SameTable
  <2>3. Known' \subseteq Known /\ ~Starting'
    BY <1>b, <2>1 DEF Known, Starting
  <2>4. TypeInv'
    BY <1>a, <1>b, <2>1, UnusedType DEF TypeInv, Places
  <2>5. Adding' /\ Finding'
    BY <2>1 DEF Adding, Finding, Starting
  <2>6. QED
    BY <2>1, <2>2, <2>3, <2>4, <2>5, WholeTable
<1>5. CASE ks # {}
  <2>1. at' = "adding" /\ job' = Lowest(ks) /\ new' = new
    BY <1>5 DEF AddFind
  <2>2. ks = (total_jobs + 1)..MAX_JOBS
    BY <1>a, <1>2, <1>3
  <2>3. total_jobs + 1 \in ks /\ total_jobs + 1 <= MAX_JOBS
    BY <1>5, <1>a, <2>2
  <2>4. job' = total_jobs + 1
    <3>1. \A l \in ks : total_jobs + 1 <= l
      BY <1>a, <2>2
    <3>2. ks \in SUBSET Nat
      BY <1>a, <2>2
    <3> HIDE DEF ks
    <3>3. QED
      BY <2>1, <2>3, <3>1, <3>2, LeastOf
  <2> HIDE DEF ks
  <2>5. TypeInv'
    BY <1>a, <1>b, <2>1, <2>3, <2>4 DEF TypeInv, Places
  <2>6. Known' = Known /\ Starting' /\ Starting /\ Good' = Good /\ Gap' = Gap
    BY <1>b, <2>1 DEF Known, Starting, Good, Gap
  <2>7. Born' /\ Apart' /\ Recorded'
    BY <1>b, <2>1, <2>6 DEF TableInv, Born, Apart, Recorded
  <2>8. Shape'
    <3>1. \A k \in Good : Whole(slots[k])' /\ slots'[k].pids \in jobs'
      BY <1>b DEF TableInv, Shape, Whole
    <3>2. \A k \in (total_jobs + 1)..MAX_JOBS : slots[k] = Unused
      BY <1>1 DEF Table
    <3>3. QED
      BY <1>b, <2>6, <3>1, <3>2 DEF TableInv, Shape
  <2>9. Adding'
    <3>1. /\ new.num = 0 /\ new.notify = FALSE /\ new.count = Len(new.pids)
          /\ new.exits = Ends(proc, new)
      BY <1>1, <2>6 DEF TableInv, Adding
    <3>2. slots[total_jobs + 1] = Unused
      BY <1>1, <1>a, <2>3 DEF Table
    <3>3. QED
      BY <1>1, <1>b, <2>1, <2>3, <2>4, <3>1, <3>2 DEF Adding
  <2>10. Moving' /\ Finding'
    BY <2>1 DEF Moving, Finding
  <2>11. QED
    BY <2>5, <2>7, <2>8, <2>9, <2>10 DEF TableInv
<1>6. QED
  BY <1>4, <1>5

\* memcpy() field by field.
LEMMA CopiedFields ==
  ASSUME NEW to \in Jobs, NEW from \in Jobs
  PROVE  /\ \A c \in 1..3 : Copied(to, from, c) \in Jobs
         /\ LET r == Copied(to, from, 1)
            IN r.num = from.num /\ r.count = from.count
               /\ r.pids = to.pids /\ r.exits = to.exits /\ r.notify = to.notify
         /\ LET r == Copied(to, from, 2)
            IN r.pids = from.pids /\ r.num = to.num /\ r.count = to.count
               /\ r.exits = to.exits /\ r.notify = to.notify
         /\ LET r == Copied(to, from, 3)
            IN r.exits = from.exits /\ r.notify = from.notify
               /\ r.num = to.num /\ r.count = to.count /\ r.pids = to.pids
<1> DEFINE r1 == [to EXCEPT !.num = from.num, !.count = from.count]
           r2 == [to EXCEPT !.pids = from.pids]
           r3 == [to EXCEPT !.exits = from.exits, !.notify = from.notify]
<1>1. Copied(to, from, 1) = r1 /\ Copied(to, from, 2) = r2 /\ Copied(to, from, 3) = r3
  BY DEF Copied
<1>2. r1 \in Jobs /\ r1.num = from.num /\ r1.count = from.count
      /\ r1.pids = to.pids /\ r1.exits = to.exits /\ r1.notify = to.notify
  BY DEF Jobs
<1>3. r2 \in Jobs /\ r2.pids = from.pids /\ r2.num = to.num /\ r2.count = to.count
      /\ r2.exits = to.exits /\ r2.notify = to.notify
  BY DEF Jobs
<1>4. r3 \in Jobs /\ r3.exits = from.exits /\ r3.notify = from.notify
      /\ r3.num = to.num /\ r3.count = to.count /\ r3.pids = to.pids
  BY DEF Jobs
<1> HIDE DEF r1, r2, r3
<1>5. \A c \in 1..3 : c = 1 \/ c = 2 \/ c = 3
  OBVIOUS
<1>6. QED
  BY <1>1, <1>2, <1>3, <1>4, <1>5

LEMMA SameJob ==
  ASSUME NEW j \in Jobs, NEW k \in Jobs, j.num = k.num, j.count = k.count, j.pids = k.pids,
         j.exits = k.exits, j.notify = k.notify
  PROVE  j = k
  BY DEF Jobs

LEMMA HalfType ==
  ASSUME NEW c \in Nat, NEW ps \in Seq(Pids)
  PROVE  Half(c, ps) \in Jobs /\ Half(c, <<>>) \in Jobs
  BY DEF Half, Jobs

LEMMA CopyNew ==
  ASSUME NEW j \in Jobs, j.num = 0, Unused \in Jobs
  PROVE  /\ Copied(Unused, j, 1) = Half(j.count, <<>>)
         /\ Copied(Half(j.count, <<>>), j, 2) = Half(j.count, j.pids)
         /\ Copied(Half(j.count, j.pids), j, 3) = j
<1>1. Half(j.count, <<>>) \in Jobs /\ Half(j.count, j.pids) \in Jobs
  BY HalfType DEF Jobs
<1>a. \A h, k \in Jobs : h.num = k.num /\ h.count = k.count /\ h.pids = k.pids
                         /\ h.exits = k.exits /\ h.notify = k.notify => h = k
  BY SameJob
<1>2. Copied(Unused, j, 1) = Half(j.count, <<>>)
  <2> DEFINE r == Copied(Unused, j, 1)
  <2>1. /\ r \in Jobs /\ r.num = j.num /\ r.count = j.count
        /\ r.pids = Unused.pids /\ r.exits = Unused.exits /\ r.notify = Unused.notify
    BY CopiedFields
  <2> HIDE DEF r
  <2>2. /\ r.num = Half(j.count, <<>>).num /\ r.count = Half(j.count, <<>>).count
        /\ r.pids = Half(j.count, <<>>).pids /\ r.exits = Half(j.count, <<>>).exits
        /\ r.notify = Half(j.count, <<>>).notify
    BY <2>1 DEF Unused, Half
  <2>3. r = Half(j.count, <<>>)
    BY <1>1, <1>a, <2>1, <2>2
  <2>4. QED
    BY <2>3 DEF r
<1>3. Copied(Half(j.count, <<>>), j, 2) = Half(j.count, j.pids)
  <2> DEFINE h == Half(j.count, <<>>)
             r == Copied(h, j, 2)
  <2>1. /\ r \in Jobs /\ r.pids = j.pids /\ r.num = h.num /\ r.count = h.count
        /\ r.exits = h.exits /\ r.notify = h.notify
    BY <1>1, CopiedFields
  <2> HIDE DEF r
  <2>2. /\ r.num = Half(j.count, j.pids).num /\ r.count = Half(j.count, j.pids).count
        /\ r.pids = Half(j.count, j.pids).pids /\ r.exits = Half(j.count, j.pids).exits
        /\ r.notify = Half(j.count, j.pids).notify
    BY <2>1 DEF Half
  <2>3. r = Half(j.count, j.pids)
    BY <1>1, <1>a, <2>1, <2>2
  <2>4. QED
    BY <2>3 DEF r
<1>4. Copied(Half(j.count, j.pids), j, 3) = j
  <2> DEFINE h == Half(j.count, j.pids)
             r == Copied(h, j, 3)
  <2>1. /\ r \in Jobs /\ r.exits = j.exits /\ r.notify = j.notify
        /\ r.num = h.num /\ r.count = h.count /\ r.pids = h.pids
    BY <1>1, CopiedFields
  <2> HIDE DEF r
  <2>2. r.num = j.num /\ r.count = j.count /\ r.pids = j.pids
    BY <2>1 DEF Half
  <2>3. r = j
    BY <1>a, <2>1, <2>2
  <2>4. QED
    BY <2>3 DEF r
<1>5. QED
  BY <1>2, <1>3, <1>4

LEMMA AddCopyInv == ASSUME Bounds, TableInv, AddCopy PROVE TableInv'
<1>a. /\ slots \in [1..MAX_JOBS -> Jobs] /\ total_jobs \in 0..MAX_JOBS /\ MAX_JOBS \in Nat
      /\ TypeInv /\ new \in Jobs /\ chunk \in 0..3
  BY DEF TableInv, TypeInv, Bounds
<1>b. /\ at = "adding" /\ chunk < 3 /\ chunk' = chunk + 1
      /\ slots' = [slots EXCEPT ![job] = Copied(slots[job], new, chunk + 1)]
      /\ UNCHANGED <<total_jobs, new, deadlist, at, job, job2, entry, proc, jobs>>
  BY DEF AddCopy
<1>c. /\ job = total_jobs + 1 /\ job \in 1..MAX_JOBS
      /\ new.num = 0 /\ new.notify = FALSE /\ new.count = Len(new.pids)
      /\ new.exits = Ends(proc, new)
      /\ chunk = 0 => slots[job] = Unused
      /\ chunk = 1 => slots[job] = Half(new.count, <<>>)
      /\ chunk = 2 => slots[job] = Half(new.count, new.pids)
  BY <1>a, <1>b DEF TableInv, Adding, Starting
<1>1. /\ slots'[job] = Copied(slots[job], new, chunk + 1)
      /\ \A k \in 1..MAX_JOBS : k # job => slots'[k] = slots[k]
  BY <1>a, <1>b, <1>c
<1>e. /\ Copied(Unused, new, 1) = Half(new.count, <<>>)
      /\ Copied(Half(new.count, <<>>), new, 2) = Half(new.count, new.pids)
      /\ Copied(Half(new.count, new.pids), new, 3) = new
  BY <1>a, <1>c, CopyNew, UnusedType
<1>f. chunk \in {0, 1, 2}
  BY <1>a, <1>b
<1>2. /\ chunk' = 1 => slots'[job] = Half(new.count, <<>>)
      /\ chunk' = 2 => slots'[job] = Half(new.count, new.pids)
      /\ chunk' = 3 => slots'[job] = new
  BY <1>1, <1>b, <1>c, <1>e, <1>f
<1>3. slots'[job] \in Jobs /\ chunk' \in 1..3
  <2>1. chunk' \in 1..3 /\ new.count \in Nat /\ new.pids \in Seq(Pids)
    BY <1>a, <1>b DEF Jobs
  <2>2. Half(new.count, new.pids) \in Jobs /\ Half(new.count, <<>>) \in Jobs
    BY <2>1, HalfType
  <2>3. QED
    BY <1>2, <1>a, <2>1, <2>2
<1>4. TypeInv'
  <2>1. slots' \in [1..MAX_JOBS -> Jobs]
    BY <1>a, <1>b, <1>1, <1>3
  <2>2. QED
    BY <1>a, <1>b, <1>3, <2>1 DEF TypeInv
<1>5. Good' = Good /\ Gap' = Gap /\ Gap = {} /\ Good = 1..total_jobs /\ Known' = Known
      /\ Starting /\ Starting'
  BY <1>b DEF Good, Gap, Known, Starting
<1>6. \A k \in Good : slots'[k] = slots[k]
  BY <1>1, <1>5, <1>a, <1>c
<1>7. Born' /\ Apart' /\ Recorded'
  BY <1>b, <1>5, <1>6 DEF TableInv, Born, Apart, Recorded
<1>8. Shape'
  <2>1. \A k \in Good : Whole(slots[k])' /\ slots'[k].pids \in jobs'
    BY <1>b, <1>6 DEF TableInv, Shape, Whole
  <2>2. \A k \in (total_jobs + 1)..MAX_JOBS : k # job => slots'[k] = Unused
    BY <1>1, <1>a, <1>b DEF TableInv, Shape
  <2>3. QED
    BY <1>b, <1>5, <1>6, <2>1, <2>2 DEF TableInv, Shape
<1>9. Adding'
  <2>1. chunk' = 3 => slots'[job].exits = Ends(proc, slots'[job])
    BY <1>2, <1>c
  <2>2. QED
    BY <1>2, <1>3, <1>b, <1>c, <2>1 DEF Adding
<1>10. Moving' /\ Finding'
  BY <1>b DEF Moving, Finding
<1>11. QED
  BY <1>4, <1>7, <1>8, <1>9, <1>10 DEF TableInv

\* The new job gets the largest number of all and becomes one of the jobs.
LEMMA AddNumberInv == ASSUME Bounds, TableInv, AddNumber PROVE TableInv'
<1>a. /\ slots \in [1..MAX_JOBS -> Jobs] /\ total_jobs \in 0..MAX_JOBS /\ MAX_JOBS \in Nat
      /\ TypeInv /\ new \in Jobs /\ jobs \subseteq Seq(Pids)
  BY DEF TableInv, TypeInv, Bounds
<1> DEFINE nums == {slots[k].num : k \in DOMAIN slots}
           N == CHOOSE n \in nums : \A l \in nums : l <= n
           top == IF total_jobs = 0 THEN 0 ELSE slots[total_jobs].num
<1>b. /\ at = "adding" /\ chunk = 3 /\ at' = "idle" /\ chunk' = 0
      /\ slots' = [slots EXCEPT ![job].num = 1 + N]
      /\ total_jobs' = total_jobs + 1 /\ jobs' = jobs \cup {new.pids} /\ new' = Unused /\ job' = 0
      /\ UNCHANGED <<deadlist, job2, entry, proc>>
  BY DEF AddNumber
<1>c. /\ job = total_jobs + 1 /\ job \in 1..MAX_JOBS
      /\ slots[job].num = 0 /\ slots[job].count = new.count /\ slots[job].pids = new.pids
      /\ slots[job].exits = Ends(proc, slots[job])
      /\ new.count = Len(new.pids)
  BY <1>a, <1>b DEF TableInv, Adding, Starting
<1>d. Good = 1..total_jobs /\ Known = jobs \cup {new.pids} /\ Starting
  BY <1>b DEF Good, Gap, Known, Starting
<1>e. new.pids \notin jobs
  BY <1>d DEF TableInv, Apart
<1>1. /\ \A k \in 1..total_jobs : Whole(slots[k]) /\ slots[k].pids \in jobs /\ slots[k].num >= 1
      /\ \A k, l \in 1..total_jobs :
            k < l => slots[k].num < slots[l].num /\ slots[k].pids # slots[l].pids
      /\ \A k \in 1..MAX_JOBS : k > total_jobs /\ k # job => slots[k] = Unused
  <2>1. \A k \in 1..total_jobs : Whole(slots[k]) /\ slots[k].pids \in jobs /\ slots[k].num >= 1
    BY <1>d DEF TableInv, Shape, Whole
  <2>2. \A k, l \in 1..total_jobs :
            k < l => slots[k].num < slots[l].num /\ slots[k].pids # slots[l].pids
    BY <1>d DEF TableInv, Shape
  <2>3. \A k \in 1..MAX_JOBS : k > total_jobs /\ k # job => slots[k] = Unused
    BY <1>a DEF TableInv, Shape
  <2>4. QED
    BY <2>1, <2>2, <2>3
<1>2. /\ \A k \in 1..MAX_JOBS : slots[k].num \in Nat
      /\ \A k \in 1..MAX_JOBS : k > total_jobs => slots[k].num = 0
  <2>1. \A k \in 1..MAX_JOBS : slots[k].num \in Nat
    BY <1>a DEF Jobs
  <2>2. \A k \in 1..MAX_JOBS : k > total_jobs => slots[k].num = 0
    BY <1>1, <1>c DEF Unused
  <2>3. QED
    BY <2>1, <2>2
<1>3. top \in Nat /\ top \in nums /\ \A l \in nums : l <= top
  <2>1. CASE total_jobs = 0
    <3>1. \A k \in 1..MAX_JOBS : slots[k].num = 0
      BY <1>2, <2>1
    <3>2. slots[job].num \in nums
      BY <1>a, <1>c
    <3>3. QED
      BY <2>1, <3>1, <3>2, <1>a, <1>c
  <2>2. CASE total_jobs # 0
    <3>1. total_jobs \in 1..MAX_JOBS /\ total_jobs \in 1..total_jobs
      BY <1>a, <2>2
    <3>2. \A k \in 1..MAX_JOBS : slots[k].num <= slots[total_jobs].num
      <4>1. SUFFICES ASSUME NEW k \in 1..MAX_JOBS PROVE slots[k].num <= slots[total_jobs].num
        OBVIOUS
      <4>2. slots[k].num \in Nat /\ slots[total_jobs].num \in Nat
        BY <1>2, <3>1
      <4>3. CASE k < total_jobs
        BY <1>1, <3>1, <4>2, <4>3
      <4>4. CASE k = total_jobs
        BY <4>2, <4>4
      <4>5. CASE k > total_jobs
        BY <1>2, <4>2, <4>5
      <4>6. QED
        BY <1>a, <4>3, <4>4, <4>5
    <3>3. QED
      BY <1>a, <1>2, <2>2, <3>1, <3>2
  <2>3. QED
    BY <2>1, <2>2
<1>4. N = top
  <2>1. nums \subseteq Nat
    BY <1>a, <1>2
  <2> HIDE DEF nums, top
  <2>2. N \in nums /\ \A l \in nums : l <= N
    BY <1>3
  <2>3. N <= top /\ top <= N /\ N \in Nat
    BY <1>3, <2>1, <2>2
  <2> HIDE DEF N
  <2>4. QED
    BY <1>3, <2>3
<1> HIDE DEF nums, N
<1>5. /\ slots'[job] = [slots[job] EXCEPT !.num = 1 + top]
      /\ \A k \in 1..MAX_JOBS : k # job => slots'[k] = slots[k]
      /\ DOMAIN slots' = 1..MAX_JOBS /\ slots' = [k \in 1..MAX_JOBS |-> slots'[k]]
  <2>1. slots' = [slots EXCEPT ![job] = [slots[job] EXCEPT !.num = 1 + top]]
    BY <1>a, <1>b, <1>c, <1>4
  <2> HIDE DEF top
  <2>2. QED
    BY <1>a, <1>c, <2>1
<1>6. /\ slots'[job].num = 1 + top /\ slots'[job].count = new.count
      /\ slots'[job].pids = new.pids /\ slots'[job].exits = Ends(proc, slots'[job])
      /\ slots'[job] \in Jobs
  <2>1. slots[job] \in Jobs /\ 1 + top \in Nat
    BY <1>a, <1>c, <1>3
  <2> HIDE DEF top
  <2>2. /\ slots'[job].num = 1 + top /\ slots'[job].count = slots[job].count
        /\ slots'[job].pids = slots[job].pids /\ slots'[job].exits = slots[job].exits
        /\ slots'[job] \in Jobs
    BY <1>5, <2>1 DEF Jobs
  <2>3. Ends(proc, slots'[job]) = Ends(proc, slots[job])
    BY <2>2 DEF Ends
  <2>4. QED
    BY <1>c, <2>2, <2>3
<1>7. \A k \in 1..total_jobs : slots'[k] = slots[k] /\ slots[k].num <= top /\ k \in 1..MAX_JOBS
                               /\ slots[k].num \in Nat
  <2>1. SUFFICES ASSUME NEW k \in 1..total_jobs
                 PROVE  slots'[k] = slots[k] /\ slots[k].num <= top /\ k \in 1..MAX_JOBS
                        /\ slots[k].num \in Nat
    OBVIOUS
  <2>2. k \in 1..MAX_JOBS /\ k # job
    BY <1>a, <1>c
  <2>3. slots[k].num \in nums
    BY <2>2, <1>a DEF nums
  <2>4. QED
    BY <1>2, <1>3, <1>5, <2>2, <2>3
<1> HIDE DEF top
<1>8. Table(slots', total_jobs', proc', jobs')
  <2>1. \A k \in 1..(total_jobs + 1) :
           /\ slots'[k].num >= 1 /\ slots'[k].count = Len(slots'[k].pids)
           /\ slots'[k].exits = Ends(proc, slots'[k]) /\ slots'[k].pids \in jobs'
    <3>1. SUFFICES ASSUME NEW k \in 1..(total_jobs + 1)
                   PROVE  /\ slots'[k].num >= 1 /\ slots'[k].count = Len(slots'[k].pids)
                          /\ slots'[k].exits = Ends(proc, slots'[k]) /\ slots'[k].pids \in jobs'
      OBVIOUS
    <3>2. CASE k = job
      BY <1>3, <1>6, <1>b, <1>c, <3>2
    <3>3. CASE k # job
      <4>1. k \in 1..total_jobs
        BY <1>a, <1>c, <3>3
      <4>2. slots'[k] = slots[k] /\ jobs \subseteq jobs'
        BY <1>7, <1>b, <4>1
      <4>3. Whole(slots[k]) /\ slots[k].pids \in jobs
        BY <1>1, <4>1
      <4>4. QED
        BY <4>2, <4>3 DEF Whole
    <3>4. QED
      BY <3>2, <3>3
  <2>2. \A k, l \in 1..(total_jobs + 1) :
            k < l => slots'[k].num < slots'[l].num /\ slots'[k].pids # slots'[l].pids
    <3>1. SUFFICES ASSUME NEW k \in 1..(total_jobs + 1), NEW l \in 1..(total_jobs + 1), k < l
                   PROVE  slots'[k].num < slots'[l].num /\ slots'[k].pids # slots'[l].pids
      OBVIOUS
    <3>2. k \in 1..total_jobs
      BY <1>a, <3>1
    <3>3. CASE l = job
      <4>1. slots'[k].num <= top /\ slots'[k].num \in Nat /\ slots'[k].pids \in jobs
        BY <1>1, <1>7, <3>2
      <4>2. QED
        BY <1>3, <1>6, <1>e, <3>3, <4>1
    <3>4. CASE l # job
      <4>1. l \in 1..total_jobs
        BY <1>a, <1>c, <3>4
      <4>2. QED
        BY <1>1, <1>7, <3>1, <3>2, <4>1
    <3>5. QED
      BY <3>3, <3>4
  <2>3. \A k \in (total_jobs + 1 + 1)..MAX_JOBS : slots'[k] = Unused
    BY <1>1, <1>5, <1>a, <1>c
  <2>4. QED
    BY <1>b, <2>1, <2>2, <2>3 DEF Table
<1>9. slots' \in [1..MAX_JOBS -> Jobs]
  BY <1>5, <1>6, <1>a, <1>c
<1>10. TypeInv'
  <2>1. new.pids \in Seq(Pids) /\ total_jobs' \in 0..MAX_JOBS
    BY <1>a, <1>b, <1>c DEF Jobs
  <2>2. QED
    BY <1>9, <1>a, <1>b, <2>1, UnusedType DEF TypeInv, Places
<1>11. Born' /\ Apart'
  <2>1. Known' = Known /\ ~Starting'
    BY <1>b, <1>d DEF Known, Starting
  <2>2. QED
    BY <1>b, <2>1 DEF TableInv, Born, Apart
<1>12. Recorded'
  <2>1. Good' = 1..(total_jobs + 1)
    BY <1>b DEF Good, Gap
  <2>2. SUFFICES ASSUME NEW ps \in jobs', NEW i \in DOMAIN ps, proc[ps[i]] = "running"
                 PROVE  \E k \in 1..(total_jobs + 1) : slots'[k].pids = ps
    BY <1>b, <2>1 DEF Recorded
  <2>3. CASE ps \in jobs
    <3>1. PICK k \in 1..total_jobs : slots[k].pids = ps
      BY <1>d, <2>2, <2>3 DEF TableInv, Recorded
    <3>2. slots'[k].pids = ps /\ k \in 1..(total_jobs + 1)
      BY <1>7, <1>a, <3>1
    <3>3. QED
      BY <3>2
  <2>4. CASE ps = new.pids
    BY <1>6, <1>a, <1>c, <2>4
  <2>5. QED
    BY <1>b, <2>3, <2>4
<1>13. Adding' /\ Finding'
  BY <1>b DEF Adding, Finding, Starting
<1>14. QED
  BY <1>8, <1>10, <1>11, <1>12, <1>13, <1>b, WholeTable

----------------------------------------------------------------------------
(* The builtins.                                                            *)

LEMMA NotifyInv == ASSUME Bounds, TableInv, NEW k \in DOMAIN slots, Notify(k) PROVE TableInv'
<1>a. /\ slots \in [1..MAX_JOBS -> Jobs] /\ total_jobs \in 0..MAX_JOBS /\ MAX_JOBS \in Nat /\ TypeInv
  BY DEF TableInv, TypeInv, Bounds
<1>b. /\ at = "idle" /\ slots[k].num # 0 /\ k \in 1..MAX_JOBS
      /\ UNCHANGED <<total_jobs, new, deadlist, at, job, job2, chunk, entry, proc, jobs>>
  BY <1>a DEF Notify, place
<1>1. Good = 1..total_jobs /\ Table(slots, total_jobs, proc, jobs) /\ chunk = 0
      /\ Good' = Good
  BY <1>b, IdleTable DEF TableInv, Moving, Good, Gap
<1>2. /\ slots'[k] = [slots[k] EXCEPT !.notify = TRUE]
      /\ \A l \in 1..MAX_JOBS : l # k => slots'[l] = slots[l]
      /\ DOMAIN slots' = 1..MAX_JOBS /\ slots' = [l \in 1..MAX_JOBS |-> slots'[l]]
  <2>1. slots' = [slots EXCEPT ![k] = [slots[k] EXCEPT !.notify = TRUE]]
    BY <1>a, <1>b DEF Notify
  <2>2. QED
    BY <1>a, <1>b, <2>1
<1>3. \A l \in 1..MAX_JOBS : /\ slots'[l].num = slots[l].num /\ slots'[l].count = slots[l].count
                             /\ slots'[l].pids = slots[l].pids /\ slots'[l].exits = slots[l].exits
                             /\ slots'[l] \in Jobs
  <2>1. slots[k] \in Jobs
    BY <1>a, <1>b
  <2>2. /\ slots'[k].num = slots[k].num /\ slots'[k].count = slots[k].count
        /\ slots'[k].pids = slots[k].pids /\ slots'[k].exits = slots[k].exits
        /\ slots'[k] \in Jobs
    BY <1>2, <2>1 DEF Jobs
  <2>3. QED
    BY <1>2, <1>a, <2>2
<1>4. \A l \in 1..MAX_JOBS : Ends(proc, slots'[l]) = Ends(proc, slots[l])
  BY <1>3 DEF Ends
<1>5. k <= total_jobs
  <2>1. k > total_jobs => slots[k].num = 0
    BY <1>1, <1>a, <1>b DEF Table, Unused
  <2>2. QED
    BY <1>a, <1>b, <2>1
<1>6. Table(slots', total_jobs', proc', jobs')
  <2>1. 1..total_jobs \subseteq 1..MAX_JOBS
    BY <1>a
  <2>2. \A l \in 1..total_jobs :
           /\ slots'[l].num >= 1 /\ slots'[l].count = Len(slots'[l].pids)
           /\ slots'[l].exits = Ends(proc, slots'[l]) /\ slots'[l].pids \in jobs
    BY <1>1, <1>3, <1>4, <2>1 DEF Table
  <2>3. \A l, m \in 1..total_jobs :
           l < m => slots'[l].num < slots'[m].num /\ slots'[l].pids # slots'[m].pids
    BY <1>1, <1>3, <2>1 DEF Table
  <2>4. \A l \in (total_jobs + 1)..MAX_JOBS : slots'[l] = Unused
    BY <1>1, <1>2, <1>5, <1>a, <1>b DEF Table
  <2>5. QED
    BY <1>b, <2>2, <2>3, <2>4 DEF Table
<1>7. TypeInv'
  <2>1. slots' \in [1..MAX_JOBS -> Jobs]
    BY <1>2, <1>3
  <2>2. QED
    BY <1>a, <1>b, <2>1 DEF TypeInv
<1>8. Born' /\ Apart'
  BY <1>b DEF TableInv, Born, Apart, Known, Starting
<1>9. Recorded'
  <2>1. \A l \in Good : slots'[l].pids = slots[l].pids
    BY <1>1, <1>3, <1>a
  <2>2. QED
    BY <1>1, <1>b, <2>1 DEF TableInv, Recorded
<1>10. Adding' /\ Finding'
  BY <1>b DEF Adding, Finding, Starting
<1>11. QED
  BY <1>1, <1>6, <1>7, <1>8, <1>9, <1>10, <1>b, WholeTable

LEMMA DisownInv == ASSUME Bounds, TableInv, NEW k \in DOMAIN slots, Disown(k) PROVE TableInv'
<1>a. /\ slots \in [1..MAX_JOBS -> Jobs] /\ total_jobs \in 0..MAX_JOBS /\ MAX_JOBS \in Nat
      /\ TypeInv /\ jobs \subseteq Seq(Pids)
  BY DEF TableInv, TypeInv, Bounds
<1>b. /\ at = "idle" /\ slots[k].num # 0 /\ k \in 1..MAX_JOBS
      /\ slots' = Removed(slots, k) /\ total_jobs' = total_jobs - 1
      /\ jobs' = jobs \ {slots[k].pids}
      /\ UNCHANGED <<new, deadlist, at, job, job2, chunk, entry, proc>>
  BY <1>a DEF Disown, place
<1>1. Good = 1..total_jobs /\ Table(slots, total_jobs, proc, jobs) /\ chunk = 0
  BY <1>b, IdleTable DEF TableInv, Moving
<1>2. k \in 1..total_jobs
  <2>1. k > total_jobs => slots[k].num = 0
    BY <1>1, <1>a, <1>b DEF Table, Unused
  <2>2. QED
    BY <1>a, <1>b, <2>1
<1>3. /\ Removed(slots, k) \in [1..MAX_JOBS -> Jobs]
      /\ Table(Removed(slots, k), total_jobs - 1, proc, jobs \ {slots[k].pids})
      /\ \A i \in 1..total_jobs : i # k =>
            \E l \in 1..(total_jobs - 1) : Removed(slots, k)[l].pids = slots[i].pids
  BY <1>1, <1>2, <1>a, CutTable
<1>4. Table(slots', total_jobs', proc', jobs')
  BY <1>3, <1>b DEF Table
<1>5. TypeInv'
  <2>1. total_jobs' \in 0..MAX_JOBS
    BY <1>2, <1>a, <1>b
  <2>2. QED
    BY <1>3, <1>a, <1>b, <2>1 DEF TypeInv
<1>6. Born' /\ Apart'
  <2>1. Known' \subseteq Known /\ ~Starting'
    BY <1>b DEF Known, Starting
  <2>2. QED
    BY <1>b, <2>1 DEF TableInv, Born, Apart
<1>7. Recorded'
  <2>1. Good' = 1..(total_jobs - 1)
    BY <1>b DEF Good, Gap
  <2>2. SUFFICES ASSUME NEW ps \in jobs, ps # slots[k].pids, NEW i \in DOMAIN ps,
                        proc[ps[i]] = "running"
                 PROVE  \E l \in 1..(total_jobs - 1) : slots'[l].pids = ps
    BY <1>b, <2>1 DEF Recorded
  <2>3. PICK l \in 1..total_jobs : slots[l].pids = ps
    BY <1>1, <2>2 DEF TableInv, Recorded
  <2>4. QED
    BY <1>3, <1>b, <2>2, <2>3
<1>8. Adding' /\ Finding'
  BY <1>b DEF Adding, Finding, Starting
<1>9. QED
  BY <1>1, <1>4, <1>5, <1>6, <1>7, <1>8, <1>b, WholeTable

----------------------------------------------------------------------------
(* check_on_children().                                                     *)

LEMMA CheckInv ==
  ASSUME Bounds, TableInv, Check \/ CheckEntry \/ CheckRunning \/ CheckReset
  PROVE  TableInv'
<1>a. /\ slots \in [1..MAX_JOBS -> Jobs] /\ total_jobs \in 0..MAX_JOBS /\ MAX_JOBS \in Nat
      /\ TypeInv /\ deadlist \in Seq(Pids) /\ entry \in Nat
  BY DEF TableInv, TypeInv, Bounds
<1>b. /\ at \in {"idle", "checking", "found"} /\ at' \in {"idle", "checking", "found"}
      /\ UNCHANGED <<slots, total_jobs, new, job2, chunk, proc, jobs>>
  BY DEF Check, CheckEntry, CheckRunning, CheckReset
<1>1. /\ Table(slots', total_jobs', proc', jobs') /\ Born' /\ Recorded' /\ chunk' = 0
      /\ Known' \subseteq Known /\ (Starting' => Starting /\ new' = new) => Apart'
  BY <1>b, SameTable
<1>2. Known' \subseteq Known /\ ~Starting' /\ Real = 1..total_jobs /\ chunk = 0
  BY <1>1, <1>b, IdleTable DEF Known, Starting, Real
<1>3. \A p : Found(p) \in Nat
  BY <1>2, <1>a, FoundSlot
<1>4. TypeInv' /\ Finding'
  <2>1. CASE Check
    BY <2>1, <1>a, <1>b DEF Check, TypeInv, Places, Finding
  <2>2. CASE CheckEntry
    <3>1. entry \in 1..Len(deadlist) /\ deadlist[entry] \in Pids
      BY <2>2, <1>a DEF CheckEntry, TableInv, Finding
    <3>2. /\ job' = Found(deadlist[entry]) /\ deadlist' = deadlist /\ job' \in Nat
          /\ IF job' = 0 THEN entry' = entry + 1 /\ at' = at ELSE at' = "found" /\ entry' = entry
      BY <2>2, <1>3 DEF CheckEntry
    <3>3. TypeInv'
      BY <3>2, <1>a, <1>b DEF TypeInv, Places
    <3>4. PICK q \in Pids : q = deadlist[entry]
      BY <3>1
    <3>5. Found(q)' = Found(q)
      BY <1>b DEF Found, Listing
    <3>6. at' = "found" => entry' = entry /\ job' # 0
      BY <2>2 DEF CheckEntry
    <3>7. entry' >= 1
      BY <3>1, <3>2
    <3>8. QED
      BY <3>1, <3>2, <3>3, <3>4, <3>5, <3>6, <3>7 DEF Finding
  <2>3. CASE CheckRunning
    BY <2>3, <1>a, <1>b DEF CheckRunning, TypeInv, Places, Finding
  <2>4. CASE CheckReset
    BY <2>4, <1>a, <1>b DEF CheckReset, TypeInv, Places, Finding
  <2>5. QED
    BY <2>1, <2>2, <2>3, <2>4
<1>5. Adding'
  BY <1>2, <1>b DEF Adding, Starting
<1>6. QED
  BY <1>1, <1>2, <1>4, <1>5, <1>b, WholeTable

LEMMA RemoveInv == ASSUME Bounds, TableInv, Remove PROVE TableInv'
<1>a. /\ slots \in [1..MAX_JOBS -> Jobs] /\ total_jobs \in 0..MAX_JOBS /\ MAX_JOBS \in Nat
      /\ TypeInv /\ proc \in [Pids -> {"unborn", "running", "ended"}]
  BY DEF TableInv, TypeInv, Bounds
<1>b. /\ at = "found" /\ Complete(slots[job]) /\ at' = "shifting"
      /\ UNCHANGED <<total_jobs, new, deadlist, chunk, entry, proc, jobs>>
  BY DEF Remove
<1>c. Good = 1..total_jobs /\ Table(slots, total_jobs, proc, jobs) /\ chunk = 0
      /\ Real = 1..total_jobs
  BY <1>b, IdleTable DEF TableInv, Moving, Real
<1>1. job # 0 /\ job = Found(deadlist[entry]) /\ entry >= 1
  BY <1>b DEF TableInv, Finding
<1>2. job \in 1..total_jobs
  BY <1>1, <1>c, FoundSlot
<1>3. slots' = [slots EXCEPT ![job] = Unused] /\ job' = job /\ job2' = job + 1
  BY <1>1 DEF Remove
<1>4. Gap' = {job} /\ Good' = (1..total_jobs) \ {job}
  <2>1. job <= total_jobs /\ chunk' # 3
    BY <1>2, <1>a, <1>b, <1>c
  <2>2. QED
    BY <2>1, <1>b, <1>3 DEF Gap, Good
<1>5. /\ slots'[job] = Unused /\ \A k \in 1..MAX_JOBS : k # job => slots'[k] = slots[k]
      /\ slots' \in [1..MAX_JOBS -> Jobs]
  BY <1>3, <1>2, <1>a, UnusedType
<1>6. TypeInv'
  BY <1>2, <1>3, <1>5, <1>a, <1>b DEF TypeInv, Places
<1>7. Born' /\ Apart' /\ Adding'
  <2>1. Known' = Known /\ ~Starting'
    BY <1>b DEF Known, Starting
  <2>2. QED
    BY <2>1, <1>b DEF TableInv, Born, Apart, Adding, Starting
<1>8. Shape'
  <2>1. \A k \in Good' : k \in Good /\ slots'[k] = slots[k]
    BY <1>4, <1>5, <1>a, <1>c
  <2>2. \A k \in Good' : Whole(slots[k])' /\ slots'[k].pids \in jobs'
    BY <2>1, <1>b DEF TableInv, Shape, Whole
  <2>3. \A k, l \in Good' : k < l => slots'[k].num < slots'[l].num /\ slots'[k].pids # slots'[l].pids
    BY <2>1 DEF TableInv, Shape
  <2>4. \A k \in (total_jobs' + 1)..MAX_JOBS : slots'[k] = Unused
    BY <1>5, <1>a, <1>b, <1>c, <1>2 DEF Table
  <2>5. QED
    BY <2>2, <2>3, <2>4 DEF Shape
<1>9. Moving'
  <2>1. job' \in 1..MAX_JOBS /\ job2' = job' + 1 /\ total_jobs' >= 1 /\ chunk' = 0
    BY <1>2, <1>3, <1>a, <1>b, <1>c
  <2>2. \A k \in Gap' : slots'[k] = Unused
    BY <1>4, <1>5
  <2>3. QED
    BY <2>1, <2>2, <1>b DEF Moving
<1>10. Recorded'
  <2>1. SUFFICES ASSUME NEW ps \in jobs, NEW i \in DOMAIN ps, proc[ps[i]] = "running"
                 PROVE  \E k \in Good' : slots'[k].pids = ps
    BY <1>b DEF Recorded
  <2>2. PICK k \in 1..total_jobs : slots[k].pids = ps
    BY <2>1, <1>c DEF TableInv, Recorded
  <2>3. k # job
    <3>1. slots[job] \in Jobs
      BY <1>a, <1>2
    <3>2. slots[job].count = Len(slots[job].pids) /\ slots[job].exits = Ends(proc, slots[job])
      BY <1>c, <1>2 DEF Table
    <3>3. \A m \in DOMAIN slots[job].pids : proc[slots[job].pids[m]] = "ended"
      BY <3>1, <3>2, <1>b, CompleteEnded
    <3>4. QED
      BY <2>1, <2>2, <3>3
  <2>4. QED
    BY <2>2, <2>3, <1>4, <1>5, <1>a
<1>11. Finding'
  BY <1>1, <1>b DEF Finding
<1>12. QED
  BY <1>6, <1>7, <1>8, <1>9, <1>10, <1>11 DEF TableInv

----------------------------------------------------------------------------
(* remove_job() moves the jobs behind the gap down.                         *)

\* What every such step starts from.
LEMMA Shifting ==
  ASSUME Bounds, TableInv, at = "shifting"
  PROVE  /\ job \in 1..MAX_JOBS /\ job2 = job + 1 /\ total_jobs \in 1..MAX_JOBS
         /\ \A k \in Good : k \in 1..total_jobs /\ slots[k].num >= 1
         /\ \A k \in 1..MAX_JOBS : k > total_jobs => slots[k] = Unused
         /\ chunk > 0 => job2 <= total_jobs
         /\ entry >= 1 /\ ~Starting
<1>a. total_jobs \in 0..MAX_JOBS /\ MAX_JOBS \in Nat
  BY DEF TableInv, TypeInv, Bounds
<1>1. /\ job \in 1..MAX_JOBS /\ job2 = job + 1 /\ total_jobs >= 1
      /\ chunk > 0 => job2 <= total_jobs
  BY DEF TableInv, Moving
<1>2. \A k \in Good : k \in 1..total_jobs /\ slots[k].num >= 1
  BY DEF TableInv, Shape, Whole, Good
<1>3. \A k \in 1..MAX_JOBS : k > total_jobs => slots[k] = Unused
  BY <1>a DEF TableInv, Shape
<1>4. entry >= 1 /\ ~Starting
  BY DEF TableInv, Finding, Starting
<1>5. QED
  BY <1>a, <1>1, <1>2, <1>3, <1>4

LEMMA ShiftSkipInv == ASSUME Bounds, TableInv, ShiftSkip PROVE TableInv'
<1>a. /\ slots \in [1..MAX_JOBS -> Jobs] /\ total_jobs \in 0..MAX_JOBS /\ MAX_JOBS \in Nat
      /\ TypeInv
  BY DEF TableInv, TypeInv, Bounds
<1>b. /\ at = "shifting" /\ job2 <= MAX_JOBS /\ chunk = 0 /\ slots[job2].num = 0
      /\ job' = job + 1 /\ job2' = job2 + 1
      /\ UNCHANGED <<slots, total_jobs, new, deadlist, at, chunk, entry, proc, jobs>>
  BY DEF ShiftSkip
<1>c. /\ job \in 1..MAX_JOBS /\ job2 = job + 1 /\ total_jobs \in 1..MAX_JOBS
      /\ \A k \in Good : k \in 1..total_jobs /\ slots[k].num >= 1
      /\ entry >= 1 /\ ~Starting
  BY <1>b, Shifting
<1>1. job >= total_jobs
  <2>1. SUFFICES ASSUME job < total_jobs PROVE FALSE
    BY <1>c
  <2>2. Gap = {job} /\ job2 \in 1..total_jobs
    BY <2>1, <1>b, <1>c DEF Gap
  <2>3. job2 \in Good
    BY <2>2, <1>c DEF Good
  <2>4. QED
    BY <2>3, <1>b, <1>c
<1>2. Gap = {total_jobs} /\ Gap' = {total_jobs}
  BY <1>1, <1>a, <1>b, <1>c DEF Gap
<1>3. Good' = Good /\ Known' = Known /\ ~Starting'
  BY <1>2, <1>b, <1>c DEF Good, Known, Starting
<1>4. TypeInv'
  BY <1>a, <1>b, <1>c DEF TypeInv
<1>5. Born' /\ Apart' /\ Shape' /\ Recorded'
  BY <1>3, <1>b DEF TableInv, Born, Apart, Shape, Whole, Recorded
<1>6. Adding' /\ Finding'
  BY <1>3, <1>b, <1>c DEF Adding, Finding
<1>7. Moving'
  <2>1. \A k \in Gap : slots[k] = Unused
    BY <1>b DEF TableInv, Moving
  <2>2. job' \in 1..MAX_JOBS /\ job2' = job' + 1 /\ total_jobs' >= 1 /\ chunk' = 0
    BY <1>a, <1>b, <1>c
  <2>3. QED
    BY <2>1, <2>2, <1>2, <1>b DEF Moving
<1>8. QED
  BY <1>4, <1>5, <1>6, <1>7 DEF TableInv

LEMMA ShiftClearInv == ASSUME Bounds, TableInv, ShiftClear PROVE TableInv'
<1>a. /\ slots \in [1..MAX_JOBS -> Jobs] /\ total_jobs \in 0..MAX_JOBS /\ MAX_JOBS \in Nat
      /\ TypeInv
  BY DEF TableInv, TypeInv, Bounds
<1>b. /\ at = "shifting" /\ chunk = 3 /\ chunk' = 0
      /\ slots' = [slots EXCEPT ![job2] = Unused]
      /\ job' = job + 1 /\ job2' = job2 + 1
      /\ UNCHANGED <<total_jobs, new, deadlist, at, entry, proc, jobs>>
  BY DEF ShiftClear
<1>c. /\ job \in 1..MAX_JOBS /\ job2 = job + 1 /\ total_jobs \in 1..MAX_JOBS
      /\ \A k \in Good : k \in 1..total_jobs
      /\ job2 <= total_jobs /\ entry >= 1 /\ ~Starting
      /\ \A k \in 1..MAX_JOBS : k > total_jobs => slots[k] = Unused
  BY <1>b, Shifting
<1>1. Gap = {job2} /\ Gap' = {job2}
  BY <1>b, <1>c DEF Gap
<1>2. Good' = Good /\ Known' = Known /\ ~Starting' /\ job2 \notin Good
  BY <1>1, <1>b, <1>c DEF Good, Known, Starting
<1>3. /\ slots'[job2] = Unused /\ \A k \in 1..MAX_JOBS : k # job2 => slots'[k] = slots[k]
      /\ slots' \in [1..MAX_JOBS -> Jobs]
  BY <1>a, <1>b, <1>c, UnusedType
<1>4. \A k \in Good : slots'[k] = slots[k]
  BY <1>2, <1>3, <1>a, <1>c
<1>5. TypeInv'
  BY <1>a, <1>b, <1>c, <1>3 DEF TypeInv
<1>6. Born' /\ Apart' /\ Recorded'
  BY <1>2, <1>4, <1>b DEF TableInv, Born, Apart, Recorded
<1>7. Shape'
  <2>1. \A k \in Good : Whole(slots[k])' /\ slots'[k].pids \in jobs'
    BY <1>4, <1>b DEF TableInv, Shape, Whole
  <2>2. \A k, l \in Good : k < l => slots'[k].num < slots'[l].num /\ slots'[k].pids # slots'[l].pids
    BY <1>4 DEF TableInv, Shape
  <2>3. \A k \in (total_jobs + 1)..MAX_JOBS : slots'[k] = Unused
    BY <1>3, <1>c
  <2>4. QED
    BY <1>2, <1>b, <2>1, <2>2, <2>3 DEF Shape
<1>8. Adding' /\ Finding'
  BY <1>2, <1>b, <1>c DEF Adding, Finding
<1>9. Moving'
  <2>1. job' \in 1..MAX_JOBS /\ job2' = job' + 1 /\ total_jobs' >= 1
    BY <1>a, <1>b, <1>c
  <2>2. \A k \in Gap' : slots'[k] = Unused
    BY <1>1, <1>3
  <2>3. QED
    BY <2>1, <2>2, <1>b DEF Moving
<1>10. QED
  BY <1>5, <1>6, <1>7, <1>8, <1>9 DEF TableInv

LEMMA ShiftEndInv == ASSUME Bounds, TableInv, ShiftEnd PROVE TableInv'
<1>a. /\ slots \in [1..MAX_JOBS -> Jobs] /\ total_jobs \in 0..MAX_JOBS /\ MAX_JOBS \in Nat
      /\ TypeInv /\ chunk \in 0..3
  BY DEF TableInv, TypeInv, Bounds
<1>b. /\ at = "shifting" /\ job2 > MAX_JOBS /\ total_jobs' = total_jobs - 1
      /\ at' = "checking" /\ entry' = entry + 1 /\ job' = 0 /\ job2' = 0
      /\ UNCHANGED <<slots, new, deadlist, chunk, proc, jobs>>
  BY DEF ShiftEnd
<1>c. /\ job \in 1..MAX_JOBS /\ job2 = job + 1 /\ total_jobs \in 1..MAX_JOBS
      /\ \A k \in 1..MAX_JOBS : k > total_jobs => slots[k] = Unused
      /\ chunk > 0 => job2 <= total_jobs
      /\ entry >= 1 /\ ~Starting
  BY <1>b, Shifting
<1>1. chunk = 0 /\ Gap = {total_jobs}
  <2>1. chunk = 0
    BY <1>a, <1>b, <1>c
  <2>2. QED
    BY <2>1, <1>a, <1>b, <1>c DEF Gap
<1>2. slots[total_jobs] = Unused
  BY <1>1, <1>b DEF TableInv, Moving
<1>3. Good = 1..(total_jobs - 1) /\ Good' = Good
  <2>1. Good = 1..(total_jobs - 1)
    BY <1>1, <1>c DEF Good
  <2>2. Good' = 1..(total_jobs - 1)
    BY <1>b DEF Good, Gap
  <2>3. QED
    BY <2>1, <2>2
<1>4. Table(slots', total_jobs', proc', jobs')
  <2>1. \A k \in 1..(total_jobs - 1) :
           /\ slots[k].num >= 1 /\ slots[k].count = Len(slots[k].pids)
           /\ slots[k].exits = Ends(proc, slots[k]) /\ slots[k].pids \in jobs
    BY <1>3 DEF TableInv, Shape, Whole
  <2>2. \A k, l \in 1..(total_jobs - 1) :
           k < l => slots[k].num < slots[l].num /\ slots[k].pids # slots[l].pids
    BY <1>3 DEF TableInv, Shape
  <2>3. \A k \in (total_jobs - 1 + 1)..MAX_JOBS : slots[k] = Unused
    BY <1>2, <1>c
  <2>4. QED
    BY <2>1, <2>2, <2>3, <1>b DEF Table
<1>5. TypeInv'
  BY <1>a, <1>b, <1>c DEF TypeInv, Places
<1>6. Born' /\ Apart' /\ Recorded'
  <2>1. Known' = Known /\ ~Starting'
    BY <1>b, <1>c DEF Known, Starting
  <2>2. QED
    BY <2>1, <1>3, <1>b DEF TableInv, Born, Apart, Recorded
<1>7. Adding'
  BY <1>b DEF Adding, Starting
<1>8. Finding'
  <2>1. entry \in Nat
    BY DEF TableInv, TypeInv
  <2>2. QED
    BY <2>1, <1>b, <1>c DEF Finding
<1>9. QED
  BY <1>1, <1>4, <1>5, <1>6, <1>7, <1>8, <1>b, WholeTable

\* Once a job is copied down, the gap is where it came from.
LEMMA ShiftCopyInv == ASSUME Bounds, TableInv, ShiftCopy PROVE TableInv'
<1>a. /\ slots \in [1..MAX_JOBS -> Jobs] /\ total_jobs \in 0..MAX_JOBS /\ MAX_JOBS \in Nat
      /\ TypeInv /\ chunk \in 0..3 /\ Unused.num = 0
  BY DEF TableInv, TypeInv, Bounds, Unused
<1>b. /\ at = "shifting" /\ job2 <= MAX_JOBS /\ (chunk > 0 \/ slots[job2].num # 0)
      /\ chunk < 3 /\ chunk' = chunk + 1
      /\ slots' = [slots EXCEPT ![job] = Copied(slots[job], slots[job2], chunk + 1)]
      /\ UNCHANGED <<total_jobs, new, deadlist, at, job, job2, entry, proc, jobs>>
  BY DEF ShiftCopy
<1>c. /\ job \in 1..MAX_JOBS /\ job2 = job + 1 /\ total_jobs \in 1..MAX_JOBS
      /\ \A k \in Good : k \in 1..total_jobs
      /\ \A k \in 1..MAX_JOBS : k > total_jobs => slots[k] = Unused
      /\ chunk > 0 => job2 <= total_jobs
      /\ entry >= 1 /\ ~Starting
  BY <1>b, Shifting
<1>1. job2 \in 1..total_jobs /\ job \in 1..total_jobs /\ job2 \in 1..MAX_JOBS
  <2>1. chunk > 0 \/ ~(job2 > total_jobs)
    <3>1. job2 > total_jobs => slots[job2].num = 0
      BY <1>a, <1>b, <1>c
    <3>2. QED
      BY <3>1, <1>b
  <2>2. QED
    BY <2>1, <1>a, <1>b, <1>c
<1>2. Gap = {job} /\ Good = (1..total_jobs) \ {job} /\ job2 \in Good
  <2>1. Gap = {job}
    BY <1>1, <1>b DEF Gap
  <2>2. QED
    BY <2>1, <1>1, <1>c DEF Good
<1>3. /\ slots'[job] = Copied(slots[job], slots[job2], chunk + 1)
      /\ \A k \in 1..MAX_JOBS : k # job => slots'[k] = slots[k]
      /\ slots[job] \in Jobs /\ slots[job2] \in Jobs /\ slots'[job2] = slots[job2]
  BY <1>a, <1>b, <1>c, <1>1
<1>d. chunk + 1 \in 1..3 /\ (chunk = 0 \/ chunk = 1 \/ chunk = 2)
  BY <1>a, <1>b
<1>4. /\ slots'[job] \in Jobs
      /\ slots'[job].num = slots'[job2].num /\ slots'[job].count = slots'[job2].count
      /\ chunk' > 1 => slots'[job].pids = slots'[job2].pids
      /\ chunk' = 3 => slots'[job] = slots[job2]
  <2>a. /\ \A c \in 1..3 : Copied(slots[job], slots[job2], c) \in Jobs
        /\ chunk > 0 => slots[job].num = slots[job2].num /\ slots[job].count = slots[job2].count
        /\ chunk > 1 => slots[job].pids = slots[job2].pids
    BY <1>3, <1>b, CopiedFields DEF TableInv, Moving
  <2>b. slots'[job] \in Jobs
    BY <2>a, <1>3, <1>d
  <2>1. CASE chunk = 0
    <3>1. LET r == Copied(slots[job], slots[job2], 1)
          IN r.num = slots[job2].num /\ r.count = slots[job2].count
      BY <1>3, CopiedFields
    <3>2. QED
      BY <3>1, <2>1, <2>b, <1>3, <1>b
  <2>2. CASE chunk = 1
    <3>1. LET r == Copied(slots[job], slots[job2], 2)
          IN r.pids = slots[job2].pids /\ r.num = slots[job].num /\ r.count = slots[job].count
      BY <1>3, CopiedFields
    <3>2. QED
      BY <3>1, <2>2, <2>a, <2>b, <1>3, <1>b
  <2>3. CASE chunk = 2
    <3>1. LET r == Copied(slots[job], slots[job2], 3)
          IN r.exits = slots[job2].exits /\ r.notify = slots[job2].notify
             /\ r.num = slots[job].num /\ r.count = slots[job].count /\ r.pids = slots[job].pids
      BY <1>3, CopiedFields
    <3>2. /\ slots'[job].exits = slots[job2].exits /\ slots'[job].notify = slots[job2].notify
          /\ slots'[job].num = slots[job2].num /\ slots'[job].count = slots[job2].count
          /\ slots'[job].pids = slots[job2].pids
      BY <3>1, <2>3, <2>a, <1>3
    <3>3. \A h, k \in Jobs : h.num = k.num /\ h.count = k.count /\ h.pids = k.pids
                             /\ h.exits = k.exits /\ h.notify = k.notify => h = k
      BY SameJob
    <3>4. slots'[job] = slots[job2]
      BY <3>2, <3>3, <2>b, <1>3
    <3>5. QED
      BY <3>4, <2>b, <1>3
  <2>4. QED
    BY <2>1, <2>2, <2>3, <1>d
<1>5. slots' \in [1..MAX_JOBS -> Jobs]
  BY <1>3, <1>4, <1>a, <1>b
<1>6. TypeInv'
  BY <1>5, <1>a, <1>b, <1>d DEF TypeInv
<1>7. Known' = Known /\ ~Starting'
  BY <1>b, <1>c DEF Known, Starting
<1>8. Born' /\ Apart'
  BY <1>7, <1>b, <1>c DEF TableInv, Born, Apart
<1>9. Adding' /\ Finding'
  BY <1>7, <1>b, <1>c DEF Adding, Finding
<1>10. Moving'
  <2>1. chunk' > 0 /\ (chunk' # 0)
    BY <1>b, <1>d
  <2>2. job' \in 1..MAX_JOBS /\ job2' = job' + 1 /\ total_jobs' >= 1 /\ job2' <= total_jobs'
    BY <1>1, <1>b, <1>c
  <2>3. QED
    BY <2>1, <2>2, <1>4, <1>b DEF Moving
<1>11. \A k \in (total_jobs + 1)..MAX_JOBS : slots'[k] = Unused
  BY <1>1, <1>3, <1>a, <1>c
<1>e. \A k \in Good : Whole(slots[k]) /\ slots[k].pids \in jobs /\ k \in 1..MAX_JOBS /\ k # job
  BY <1>2, <1>a, <1>c DEF TableInv, Shape
<1>f. \A k, l \in Good : k < l => slots[k].num < slots[l].num /\ slots[k].pids # slots[l].pids
  BY DEF TableInv, Shape
<1>g. \A k : Whole(slots[k])' <=> (slots'[k].num >= 1 /\ slots'[k].count = Len(slots'[k].pids)
                                   /\ slots'[k].exits = Ends(proc, slots'[k]))
  BY <1>b DEF Whole
<1>12. Shape' /\ Recorded'
  <2>1. CASE chunk' # 3
    <3>1. Gap' = {job} /\ Good' = Good
      <4>1. Gap' = {job}
        BY <1>1, <1>b, <2>1 DEF Gap
      <4>2. QED
        BY <4>1, <1>2, <1>b DEF Good
    <3>2. \A k \in Good : slots'[k] = slots[k]
      BY <1>3, <1>e
    <3>3. \A k \in Good : Whole(slots[k])' /\ slots'[k].pids \in jobs
      BY <3>2, <1>e, <1>g DEF Whole
    <3>4. \A k, l \in Good : k < l => slots'[k].num < slots'[l].num /\ slots'[k].pids # slots'[l].pids
      BY <3>2, <1>f
    <3>5. Shape'
      BY <3>1, <3>3, <3>4, <1>11, <1>b DEF Shape
    <3>6. Recorded'
      BY <3>1, <3>2, <1>b DEF TableInv, Recorded
    <3>7. QED
      BY <3>5, <3>6
  <2>2. CASE chunk' = 3
    <3> DEFINE from(k) == IF k = job THEN job2 ELSE k
    <3>1. Good' = (1..total_jobs) \ {job2}
      <4>1. Gap' = {job2}
        BY <1>b, <2>2 DEF Gap
      <4>2. QED
        BY <4>1, <1>b DEF Good
    <3>2. \A k \in Good' : from(k) \in Good /\ slots'[k] = slots[from(k)]
      <4>1. SUFFICES ASSUME NEW k \in (1..total_jobs) \ {job2}
                     PROVE  from(k) \in Good /\ slots'[k] = slots[from(k)]
        BY <3>1
      <4>2. k \in 1..MAX_JOBS
        BY <1>a
      <4>3. QED
        BY <4>2, <1>2, <1>3, <1>4, <2>2
    <3>3. \A k, l \in Good' : k < l => from(k) < from(l)
      BY <3>1, <1>1, <1>c
    <3>4. \A k \in Good : \E l \in Good' : from(l) = k
      <4>1. SUFFICES ASSUME NEW k \in Good PROVE \E l \in (1..total_jobs) \ {job2} : from(l) = k
        BY <3>1
      <4>2. CASE k = job2
        BY <4>2, <1>1, <1>c
      <4>3. CASE k # job2
        BY <4>3, <1>2
      <4>4. QED
        BY <4>2, <4>3
    <3> HIDE DEF from
    <3>5. \A k \in Good' : Whole(slots[k])' /\ slots'[k].pids \in jobs
      <4>1. SUFFICES ASSUME NEW k, k \in Good' PROVE Whole(slots[k])' /\ slots'[k].pids \in jobs
        OBVIOUS
      <4>2. from(k) \in Good /\ slots'[k] = slots[from(k)]
        BY <3>2, <4>1
      <4>3. Whole(slots[from(k)]) /\ slots[from(k)].pids \in jobs
        BY <4>2, <1>e
      <4>4. QED
        BY <4>2, <4>3, <1>g DEF Whole
    <3>6. \A k, l \in Good' : k < l => slots'[k].num < slots'[l].num /\ slots'[k].pids # slots'[l].pids
      BY <3>2, <3>3, <1>f
    <3>7. Shape'
      BY <3>5, <3>6, <1>11, <1>b DEF Shape
    <3>8. Recorded'
      <4>1. SUFFICES ASSUME NEW ps \in jobs, NEW i \in DOMAIN ps, proc[ps[i]] = "running"
                     PROVE  \E k \in Good' : slots'[k].pids = ps
        BY <1>b DEF Recorded
      <4>2. PICK k \in Good : slots[k].pids = ps
        BY <4>1 DEF TableInv, Recorded
      <4>3. PICK l \in Good' : from(l) = k
        BY <3>4
      <4>4. QED
        BY <3>2, <4>2, <4>3
    <3>9. QED
      BY <3>7, <3>8
  <2>3. QED
    BY <2>1, <2>2
<1>13. QED
  BY <1>6, <1>8, <1>9, <1>10, <1>12 DEF TableInv

----------------------------------------------------------------------------
LEMMA NextTableInv ==
  ASSUME Bounds, Lapses = {}, TableInv, [Next]_racing
  PROVE  TableInv'
<1>1. ASSUME NEW p \in Pids, SIGCHLD_handler(p) PROVE TableInv'
  BY <1>1, HandlerInv
<1>2. ASSUME NEW n \in 1..JobSize, NEW ended \in SUBSET (1..n), Launch(n, ended) PROVE TableInv'
  BY <1>2, LaunchInv
<1>3. ASSUME NEW k \in DOMAIN slots, Notify(k) \/ Disown(k) PROVE TableInv'
  BY <1>3, NotifyInv, DisownInv
<1>4. CASE AddFind \/ AddCopy \/ AddNumber
  BY <1>4, AddFindInv, AddCopyInv, AddNumberInv
<1>5. CASE Check \/ CheckEntry \/ CheckRunning \/ CheckReset
  BY <1>5, CheckInv
<1>6. CASE Remove \/ ShiftSkip \/ ShiftCopy \/ ShiftClear \/ ShiftEnd
  BY <1>6, RemoveInv, ShiftSkipInv, ShiftCopyInv, ShiftClearInv, ShiftEndInv
<1>7. CASE UNCHANGED racing
  <2>1. UNCHANGED <<slots, total_jobs, new, deadlist, at, job, job2, chunk, entry, proc, jobs>>
    BY <1>7 DEF racing, place
  <2>2. Gap' = Gap /\ Good' = Good /\ Known' = Known /\ Starting' = Starting
    BY <2>1 DEF Gap, Good, Known, Starting
  <2>3. \A p : Found(p)' = Found(p)
    BY <2>1 DEF Found, Listing
  <2>4. TypeInv' /\ Born' /\ Recorded'
    BY <2>1, <2>2 DEF TableInv, TypeInv, Born, Recorded
  <2>5. Apart' /\ Shape'
    BY <2>1, <2>2 DEF TableInv, Apart, Shape, Whole
  <2>6. Adding' /\ Moving'
    BY <2>1, <2>2 DEF TableInv, Adding, Moving
  <2>7. Finding'
    BY <2>1, <2>3 DEF TableInv, Finding
  <2>8. QED
    BY <2>4, <2>5, <2>6, <2>7 DEF TableInv
<1>8. QED
  BY <1>1, <1>2, <1>3, <1>4, <1>5, <1>6, <1>7 DEF Next

LEMMA TableInvKeeps == ASSUME Bounds, TableInv PROVE TableKept
<1>1. SUFFICES ASSUME at = "idle" PROVE TableKept
  BY DEF TableKept
<1>a. /\ slots \in [1..MAX_JOBS -> Jobs] /\ total_jobs \in 0..MAX_JOBS /\ MAX_JOBS \in Nat
      /\ DOMAIN slots = 1..MAX_JOBS
  BY DEF TableInv, TypeInv, Bounds
<1>2. Good = 1..total_jobs /\ Table(slots, total_jobs, proc, jobs)
  BY <1>1, IdleTable
<1>3. Inhabited = 1..total_jobs
  <2>1. \A k \in 1..total_jobs : slots[k].num >= 1
    BY <1>2 DEF Table
  <2>2. \A k \in (total_jobs + 1)..MAX_JOBS : slots[k].num = 0
    BY <1>2 DEF Table, Unused
  <2>3. QED
    BY <2>1, <2>2, <1>a DEF Inhabited
<1>4. \A k, l \in Inhabited : k < l => slots[k].num < slots[l].num /\ slots[k].pids # slots[l].pids
  BY <1>2, <1>3 DEF Table
<1>5. \A k \in Inhabited : /\ slots[k].pids \in jobs /\ slots[k].count = Len(slots[k].pids)
                           /\ slots[k].exits = Over(slots[k])
  BY <1>2, <1>3 DEF Table, Over, Ends
<1>6. \A ps \in jobs : (\E i \in DOMAIN ps : proc[ps[i]] = "running") =>
            \E k \in Inhabited : slots[k].pids = ps
  BY <1>2, <1>3 DEF TableInv, Recorded
<1>7. QED
  BY <1>3, <1>4, <1>5, <1>6 DEF TableKept

(***************************************************************************)
(* Whatever the size of the table, the number of processes and the length  *)
(* of the pipelines: if SIGCHLD does not come in the middle of memcpy(),   *)
(* no process ends before add_job() has copied its job and no job with the *)
(* notify flag is removed while the table changes, then wherever else the  *)
(* handler runs the table is a prefix of distinct jobs in the order of     *)
(* their numbers, each knows which of its processes have ended, and none   *)
(* that still runs is lost (add_job(), remove_job(), jobs.c).              *)
(***************************************************************************)
THEOREM TableIsKept ==
  ASSUME Bounds, Lapses = {}
  PROVE  Spec => []TableKept
<1>1. Init => TableInv
  BY InitTableInv
<1>2. TableInv /\ [Next]_racing => TableInv'
  BY NextTableInv
<1>3. TableInv => TableKept
  BY TableInvKeeps
<1>4. QED
  BY <1>1, <1>2, <1>3, PTL DEF Spec
=============================================================================
