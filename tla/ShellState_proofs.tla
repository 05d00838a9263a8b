------------------------- MODULE ShellState_proofs -------------------------
(***************************************************************************)
(* The invariants of ShellState's parts, from the proofs about each part;  *)
(* those of the history are here.                                          *)
(***************************************************************************)
EXTENDS ShellState, SequenceTheorems, WellFoundedInduction, TLAPS

T == INSTANCE Traps_proofs
J == INSTANCE TableRaces_proofs

(* TrapTable and T are the same module with the same substitution.          *)
LEMMA SameTraps ==
  /\ TrapTable!Init = T!Init
  /\ TrapTable!Next = T!Next
  /\ TrapTable!NeverRecursive = T!NeverRecursive
  /\ TrapTable!RightTrap = T!RightTrap
  /\ TrapTable!NothingOwed = T!NothingOwed
<1>1. TrapTable!Init = T!Init
  BY DEF TrapTable!Init, T!Init, TrapTable!Program, T!Program, TrapTable!Conditions,
      T!Conditions, TrapTable!Special, T!Special, TrapTable!EXIT, T!EXIT,
      TrapTable!ERR, T!ERR, TrapTable!CHLD, T!CHLD, TrapTable!DEBUG, T!DEBUG
<1>2. TrapTable!Next = T!Next
  BY DEF TrapTable!Next, T!Next, TrapTable!vars, T!vars, TrapTable!EXIT, T!EXIT,
      TrapTable!ERR, T!ERR, TrapTable!CHLD, T!CHLD, TrapTable!DEBUG, T!DEBUG,
      TrapTable!Special, T!Special, TrapTable!Conditions, T!Conditions,
      TrapTable!Program, T!Program, TrapTable!Trap, T!Trap, TrapTable!WaitOf, T!WaitOf,
      TrapTable!PendingAt, T!PendingAt, TrapTable!Over, T!Over, TrapTable!Top, T!Top,
      TrapTable!Without, T!Without, TrapTable!Running, T!Running, TrapTable!Bit, T!Bit,
      TrapTable!Starts, T!Starts, TrapTable!TrapHandlerUnguarded,
      T!TrapHandlerUnguarded, TrapTable!TrapHandler, T!TrapHandler, TrapTable!Idle,
      T!Idle, TrapTable!SetTrap, T!SetTrap, TrapTable!Kill, T!Kill, TrapTable!Deliver,
      T!Deliver, TrapTable!Command, T!Command, TrapTable!Failure, T!Failure,
      TrapTable!JobEnds, T!JobEnds, TrapTable!StartWait, T!StartWait,
      TrapTable!EndWait, T!EndWait, TrapTable!NextBit, T!NextBit, TrapTable!DoPending,
      T!DoPending, TrapTable!BitDone, T!BitDone, TrapTable!EndTrap, T!EndTrap,
      TrapTable!Exit, T!Exit, TrapTable!Hangup, T!Hangup, TrapTable!Done, T!Done
<1>3. TrapTable!NeverRecursive = T!NeverRecursive
  BY DEF TrapTable!NeverRecursive, T!NeverRecursive
<1>4. TrapTable!RightTrap = T!RightTrap
  BY DEF TrapTable!RightTrap, T!RightTrap, TrapTable!Bit, T!Bit, TrapTable!Over, T!Over
<1>5. TrapTable!NothingOwed = T!NothingOwed
  BY DEF TrapTable!NothingOwed, T!NothingOwed, TrapTable!EXIT, T!EXIT, TrapTable!Over, T!Over,
      TrapTable!Program, T!Program
<1>6. QED
  BY <1>1, <1>2, <1>3, <1>4, <1>5

(* A behaviour of the part "traps" starts and steps as Traps does.          *)
LEMMA InTraps ==
  /\ Init /\ part = "traps" => T!Init
  /\ [Next]_vars => part' = part
  /\ [Next]_vars /\ part = "traps" => [T!Next]_(T!vars)
<1>1. Init /\ part = "traps" => T!Init
  BY SameTraps DEF Init
<1>2. [Next]_vars => part' = part
  BY DEF Next, vars
<1>3. UNCHANGED vars => UNCHANGED T!vars
  BY DEF vars, traps, T!vars
<1>4. Next /\ part = "traps" => T!Next
  BY SameTraps DEF Next
<1>5. QED
  BY <1>1, <1>2, <1>3, <1>4

LEMMA SignalsNumbered == T!Numbered
  BY ShellStateAssumption DEF T!Numbered

(* A trap does not run inside itself (builtins/trap.c:202).                 *)
THEOREM OneTrapEach == ASSUME "nested" \notin Touchy PROVE Spec => []NeverRecursive
<1> DEFINE Inv == part = "traps" => T!Stack /\ T!Single
<1>1. Init => Inv
  BY InTraps, T!InitTraps
<1>2. Inv /\ [Next]_vars => Inv'
  BY InTraps, SignalsNumbered, T!NextStack, T!NextSingle
<1>3. Inv => NeverRecursive
  BY SameTraps, T!SingleIsNever DEF NeverRecursive
<1>4. QED
  BY <1>1, <1>2, <1>3, PTL DEF Spec

(* A bit of pending_traps belongs to a signal whose trap has not ended      *)
(* (builtins/trap.c:211-254).                                               *)
THEOREM BitsAreRight == ASSUME "chld" \notin Touchy PROVE Spec => []RightTrap
<1> DEFINE Inv == part = "traps" => T!Stack /\ T!BitsOwed
<1>1. Init => Inv
  BY InTraps, T!InitTraps
<1>2. Inv /\ [Next]_vars => Inv'
  BY InTraps, SignalsNumbered, T!NextStack, T!NextBitsOwed
<1>3. Inv => RightTrap
  BY SameTraps, T!OwedIsRight DEF RightTrap
<1>4. QED
  BY <1>1, <1>2, <1>3, PTL DEF Spec

(* However signals, waits and traps are nested, back in its program the     *)
(* shell owes no trap (builtins/trap.c:188-258).                            *)
THEOREM NoneForgotten == ASSUME Touchy = {} PROVE Spec => []NothingOwed
<1> DEFINE Inv == part = "traps" => T!Stack /\ T!Single /\ T!OwedIsDue
<1>1. Init => Inv
  BY InTraps, T!InitTraps
<1>2. Inv /\ [Next]_vars => Inv'
  <2>1. T!Calm
    BY DEF T!Calm
  <2>2. QED
    BY <2>1, InTraps, SignalsNumbered, T!NextStack, T!NextSingle, T!NextOwedIsDue
<1>3. Inv => NothingOwed
  BY SameTraps, SignalsNumbered, T!DueIsNothing DEF NothingOwed
<1>4. QED
  BY <1>1, <1>2, <1>3, PTL DEF Spec

(* Both count with the Cardinality of FiniteSets.                            *)
LEMMA SameCount == \A S : JobsTable!Cardinality(S) = J!Cardinality(S)
  BY DEF JobsTable!Cardinality, J!Cardinality

(* JobsTable and J are the same module with the same substitution.          *)
LEMMA SameTable ==
  /\ JobsTable!Init = J!Init
  /\ JobsTable!Next = J!Next
  /\ JobsTable!TableKept = J!TableKept
<1>1. JobsTable!Init = J!Init
  BY DEF JobsTable!Init, J!Init, JobsTable!Pids, J!Pids, JobsTable!Unused, J!Unused
<1>2. JobsTable!Next = J!Next
  <2>a. \A j : JobsTable!Complete(j) = J!Complete(j)
    BY SameCount DEF JobsTable!Complete, J!Complete
  <2>b. JobsTable!Started = J!Started
    BY SameCount DEF JobsTable!Started, J!Started, JobsTable!Pids, J!Pids
  <2>c. \A p : JobsTable!Found(p) = J!Found(p)
    BY DEF JobsTable!Found, J!Found, JobsTable!Lowest, J!Lowest, JobsTable!Listing,
        J!Listing
  <2>1. \A p : JobsTable!SIGCHLD_handler(p) = J!SIGCHLD_handler(p)
    <3>1. \A p, k : JobsTable!HeldBack(p, k) = J!HeldBack(p, k)
      BY DEF JobsTable!HeldBack, J!HeldBack
    <3>2. \A t, k : JobsTable!Removed(t, k) = J!Removed(t, k)
      BY DEF JobsTable!Removed, J!Removed, JobsTable!Unused, J!Unused
    <3>3. \A j, p : JobsTable!Marked(j, p) = J!Marked(j, p)
      BY DEF JobsTable!Marked, J!Marked
    <3>4. QED
      BY <2>a, <2>c, <3>1, <3>2, <3>3
      DEF JobsTable!SIGCHLD_handler, J!SIGCHLD_handler, JobsTable!place, J!place
  <2>2. \A n, ended : JobsTable!Launch(n, ended) = J!Launch(n, ended)
    BY <2>b
    DEF JobsTable!Launch, J!Launch, JobsTable!Pids, J!Pids, JobsTable!Unused, J!Unused
  <2>3. JobsTable!AddFind = J!AddFind
    BY DEF JobsTable!AddFind, J!AddFind, JobsTable!Unused, J!Unused, JobsTable!Lowest,
        J!Lowest
  <2>4. JobsTable!AddCopy = J!AddCopy
    BY DEF JobsTable!AddCopy, J!AddCopy, JobsTable!Copied, J!Copied
  <2>5. JobsTable!AddNumber = J!AddNumber
    BY DEF JobsTable!AddNumber, J!AddNumber, JobsTable!Unused, J!Unused
  <2>6. \A k : JobsTable!Notify(k) = J!Notify(k)
    BY DEF JobsTable!Notify, J!Notify, JobsTable!place, J!place
  <2>7. \A k : JobsTable!Disown(k) = J!Disown(k)
    BY DEF JobsTable!Disown, J!Disown, JobsTable!place, J!place, JobsTable!Removed,
        J!Removed, JobsTable!Unused, J!Unused
  <2>8. JobsTable!Check = J!Check
    BY DEF JobsTable!Check, J!Check
  <2>9. JobsTable!CheckEntry = J!CheckEntry
    BY DEF JobsTable!CheckEntry, J!CheckEntry, JobsTable!Found, J!Found,
        JobsTable!Lowest, J!Lowest, JobsTable!Listing, J!Listing
  <2>10. JobsTable!CheckRunning = J!CheckRunning
    BY <2>a DEF JobsTable!CheckRunning, J!CheckRunning
  <2>11. JobsTable!CheckReset = J!CheckReset
    BY DEF JobsTable!CheckReset, J!CheckReset
  <2>12. JobsTable!Remove = J!Remove
    BY <2>a, <2>c DEF JobsTable!Remove, J!Remove, JobsTable!Unused, J!Unused
  <2>13. JobsTable!ShiftSkip = J!ShiftSkip
    BY DEF JobsTable!ShiftSkip, J!ShiftSkip
  <2>14. JobsTable!ShiftCopy = J!ShiftCopy
    BY DEF JobsTable!ShiftCopy, J!ShiftCopy, JobsTable!Copied, J!Copied
  <2>15. JobsTable!ShiftClear = J!ShiftClear
    BY DEF JobsTable!ShiftClear, J!ShiftClear, JobsTable!Unused, J!Unused
  <2>16. JobsTable!ShiftEnd = J!ShiftEnd
    BY DEF JobsTable!ShiftEnd, J!ShiftEnd
  <2>17. JobsTable!Pids = J!Pids
    BY DEF JobsTable!Pids, J!Pids
  <2>18. QED
    BY <2>1, <2>2, <2>3, <2>4, <2>5, <2>6, <2>7, <2>8, <2>9, <2>10, <2>11, <2>12,
       <2>13, <2>14, <2>15, <2>16, <2>17 DEF JobsTable!Next, J!Next
<1>3. JobsTable!TableKept = J!TableKept
  BY DEF JobsTable!TableKept, J!TableKept, JobsTable!Inhabited, J!Inhabited,
      JobsTable!Over, J!Over
<1>4. QED
  BY <1>1, <1>2, <1>3

(* A behaviour of the part "table" starts and steps as TableRaces does.     *)
LEMMA InTable ==
  /\ Init /\ part = "table" => J!Init
  /\ [Next]_vars => part' = part
  /\ [Next]_vars /\ part = "table" => [J!Next]_(J!racing)
<1>1. Init /\ part = "table" => J!Init
  BY SameTable DEF Init
<1>2. [Next]_vars => part' = part
  BY DEF Next, vars
<1>3. UNCHANGED vars => UNCHANGED J!racing
  BY DEF vars, racing, J!racing, J!place
<1>4. Next /\ part = "table" => J!Next
  BY SameTable DEF Next
<1>5. QED
  BY <1>1, <1>2, <1>3, <1>4

LEMMA TableBounds == J!Bounds
  BY ShellStateAssumption DEF J!Bounds

(* Wherever SIGCHLD_handler() comes between two steps of add_job() and       *)
(* remove_job(), the jobs table keeps every running job, in order, with the *)
(* right processes marked (jobs.c:1495, 1606).                               *)
THEOREM TableIsKept == ASSUME Lapses = {} PROVE Spec => []TableKept
<1> DEFINE Inv == part = "table" => J!TableInv
<1>1. Init => Inv
  BY InTable, TableBounds, J!InitTableInv
<1>2. Inv /\ [Next]_vars => Inv'
  BY InTable, TableBounds, J!NextTableInv
<1>3. Inv => TableKept
  BY SameTable, TableBounds, J!TableInvKeeps DEF TableKept
<1>4. QED
  BY <1>1, <1>2, <1>3, PTL DEF Spec

-----------------------------------------------------------------------------
(* The history (builtins/history.c).                                        *)

HistoryEntry == [cmd : Commands, own : BOOLEAN]

\* n entries of h are from the file, the s others are of this session.
Counted(h, n, s) ==
  /\ h \in Seq(HistoryEntry)
  /\ n \in 0 .. Len(h) /\ s = Len(h) - n
  /\ \A i \in 1 .. Len(h) : h[i].own <=> i > n

HistoryInv ==
  /\ Counted(cmd_history, hist_file_count, hist_cmds_this_session)
  /\ file \in Seq(Commands)

LEMMA CountedIs ==
  /\ DOMAIN cmd_history = 1 .. Len(cmd_history) /\ HistoryInv => CmdHistory!UnsavedKnown
  /\ HistoryInv => CmdHistory!Own = {i \in 1 .. Len(cmd_history) : i > hist_file_count}
  BY DEF HistoryInv, Counted, CmdHistory!UnsavedKnown, CmdHistory!Own

\* What is left of a list without its entries from i to j - 1.
Cut(h, i, j) == SubSeq(h, 1, i - 1) \o SubSeq(h, j, Len(h))

LEMMA CutIs ==
  ASSUME NEW E, NEW h \in Seq(E), NEW i \in Nat \ {0}, NEW j \in Nat, i <= j, j <= Len(h) + 1
  PROVE  /\ Cut(h, i, j) \in Seq(E)
         /\ Len(Cut(h, i, j)) = Len(h) - (j - i)
         /\ \A k \in 1 .. Len(Cut(h, i, j)) :
               Cut(h, i, j)[k] = IF k < i THEN h[k] ELSE h[k + (j - i)]
<1> DEFINE f == SubSeq(h, 1, i - 1)
           t == SubSeq(h, j, Len(h))
           g == f \o t
<1>0. Len(h) \in Nat /\ \A k \in 1 .. Len(h) : h[k] \in E
  OBVIOUS
<1>1. f \in Seq(E) /\ Len(f) = i - 1 /\ \A k \in 1 .. i - 1 : f[k] = h[k]
  BY <1>0
<1>2. /\ t \in Seq(E) /\ Len(t) = Len(h) + 1 - j
      /\ \A k \in 1 .. Len(h) + 1 - j : t[k] = h[j + k - 1]
  BY <1>0
<1> HIDE DEF f, t
<1>3. g \in Seq(E) /\ Len(g) = Len(f) + Len(t)
  BY <1>1, <1>2, ConcatProperties
<1>4. ASSUME NEW k \in 1 .. Len(g) PROVE g[k] = IF k < i THEN h[k] ELSE h[k + (j - i)]
  <2>1. CASE k < i
    <3>1. k \in 1 .. Len(f) /\ k \in 1 .. i - 1
      BY <1>1, <2>1
    <3>2. QED
      BY <1>1, <1>2, <2>1, <3>1
  <2>2. CASE ~(k < i)
    <3>1. k - Len(f) \in 1 .. Len(t) /\ k > Len(f) /\ k - Len(f) = k - (i - 1)
      BY <1>1, <1>2, <1>3, <2>2
    <3>2. g[k] = t[k - Len(f)]
      BY <1>1, <1>2, <3>1
    <3>3. t[k - Len(f)] = h[j + (k - Len(f)) - 1]
      BY <1>1, <1>2, <3>1
    <3>4. j + (k - Len(f)) - 1 = k + (j - i)
      BY <1>1
    <3>5. QED
      BY <2>2, <3>2, <3>3, <3>4
  <2>3. QED
    BY <2>1, <2>2
<1>5. Len(f) + Len(t) = Len(h) - (j - i)
  BY <1>0, <1>1, <1>2
<1>6. QED
  BY <1>3, <1>4, <1>5 DEF Cut, f, t

\* Entries of the session can go, if they are counted.
LEMMA CutCounted ==
  ASSUME NEW h, NEW n, NEW s, Counted(h, n, s), NEW i \in Nat \ {0}, NEW j \in Nat,
         i <= j, j <= Len(h) + 1, n < i
  PROVE  /\ Counted(Cut(h, i, j), n, s - (j - i)) /\ Len(Cut(h, i, j)) = Len(h) - (j - i)
         /\ \A k \in 1 .. i - 1 : k <= Len(Cut(h, i, j)) /\ Cut(h, i, j)[k] = h[k]
<1> DEFINE g == Cut(h, i, j)
<1>1. /\ h \in Seq(HistoryEntry) /\ n \in 0 .. Len(h) /\ s = Len(h) - n
      /\ \A k \in 1 .. Len(h) : h[k].own <=> k > n
  BY DEF Counted
<1>2. /\ g \in Seq(HistoryEntry) /\ Len(g) = Len(h) - (j - i)
      /\ \A k \in 1 .. Len(g) : g[k] = IF k < i THEN h[k] ELSE h[k + (j - i)]
  BY <1>1, CutIs
<1> HIDE DEF g
<1>3. Len(h) \in Nat /\ Len(g) \in Nat
  BY <1>1, <1>2
<1>4. ASSUME NEW k \in 1 .. Len(g) PROVE g[k].own <=> k > n
  <2>1. CASE k < i
    <3>1. k \in 1 .. Len(h) /\ g[k] = h[k]
      BY <1>2, <1>3, <2>1
    <3>2. QED
      BY <1>1, <3>1
  <2>2. CASE ~(k < i)
    <3>1. k + (j - i) \in 1 .. Len(h) /\ g[k] = h[k + (j - i)] /\ k > n /\ k + (j - i) > n
      BY <1>1, <1>2, <1>3, <2>2
    <3>2. QED
      BY <1>1, <3>1
  <2>3. QED
    BY <2>1, <2>2
<1>5. n \in 0 .. Len(g) /\ s - (j - i) = Len(g) - n
  BY <1>1, <1>2, <1>3
<1>6. Counted(g, n, s - (j - i))
  BY <1>2, <1>4, <1>5 DEF Counted
<1>7. \A k \in 1 .. i - 1 : k <= Len(g) /\ g[k] = h[k]
  BY <1>2, <1>3
<1>8. QED
  BY <1>2, <1>6, <1>7 DEF g

LEMMA Least == ASSUME NEW S, S \subseteq Nat, S # {} PROVE \E m \in S : \A k \in S : m <= k
<1>1. PICK m \in S : \A k \in S : ~(<<k, m>> \in OpToRel(<, Nat))
  BY WFMin, NatLessThanWellFounded
<1>2. \A k \in S : k \in Nat /\ m \in Nat /\ ~(k < m)
  BY <1>1 DEF OpToRel
<1>3. QED
  BY <1>2

LEMMA Induction ==
  ASSUME NEW S \in SUBSET Nat, 0 \in S, \A k \in Nat : k \in S => k + 1 \in S
  PROVE  S = Nat
<1> DEFINE Rest == Nat \ S
<1>1. SUFFICES ASSUME Rest # {} PROVE FALSE
  OBVIOUS
<1>2. PICK m \in Rest : \A k \in Rest : m <= k
  <2> HIDE DEF Rest
  <2>1. Rest \subseteq Nat
    BY DEF Rest
  <2>2. QED
    BY <1>1, <2>1, Least
<1>3. m # 0 /\ m - 1 \in Nat /\ m - 1 \notin S
  BY <1>2
<1>4. QED
  BY <1>2, <1>3

\* Entries of h that are not equal to c are in g.
OthersStay(h, g, c) ==
  \A i \in 1 .. Len(h) : ~CmdHistory!Same(h[i].cmd, c) => \E l \in 1 .. Len(g) : g[l] = h[i]

LEMMA CutOthersStay ==
  ASSUME NEW h, NEW g \in Seq(HistoryEntry), NEW c, OthersStay(h, g, c),
         NEW i \in 1 .. Len(g), CmdHistory!Same(g[i].cmd, c)
  PROVE  OthersStay(h, Cut(g, i, i + 1), c)
<1> DEFINE g2 == Cut(g, i, i + 1)
<1>1. Len(g) \in Nat
  OBVIOUS
<1>2. /\ Len(g2) = Len(g) - (i + 1 - i)
      /\ \A k \in 1 .. Len(g2) : g2[k] = IF k < i THEN g[k] ELSE g[k + (i + 1 - i)]
  <2>1. i \in Nat \ {0} /\ i + 1 \in Nat /\ i <= i + 1 /\ i + 1 <= Len(g) + 1
    BY <1>1
  <2>2. QED
    BY <2>1, CutIs
<1> HIDE DEF g2
<1>3. Len(g2) = Len(g) - 1 /\ \A k \in 1 .. Len(g2) : g2[k] = IF k < i THEN g[k] ELSE g[k + 1]
  <2> DEFINE d == i + 1 - i
  <2>1. d = 1
    BY <1>1
  <2> HIDE DEF d
  <2>2. Len(g2) = Len(g) - d /\ \A k \in 1 .. Len(g2) : g2[k] = IF k < i THEN g[k] ELSE g[k + d]
    BY <1>2 DEF d
  <2>3. QED
    BY <2>1, <2>2
<1>4. ASSUME NEW m \in 1 .. Len(h), ~CmdHistory!Same(h[m].cmd, c) PROVE \E l \in 1 .. Len(g2) : g2[l] = h[m]
  <2>1. PICK l \in 1 .. Len(g) : g[l] = h[m]
    BY <1>4 DEF OthersStay
  <2>2. l # i
    BY <1>4, <2>1
  <2>3. CASE l < i
    <3>1. l \in 1 .. Len(g2) /\ g2[l] = g[l]
      BY <1>1, <1>3, <2>3
    <3>2. QED
      BY <2>1, <3>1
  <2>4. CASE l > i
    <3>1. l - 1 \in 1 .. Len(g2) /\ ~(l - 1 < i) /\ (l - 1) + 1 = l
      BY <1>1, <1>3, <2>4
    <3>2. g2[l - 1] = g[l]
      BY <1>3, <3>1
    <3>3. QED
      BY <2>1, <3>1, <3>2
  <2>5. QED
    BY <2>2, <2>3, <2>4
<1>5. QED
  BY <1>4 DEF OthersStay, g2

\* The loop of save_to_history() over the entries, from the newest: g is what is left
\* of h when it comes to the k-th.
Examined(h, c, g, k) ==
  IF CmdHistory!Same(h.list[Len(h.list) + 1 - k].cmd, c)
  THEN CmdHistory!Removed(g, Len(h.list) + 1 - k) ELSE g

\* a[k] is what is left after k rounds.
IsLoop(h, c, a, n) == a = [k \in 0 .. n |-> IF k = 0 THEN h ELSE Examined(h, c, a[k - 1], k)]

LEMMA LoopRuns == ASSUME NEW h, NEW c, NEW n \in Nat PROVE \E a : IsLoop(h, c, a, n)
<1> DEFINE Runs(k) == \E a : a = [l \in 0 .. k |-> IF l = 0 THEN h ELSE Examined(h, c, a[l - 1], l)]
           S == {k \in Nat : Runs(k)}
<1>1. Runs(0)
  <2> DEFINE a == [l \in 0 .. 0 |-> h]
  <2>1. a = [l \in 0 .. 0 |-> IF l = 0 THEN h ELSE Examined(h, c, a[l - 1], l)]
    OBVIOUS
  <2> HIDE DEF a
  <2>2. QED
    BY <2>1
<1>2. ASSUME NEW k \in Nat, Runs(k) PROVE Runs(k + 1)
  <2>1. PICK a : a = [l \in 0 .. k |-> IF l = 0 THEN h ELSE Examined(h, c, a[l - 1], l)]
    BY <1>2
  <2> DEFINE y == Examined(h, c, a[k], k + 1)
             b == [l \in 0 .. k + 1 |-> IF l = k + 1 THEN y ELSE a[l]]
  <2>2. \A l \in 0 .. k : b[l] = a[l]
    OBVIOUS
  <2>3. \A l \in 0 .. k + 1 : b[l] = IF l = 0 THEN h ELSE Examined(h, c, b[l - 1], l)
    <3>1. TAKE l \in 0 .. k + 1
    <3>2. CASE l = k + 1
      <4>1. k \in 0 .. k /\ l - 1 = k /\ l # 0 /\ b[l] = y
        BY <3>2
      <4>2. b[l - 1] = a[k]
        BY <2>2, <4>1
      <4> HIDE DEF b
      <4>3. QED
        BY <3>2, <4>1, <4>2
    <3>3. CASE l = 0
      <4>1. l \in 0 .. k
        BY <3>3
      <4>2. b[l] = a[l] /\ a[l] = h
        BY <2>1, <2>2, <3>3, <4>1
      <4>3. QED
        BY <3>3, <4>2
    <3>4. CASE l # 0 /\ l # k + 1
      <4>1. l \in 0 .. k /\ l - 1 \in 0 .. k
        BY <3>4
      <4>2. b[l] = a[l] /\ b[l - 1] = a[l - 1]
        BY <2>2, <4>1
      <4> HIDE DEF b
      <4>3. a[l] = Examined(h, c, a[l - 1], l)
        BY <2>1, <3>4, <4>1
      <4>4. QED
        BY <3>4, <4>2, <4>3
    <3>5. QED
      BY <3>2, <3>3, <3>4
  <2>4. b = [l \in 0 .. k + 1 |-> b[l]]
    OBVIOUS
  <2> HIDE DEF b
  <2>5. b = [l \in 0 .. k + 1 |-> IF l = 0 THEN h ELSE Examined(h, c, b[l - 1], l)]
    BY <2>3, <2>4
  <2>6. QED
    BY <2>5
<1> HIDE DEF Runs
<1>3. S = Nat
  <2>1. S \in SUBSET Nat /\ 0 \in S
    BY <1>1
  <2>2. \A k \in Nat : k \in S => k + 1 \in S
    BY <1>2
  <2> HIDE DEF S
  <2>3. QED
    BY <2>1, <2>2, Induction
<1>4. Runs(n)
  BY <1>3
<1>5. QED
  BY <1>4 DEF Runs, IsLoop

\* When the entries equal to c are of this session, they are erased and uncounted;
\* the others stay.
LEMMA ErasedIs ==
  ASSUME NEW h, NEW c, Counted(h.list, hist_file_count, h.session),
         \A i \in 1 .. Len(h.list) : CmdHistory!Same(h.list[i].cmd, c) => h.list[i].own
  PROVE  /\ Counted(CmdHistory!Erased(h, c).list, hist_file_count, CmdHistory!Erased(h, c).session)
         /\ OthersStay(h.list, CmdHistory!Erased(h, c).list, c)
<1> DEFINE n == Len(h.list)
           Good(g, k) == /\ Counted(g.list, hist_file_count, g.session)
                         /\ \A i \in 1 .. n - k : i <= Len(g.list) /\ g.list[i] = h.list[i]
                         /\ OthersStay(h.list, g.list, c)
<1>1. n \in Nat
  BY DEF Counted
<1>2. ASSUME NEW k \in 1 .. n, NEW g, Good(g, k - 1) PROVE Good(Examined(h, c, g, k), k)
  <2> DEFINE i == n + 1 - k
  <2>1. i \in 1 .. n /\ i = n - (k - 1) /\ i - 1 = n - k
    BY <1>1
  <2>2. i <= Len(g.list) /\ g.list[i] = h.list[i] /\ Len(g.list) \in Nat
    <3>1. i \in 1 .. n - (k - 1)
      BY <1>1, <2>1
    <3>2. g.list \in Seq(HistoryEntry)
      BY <1>2 DEF Counted
    <3> HIDE DEF i, n
    <3>3. QED
      BY <1>2, <3>1, <3>2
  <2>3. CASE CmdHistory!Same(h.list[i].cmd, c)
    <3>1. i > hist_file_count
      <4>1. h.list[i].own
        BY <2>1, <2>3
      <4>2. QED
        BY <2>1, <4>1 DEF Counted
    <3>2. /\ Examined(h, c, g, k).list = Cut(g.list, i, i + 1)
          /\ Examined(h, c, g, k).session = g.session - 1
      BY <2>3, <3>1 DEF Examined, CmdHistory!Removed, CmdHistory!RemoveAt, Cut
    <3>3. i \in Nat \ {0} /\ i + 1 \in Nat /\ i <= i + 1 /\ i + 1 <= Len(g.list) + 1
          /\ i + 1 - i = 1
      <4>1. i \in Int /\ i >= 1
        BY <1>1, <2>1
      <4> HIDE DEF i, n, Good
      <4>2. i \in Nat \ {0} /\ i + 1 \in Nat /\ i <= i + 1 /\ i + 1 - i = 1
        BY ONLY <4>1
      <4> DEFINE l == Len(g.list)
      <4>3. i <= l /\ l \in Nat
        BY <2>2
      <4> HIDE DEF l
      <4>4. i + 1 <= l + 1
        BY ONLY <4>1, <4>3
      <4>5. QED
        BY <4>2, <4>4 DEF l
    <3>4. Counted(g.list, hist_file_count, g.session)
      BY <1>2
    <3> HIDE DEF i, n
    <3>5. /\ Counted(Cut(g.list, i, i + 1), hist_file_count, g.session - (i + 1 - i))
          /\ \A m \in 1 .. i - 1 : m <= Len(Cut(g.list, i, i + 1)) /\ Cut(g.list, i, i + 1)[m] = g.list[m]
      BY <3>1, <3>3, <3>4, CutCounted
    <3>6. Counted(Examined(h, c, g, k).list, hist_file_count, Examined(h, c, g, k).session)
      BY <3>2, <3>3, <3>5
    <3>7. ASSUME NEW m \in 1 .. n - k
          PROVE  m <= Len(Examined(h, c, g, k).list) /\ Examined(h, c, g, k).list[m] = h.list[m]
      <4>1. m \in 1 .. i - 1 /\ m \in 1 .. n - (k - 1)
        BY <1>1, <2>1
      <4>2. g.list[m] = h.list[m]
        BY <1>2, <4>1
      <4>3. QED
        BY <3>2, <3>5, <4>1, <4>2
    <3>8. OthersStay(h.list, Examined(h, c, g, k).list, c)
      <4>1. g.list \in Seq(HistoryEntry) /\ OthersStay(h.list, g.list, c)
        BY <1>2 DEF Counted
      <4>2. i \in 1 .. Len(g.list)
        BY <2>1, <2>2
      <4>3. CmdHistory!Same(g.list[i].cmd, c)
        BY <2>2, <2>3
      <4>4. OthersStay(h.list, Cut(g.list, i, i + 1), c)
        BY <4>1, <4>2, <4>3, CutOthersStay
      <4>5. QED
        BY <3>2, <4>4
    <3>9. QED
      BY <3>6, <3>7, <3>8
  <2>4. CASE ~CmdHistory!Same(h.list[i].cmd, c)
    <3>1. Examined(h, c, g, k) = g
      BY <2>4 DEF Examined
    <3>2. \A m \in 1 .. n - k : m \in 1 .. n - (k - 1)
      BY <1>1
    <3> HIDE DEF n
    <3>3. QED
      BY <1>2, <3>1, <3>2
  <2>5. QED
    BY <2>3, <2>4
<1> DEFINE a == CHOOSE a : a = [k \in 0 .. n |-> IF k = 0 THEN h ELSE Examined(h, c, a[k - 1], k)]
<1>3. a = [k \in 0 .. n |-> IF k = 0 THEN h ELSE Examined(h, c, a[k - 1], k)]
  <2>1. n \in Nat
    BY <1>1
  <2> HIDE DEF n, Good
  <2>2. \E b : IsLoop(h, c, b, n)
    BY <2>1, LoopRuns
  <2>3. \A b : IsLoop(h, c, b, n) =>
            b = [k \in 0 .. n |-> IF k = 0 THEN h ELSE Examined(h, c, b[k - 1], k)]
    BY DEF IsLoop
  <2>4. QED
    BY <2>2, <2>3
<1>4. CmdHistory!Erased(h, c) = a[n]
  BY DEF CmdHistory!Erased, Examined
<1> HIDE DEF a, n
<1>5. a[0] = h /\ \A k \in 1 .. n : a[k] = Examined(h, c, a[k - 1], k)
  BY <1>1, <1>3
<1> DEFINE S == {k \in Nat : k <= n => Good(a[k], k)}
<1>6. 0 \in S
  <2>1. n - 0 = n /\ \A i \in 1 .. n : i <= n
    BY <1>1
  <2>2. Good(h, 0)
    BY <2>1 DEF n, OthersStay
  <2>3. QED
    BY <1>5, <2>2
<1>7. \A k \in Nat : k \in S => k + 1 \in S
  <2>1. TAKE k \in Nat
  <2>2. SUFFICES ASSUME k \in S, k + 1 <= n PROVE Good(a[k + 1], k + 1)
    OBVIOUS
  <2>3. k <= n /\ k + 1 \in 1 .. n /\ (k + 1) - 1 = k
    BY <1>1, <2>2
  <2>4. Good(a[k], k)
    BY <2>2, <2>3
  <2> HIDE DEF Good
  <2>5. Good(Examined(h, c, a[k], k + 1), k + 1)
    BY <1>2, <2>3, <2>4
  <2>6. QED
    BY <1>5, <2>3, <2>5
<1>8. n \in S
  <2> HIDE DEF S
  <2>1. S \in SUBSET Nat
    BY DEF S
  <2>2. QED
    BY <1>1, <1>6, <1>7, <2>1, Induction
<1>9. QED
  BY <1>1, <1>4, <1>8

\* The commands of a list of entries, and the entries of commands from the file.
LEMMA LinesAre ==
  ASSUME NEW h \in Seq(HistoryEntry)
  PROVE  CmdHistory!Lines(h) \in Seq(Commands) /\ Len(CmdHistory!Lines(h)) = Len(h)
<1> DEFINE n == Len(h)
<1>1. n \in Nat /\ DOMAIN h = 1 .. n /\ \A i \in 1 .. n : h[i] \in HistoryEntry
  OBVIOUS
<1> HIDE DEF n
<1>2. CmdHistory!Lines(h) = [i \in 1 .. n |-> h[i].cmd]
  BY <1>1 DEF CmdHistory!Lines
<1>3. \A i \in 1 .. n : h[i].cmd \in Commands
  BY <1>1 DEF HistoryEntry
<1> DEFINE g == [i \in 1 .. n |-> h[i].cmd]
<1>4. g \in Seq(Commands) /\ Len(g) = n
  BY <1>1, <1>3, IsASeq
<1>5. QED
  BY <1>2, <1>4 DEF n

LEMMA AllFromFile ==
  ASSUME NEW n \in Nat, NEW h, h = [i \in 1 .. n |-> h[i]],
         \A i \in 1 .. n : h[i] \in HistoryEntry /\ h[i].own = FALSE
  PROVE  Counted(h, n, 0)
<1>1. h \in Seq(HistoryEntry) /\ Len(h) = n
  <2> DEFINE g == [i \in 1 .. n |-> h[i]]
  <2>1. g \in Seq(HistoryEntry) /\ Len(g) = n
    BY IsASeq
  <2>2. QED
    BY <2>1
<1>2. n \in 0 .. n /\ 0 = n - n /\ \A i \in 1 .. n : ~(i > n)
  OBVIOUS
<1>3. QED
  BY <1>1, <1>2 DEF Counted

LEMMA LoadedIs ==
  ASSUME NEW f \in Seq(Commands) PROVE Counted(CmdHistory!Loaded(f), Len(f), 0)
<1> DEFINE n == Len(f)
           h == CmdHistory!Loaded(f)
<1>1. n \in Nat /\ DOMAIN f = 1 .. n /\ \A i \in 1 .. n : f[i] \in Commands
  OBVIOUS
<1> HIDE DEF n
<1>2. h = [i \in 1 .. n |-> [cmd |-> f[i], own |-> FALSE]]
  BY <1>1 DEF CmdHistory!Loaded, CmdHistory!Entry
<1> HIDE DEF h
<1>3. h = [i \in 1 .. n |-> h[i]] /\ \A i \in 1 .. n : h[i] = [cmd |-> f[i], own |-> FALSE]
  BY <1>2
<1>4. \A i \in 1 .. n : h[i] \in HistoryEntry /\ h[i].own = FALSE
  <2>1. TAKE i \in 1 .. n
  <2> DEFINE e == [cmd |-> f[i], own |-> FALSE]
  <2>2. f[i] \in Commands
    BY <1>1
  <2>3. e \in HistoryEntry /\ e.own = FALSE
    BY <2>2 DEF HistoryEntry
  <2> HIDE DEF e
  <2>4. h[i] = e
    BY <1>3 DEF e
  <2>5. QED
    BY <2>3, <2>4
<1>5. Counted(h, n, 0)
  BY <1>1, <1>3, <1>4, AllFromFile
<1>6. QED
  BY <1>5 DEF h, n

LEMMA ForgottenIs ==
  ASSUME NEW h \in Seq(HistoryEntry) PROVE Counted(CmdHistory!Forgotten(h), Len(h), 0)
<1> DEFINE n == Len(h)
           g == CmdHistory!Forgotten(h)
<1>1. n \in Nat /\ DOMAIN h = 1 .. n /\ \A i \in 1 .. n : h[i] \in HistoryEntry
  OBVIOUS
<1> HIDE DEF n
<1>2. g = [i \in 1 .. n |-> [h[i] EXCEPT !.own = FALSE]]
  BY <1>1 DEF CmdHistory!Forgotten
<1> HIDE DEF g
<1>3. g = [i \in 1 .. n |-> g[i]] /\ \A i \in 1 .. n : g[i] = [h[i] EXCEPT !.own = FALSE]
  BY <1>2
<1>4. \A i \in 1 .. n : g[i] \in HistoryEntry /\ g[i].own = FALSE
  BY <1>1, <1>3 DEF HistoryEntry
<1>5. Counted(g, n, 0)
  BY <1>1, <1>3, <1>4, AllFromFile
<1>6. QED
  BY <1>5 DEF g, n

LEMMA WrittenIs ==
  ASSUME cmd_history \in Seq(HistoryEntry), NEW from \in Nat
  PROVE  CmdHistory!Written(from) \in Seq(Commands)
<1>1. SubSeq(cmd_history, from + 1, Len(cmd_history)) \in Seq(HistoryEntry)
  OBVIOUS
<1>2. QED
  BY <1>1, LinesAre DEF CmdHistory!Written

LEMMA TruncatedIs ==
  ASSUME NEW f \in Seq(Commands) PROVE CmdHistory!Truncated(f) \in Seq(Commands)
<1>1. HISTFILESIZE \in Nat /\ Len(f) \in Nat
  BY ShellStateAssumption
<1>2. Len(f) > HISTFILESIZE => SubSeq(f, 1, HISTFILESIZE) \in Seq(Commands)
  BY <1>1
<1>3. QED
  BY <1>2 DEF CmdHistory!Truncated

\* Nobody removes an entry of the file, or reads or writes it over the session's, and
\* what history -a and the exit write reaches it.
Patient == {"erases", "rereads", "writes", "otherFile", "failedWrite"} \cap Hasty = {}

LEMMA OneOutlet == Patient => CmdHistory!Outlets = {"HISTFILE"}
  BY DEF Patient, CmdHistory!Outlets

\* One step of the history for each of its actions.
LEMMA SaveCounted ==
  ASSUME HistoryInv, Patient, NEW c \in Commands, NEW control, CmdHistory!SaveToHistory(c, control)
  PROVE  HistoryInv'
<1> DEFINE r == CmdHistory!Recorded
           h == IF control = "erasedups" THEN CmdHistory!Erased(r, c) ELSE r
<1>1. r.list = cmd_history /\ r.session = hist_cmds_this_session
  BY DEF CmdHistory!Recorded
<1>2. Counted(h.list, hist_file_count, h.session)
  <2>0. Counted(r.list, hist_file_count, r.session)
    BY <1>1 DEF HistoryInv
  <2>1. CASE control = "erasedups"
    <3>1. \A i \in DOMAIN cmd_history : CmdHistory!Same(cmd_history[i].cmd, c) => i \in CmdHistory!Own
      BY <2>1 DEF Patient, CmdHistory!SaveToHistory
    <3>2. DOMAIN cmd_history = 1 .. Len(cmd_history)
      BY DEF HistoryInv, Counted
    <3>3. \A i \in 1 .. Len(r.list) : CmdHistory!Same(r.list[i].cmd, c) => r.list[i].own
      BY <1>1, <3>1, <3>2 DEF CmdHistory!Own
    <3> HIDE DEF r
    <3>4. Counted(CmdHistory!Erased(r, c).list, hist_file_count, CmdHistory!Erased(r, c).session)
      BY <2>0, <3>3, ErasedIs
    <3>5. QED
      BY <2>1, <3>4
  <2>2. CASE control # "erasedups"
    <3> HIDE DEF r
    <3>1. QED
      BY <2>0, <2>2
  <2>3. QED
    BY <2>1, <2>2
<1> DEFINE e == CmdHistory!Entry(c, TRUE)
<1>3. /\ cmd_history' = Append(h.list, e) /\ hist_cmds_this_session' = h.session + 1
      /\ hist_file_count' = hist_file_count /\ file' = file
  BY DEF CmdHistory!SaveToHistory
<1>4. e \in HistoryEntry /\ e.own = TRUE
  BY DEF CmdHistory!Entry, HistoryEntry
<1> DEFINE l == h.list
           s == h.session
           g == Append(l, e)
<1>5. Counted(l, hist_file_count, s)
  BY <1>2
<1> HIDE DEF h, r, e, l, s
<1>6. /\ g \in Seq(HistoryEntry) /\ Len(g) = Len(l) + 1 /\ g[Len(l) + 1] = e
      /\ \A i \in 1 .. Len(l) : g[i] = l[i]
  BY <1>4, <1>5 DEF Counted
<1> HIDE DEF g
<1>7. Counted(g, hist_file_count, s + 1)
  BY <1>4, <1>5, <1>6 DEF Counted
<1>8. QED
  BY <1>3, <1>7 DEF HistoryInv, g, l, s

LEMMA ClearCounted ==
  ASSUME HistoryInv, Patient, NEW i \in 1 .. MaxEntries + 1, NEW j \in 1 .. MaxEntries + 1,
         CmdHistory!ClearHistory(i, j)
  PROVE  HistoryInv'
<1> DEFINE h == cmd_history
           n == hist_file_count
           s == hist_cmds_this_session
<1>1. /\ i \in Nat \ {0} /\ j \in Nat /\ i <= j /\ i < j /\ j <= Len(h) + 1
      /\ i .. j - 1 \subseteq CmdHistory!Own
  <2>1. Len(h) \in Nat
    BY DEF HistoryInv, Counted
  <2>2. MaxEntries \in Nat
    BY ShellStateAssumption
  <2>3. i \in Nat \ {0} /\ j \in Nat
    BY <2>2
  <2>4. i < j /\ j <= Len(h) + 1 /\ i .. j - 1 \subseteq CmdHistory!Own
    BY DEF CmdHistory!ClearHistory, Patient
  <2>5. QED
    BY <2>3, <2>4
<1>2. Counted(h, n, s) /\ n \in Nat /\ Len(h) \in Nat /\ s = Len(h) - n
  BY DEF HistoryInv, Counted
<1>3. n < i
  <2>1. i \in i .. j - 1
    BY <1>1
  <2>2. i \in CmdHistory!Own
    BY <1>1, <2>1
  <2>3. QED
    BY <1>2, <2>2, CountedIs
<1>4. /\ cmd_history' = Cut(h, i, j) /\ n' = n /\ file' = file
      /\ s' = IF i = 1 /\ j = Len(h) + 1 THEN 0 ELSE s - (j - i)
  BY <1>1, <1>2, <1>3 DEF CmdHistory!ClearHistory, Cut
<1>5. s' = s - (j - i)
  BY <1>1, <1>2, <1>3, <1>4
<1>6. Counted(Cut(h, i, j), n, s - (j - i))
  BY <1>1, <1>2, <1>3, CutCounted
<1>7. QED
  BY <1>4, <1>5, <1>6 DEF HistoryInv

LEMMA NewestCounted ==
  ASSUME HistoryInv, Patient, CmdHistory!RemoveNewest
  PROVE  HistoryInv'
<1> DEFINE h == cmd_history
           n == hist_file_count
           k == Len(h)
<1>1. h \in Seq(HistoryEntry) /\ Counted(h, n, hist_cmds_this_session) /\ n \in Nat
  BY DEF HistoryInv, Counted
<1>2. h # <<>> /\ CmdHistory!Last(h).own
  BY DEF CmdHistory!RemoveNewest, Patient
<1>3. k \in Nat \ {0}
  BY <1>1, <1>2
<1>4. h[k].own /\ k > n
  <2>1. CmdHistory!Last(h) = h[k]
    BY DEF CmdHistory!Last
  <2>2. h[k].own /\ k \in 1 .. Len(h)
    BY <1>2, <1>3, <2>1
  <2>3. QED
    BY <1>1, <2>2 DEF Counted
<1>5. /\ cmd_history' = Cut(h, k, k + 1) /\ hist_cmds_this_session' = hist_cmds_this_session - 1
      /\ n' = n /\ file' = file
  BY <1>4 DEF CmdHistory!RemoveNewest, CmdHistory!Removed, CmdHistory!Recorded,
      CmdHistory!RemoveAt, Cut
<1>6. k + 1 \in Nat /\ k <= k + 1 /\ k + 1 <= Len(h) + 1 /\ k + 1 - k = 1
  BY <1>3
<1> HIDE DEF h, n, k
<1>7. Counted(Cut(h, k, k + 1), n, hist_cmds_this_session - (k + 1 - k))
  BY <1>1, <1>3, <1>4, <1>6, CutCounted
<1>8. Counted(cmd_history', n', hist_cmds_this_session')
  BY <1>5, <1>6, <1>7
<1>9. QED
  BY <1>5, <1>8 DEF HistoryInv, n

LEMMA ReadCounted ==
  ASSUME HistoryInv, Patient, CmdHistory!ReadHistoryFile
  PROVE  HistoryInv'
<1> DEFINE h == cmd_history
           f == CmdHistory!Loaded(file)
           g == h \o f
<1>1. /\ g = cmd_history' /\ hist_file_count' = Len(cmd_history') /\ hist_cmds_this_session' = 0
      /\ file' = file /\ CmdHistory!Own = {}
  BY DEF CmdHistory!ReadHistoryFile, Patient
<1>2. /\ h \in Seq(HistoryEntry) /\ hist_file_count \in 0 .. Len(h)
      /\ \A i \in 1 .. Len(h) : h[i].own <=> i > hist_file_count
      /\ Len(h) \in Nat
  BY DEF HistoryInv, Counted
<1>3. \A i \in 1 .. Len(h) : h[i].own = FALSE
  <2>1. TAKE i \in 1 .. Len(h)
  <2>2. i > hist_file_count => i \in CmdHistory!Own
    BY CountedIs
  <2>3. h[i] \in HistoryEntry /\ ~h[i].own
    BY <1>1, <1>2, <2>2
  <2>4. QED
    BY <2>3 DEF HistoryEntry
<1>4. Counted(f, Len(file), 0)
  BY LoadedIs DEF HistoryInv
<1> HIDE DEF f, h
<1>5. f \in Seq(HistoryEntry) /\ \A i \in 1 .. Len(f) : f[i].own = FALSE
  <2>1. /\ f \in Seq(HistoryEntry) /\ Len(file) = Len(f) /\ Len(f) \in Nat
        /\ \A i \in 1 .. Len(f) : ~f[i].own
    BY <1>4 DEF Counted
  <2>2. \A i \in 1 .. Len(f) : f[i] \in HistoryEntry
    BY <2>1
  <2>3. QED
    BY <2>1, <2>2 DEF HistoryEntry
<1>6. /\ g \in Seq(HistoryEntry) /\ Len(g) = Len(h) + Len(f)
      /\ \A i \in 1 .. Len(g) : g[i] = IF i <= Len(h) THEN h[i] ELSE f[i - Len(h)]
  BY <1>2, <1>5, ConcatProperties
<1>7. \A i \in 1 .. Len(g) : ~g[i].own
  <2>1. TAKE i \in 1 .. Len(g)
  <2>2. CASE i <= Len(h)
    <3>1. i \in 1 .. Len(h) /\ g[i] = h[i]
      BY <1>2, <1>5, <1>6, <2>2
    <3>2. QED
      BY <1>3, <3>1
  <2>3. CASE ~(i <= Len(h))
    <3>1. Len(f) \in Nat
      BY <1>5
    <3>2. i - Len(h) \in 1 .. Len(f) /\ g[i] = f[i - Len(h)]
      BY <1>2, <1>6, <2>3, <3>1
    <3>3. QED
      BY <1>5, <3>2
  <2>4. QED
    BY <2>2, <2>3
<1> HIDE DEF g
<1>8. Counted(g, Len(g), 0)
  BY <1>6, <1>7 DEF Counted
<1>9. QED
  BY <1>1, <1>8 DEF HistoryInv

LEMMA AppendCounted ==
  ASSUME HistoryInv, CmdHistory!AppendHistory("HISTFILE")
  PROVE  HistoryInv'
<1>1. cmd_history \in Seq(HistoryEntry) /\ hist_file_count \in Nat /\ file \in Seq(Commands)
  BY DEF HistoryInv, Counted
<1>2. Counted(CmdHistory!Forgotten(cmd_history), Len(cmd_history), 0)
  BY <1>1, ForgottenIs
<1>3. CmdHistory!Written(hist_file_count) \in Seq(Commands)
  BY <1>1, WrittenIs
<1>4. /\ file' = file \o CmdHistory!Written(hist_file_count)
      /\ hist_file_count' = Len(cmd_history) /\ hist_cmds_this_session' = 0
      /\ cmd_history' = CmdHistory!Forgotten(cmd_history)
  BY DEF CmdHistory!AppendHistory
<1>5. file' \in Seq(Commands)
  BY <1>1, <1>3, <1>4, ConcatProperties
<1>6. QED
  BY <1>2, <1>4, <1>5 DEF HistoryInv

LEMMA WriteCounted ==
  ASSUME HistoryInv, Patient, CmdHistory!WriteHistory
  PROVE  HistoryInv'
<1>1. /\ cmd_history \in Seq(HistoryEntry) /\ hist_file_count \in 0 .. Len(cmd_history)
      /\ hist_cmds_this_session = Len(cmd_history) - hist_file_count
      /\ Len(cmd_history) \in Nat
  BY DEF HistoryInv, Counted
<1>2. /\ file' = CmdHistory!Written(0) /\ cmd_history' = CmdHistory!Forgotten(cmd_history)
      /\ hist_file_count' = hist_file_count /\ hist_cmds_this_session' = hist_cmds_this_session
      /\ CmdHistory!Own = {}
  BY DEF CmdHistory!WriteHistory, Patient
<1>3. hist_file_count = Len(cmd_history) /\ hist_cmds_this_session = 0
  <2>1. hist_file_count < Len(cmd_history) => Len(cmd_history) \in CmdHistory!Own
    BY <1>1, CountedIs
  <2>2. QED
    BY <1>1, <1>2, <2>1
<1>4. Counted(CmdHistory!Forgotten(cmd_history), Len(cmd_history), 0)
  BY <1>1, ForgottenIs
<1>5. file' \in Seq(Commands)
  BY <1>1, <1>2, WrittenIs
<1>6. Counted(cmd_history', hist_file_count', hist_cmds_this_session')
  BY <1>2, <1>3, <1>4
<1>7. QED
  BY <1>5, <1>6 DEF HistoryInv

LEMMA ExitCounted ==
  ASSUME HistoryInv, CmdHistory!Exit("HISTFILE")
  PROVE  HistoryInv'
<1>1. /\ cmd_history \in Seq(HistoryEntry) /\ hist_file_count \in Nat /\ file \in Seq(Commands)
      /\ Len(cmd_history) \in Nat
  BY DEF HistoryInv, Counted
<1>2. CmdHistory!Flushed \in Seq(Commands)
  <2> DEFINE start == IF histappend THEN hist_file_count ELSE 0
             from  == IF Len(cmd_history) - 1 - start > HISTSIZE
                      THEN Len(cmd_history) - HISTSIZE ELSE start
  <2>1. from \in Nat
    <3>1. HISTSIZE \in Nat /\ start \in Nat
      BY <1>1, ShellStateAssumption
    <3> HIDE DEF start
    <3>2. QED
      BY <1>1, <3>1
  <2>2. CmdHistory!Flushed = IF hist_cmds_this_session = 0 THEN file
                             ELSE IF histappend THEN file \o CmdHistory!Written(from)
                             ELSE CmdHistory!Written(from)
    BY DEF CmdHistory!Flushed
  <2> HIDE DEF from
  <2>3. CmdHistory!Written(from) \in Seq(Commands)
    BY <1>1, <2>1, WrittenIs
  <2>4. file \o CmdHistory!Written(from) \in Seq(Commands)
    BY <1>1, <2>3, ConcatProperties
  <2>5. QED
    BY <1>1, <2>2, <2>3, <2>4
<1> DEFINE f == CmdHistory!Truncated(CmdHistory!Truncated(CmdHistory!Flushed))
<1>3. f \in Seq(Commands)
  BY <1>2, TruncatedIs
<1>4. /\ file' = f /\ cmd_history' = CmdHistory!Loaded(f)
      /\ hist_file_count' = Len(f) /\ hist_cmds_this_session' = 0
  BY DEF CmdHistory!Exit, CmdHistory!Session
<1> HIDE DEF f
<1>5. Counted(CmdHistory!Loaded(f), Len(f), 0)
  BY <1>3, LoadedIs
<1>6. QED
  BY <1>3, <1>4, <1>5 DEF HistoryInv

LEMMA HistoryStarts == CmdHistory!Init => HistoryInv
<1> SUFFICES ASSUME CmdHistory!Init PROVE HistoryInv
  OBVIOUS
<1>1. file \in Seq(Commands)
  <2>1. PICK n \in 0 .. 1 : file \in [1 .. n -> Commands]
    BY DEF CmdHistory!Init
  <2>2. QED
    BY <2>1, SeqDef
<1>2. Counted(CmdHistory!Loaded(file), Len(file), 0)
  BY <1>1, LoadedIs
<1>3. QED
  BY <1>1, <1>2 DEF CmdHistory!Init, HistoryInv

LEMMA HistorySteps == HistoryInv /\ Patient /\ [CmdHistory!Next]_(CmdHistory!vars) => HistoryInv'
<1> SUFFICES ASSUME HistoryInv, Patient, [CmdHistory!Next]_(CmdHistory!vars) PROVE HistoryInv'
  OBVIOUS
<1>1. CASE UNCHANGED CmdHistory!vars
  BY <1>1 DEF CmdHistory!vars, HistoryInv
<1>2. ASSUME NEW c \in Commands, NEW control, CmdHistory!SaveToHistory(c, control) PROVE HistoryInv'
  BY <1>2, SaveCounted
<1>3. ASSUME NEW c \in Commands, CmdHistory!OtherShell(c) PROVE HistoryInv'
  <2>1. file \in Seq(Commands) /\ file' = Append(file, c)
    BY <1>3 DEF HistoryInv, CmdHistory!OtherShell
  <2>2. file' \in Seq(Commands)
    BY <2>1
  <2>3. QED
    BY <1>3, <2>2 DEF HistoryInv, CmdHistory!OtherShell
<1>4. ASSUME NEW i \in 1 .. MaxEntries + 1, NEW j \in 1 .. MaxEntries + 1, CmdHistory!ClearHistory(i, j)
      PROVE HistoryInv'
  BY <1>4, ClearCounted
<1>5. CASE CmdHistory!RemoveNewest
  BY <1>5, NewestCounted
<1>6. CASE CmdHistory!ReadHistoryFile
  BY <1>6, ReadCounted
<1>7. CASE CmdHistory!AppendHistory("HISTFILE")
  BY <1>7, AppendCounted
<1>8. CASE CmdHistory!WriteHistory
  BY <1>8, WriteCounted
<1>9. CASE CmdHistory!Exit("HISTFILE")
  BY <1>9, ExitCounted
<1>10. CmdHistory!Outlets = {"HISTFILE"}
  BY OneOutlet
<1>11. QED
  BY <1>1, <1>2, <1>3, <1>4, <1>5, <1>6, <1>7, <1>8, <1>9, <1>10 DEF CmdHistory!Next

\* What ShellState's steps are in the part of the history.
LEMMA InHistory ==
  ASSUME [Next]_vars, part' = "history"
  PROVE  part = "history" /\ [CmdHistory!Next]_(CmdHistory!vars)
<1>1. part = "history"
  BY DEF Next, vars
<1>2. UNCHANGED vars => UNCHANGED CmdHistory!vars
  BY DEF vars, history, CmdHistory!vars
<1>3. Next => CmdHistory!Next
  BY <1>1 DEF Next
<1>4. QED
  BY <1>1, <1>2, <1>3

(* hist_file_count and hist_cmds_this_session tell which entries the file does *)
(* not have, if nobody removes entries of the file or reads or writes it while *)
(* there are unsaved ones, and history -a writes to that file and can          *)
(* (builtins/history.c:115, 640, 839, 1199).                                   *)
THEOREM SessionIsCounted == ASSUME Patient PROVE Spec => []UnsavedKnown
<1> DEFINE Inv == part = "history" => HistoryInv
<1>1. Init => Inv
  BY HistoryStarts DEF Init
<1>2. Inv /\ [Next]_vars => Inv'
  BY InHistory, HistorySteps
<1>3. Inv => UnsavedKnown
  <2>1. HistoryInv => DOMAIN cmd_history = 1 .. Len(cmd_history)
    BY DEF HistoryInv, Counted
  <2>2. QED
    BY <2>1, CountedIs DEF UnsavedKnown
<1>4. QED
  BY <1>1, <1>2, <1>3, PTL DEF Spec

-----------------------------------------------------------------------------
(* What a session leaves behind.                                            *)

\* a[k] are the commands typed among the first k entries.
TypedIn(h, a, n) ==
  a = [k \in 0 .. n |-> IF k = 0 THEN <<>>
                        ELSE IF h[k].own THEN Append(a[k - 1], h[k].cmd) ELSE a[k - 1]]
TypedNext(h, b, k) == IF h[k].own THEN Append(b, h[k].cmd) ELSE b

LEMMA TypedRuns == ASSUME NEW h, NEW n \in Nat PROVE \E a : TypedIn(h, a, n)
<1> DEFINE Upto(k) == \E a : a = [l \in 0 .. k |-> IF l = 0 THEN <<>> ELSE TypedNext(h, a[l - 1], l)]
           S == {k \in Nat : Upto(k)}
<1>1. Upto(0)
  <2> DEFINE a == [l \in 0 .. 0 |-> <<>>]
  <2>1. a = [l \in 0 .. 0 |-> IF l = 0 THEN <<>> ELSE TypedNext(h, a[l - 1], l)]
    OBVIOUS
  <2> HIDE DEF a
  <2>2. QED
    BY <2>1
<1>2. ASSUME NEW k \in Nat, Upto(k) PROVE Upto(k + 1)
  <2>1. PICK a : a = [l \in 0 .. k |-> IF l = 0 THEN <<>> ELSE TypedNext(h, a[l - 1], l)]
    BY <1>2
  <2> DEFINE y == TypedNext(h, a[k], k + 1)
             b == [l \in 0 .. k + 1 |-> IF l = k + 1 THEN y ELSE a[l]]
  <2>2. \A l \in 0 .. k : b[l] = a[l]
    OBVIOUS
  <2>3. \A l \in 0 .. k + 1 : b[l] = IF l = 0 THEN <<>> ELSE TypedNext(h, b[l - 1], l)
    <3>1. TAKE l \in 0 .. k + 1
    <3>2. CASE l = k + 1
      <4>1. k \in 0 .. k /\ l - 1 = k /\ l # 0 /\ b[l] = y
        BY <3>2
      <4>2. b[l - 1] = a[k]
        BY <2>2, <4>1
      <4> HIDE DEF b
      <4>3. QED
        BY <3>2, <4>1, <4>2
    <3>3. CASE l = 0
      <4>1. l \in 0 .. k
        BY <3>3
      <4>2. b[l] = a[l] /\ a[l] = <<>>
        BY <2>1, <2>2, <3>3, <4>1
      <4>3. QED
        BY <3>3, <4>2
    <3>4. CASE l # 0 /\ l # k + 1
      <4>1. l \in 0 .. k /\ l - 1 \in 0 .. k
        BY <3>4
      <4>2. b[l] = a[l] /\ b[l - 1] = a[l - 1]
        BY <2>2, <4>1
      <4> HIDE DEF b
      <4>3. a[l] = TypedNext(h, a[l - 1], l)
        BY <2>1, <3>4, <4>1
      <4>4. QED
        BY <3>4, <4>2, <4>3
    <3>5. QED
      BY <3>2, <3>3, <3>4
  <2>4. b = [l \in 0 .. k + 1 |-> b[l]]
    OBVIOUS
  <2> HIDE DEF b
  <2>5. b = [l \in 0 .. k + 1 |-> IF l = 0 THEN <<>> ELSE TypedNext(h, b[l - 1], l)]
    BY <2>3, <2>4
  <2>6. QED
    BY <2>5
<1> HIDE DEF Upto
<1>3. S = Nat
  <2>1. S \in SUBSET Nat /\ 0 \in S
    BY <1>1
  <2>2. \A k \in Nat : k \in S => k + 1 \in S
    BY <1>2
  <2> HIDE DEF S
  <2>3. QED
    BY <2>1, <2>2, Induction
<1>4. Upto(n)
  BY <1>3
<1>5. QED
  BY <1>4 DEF Upto, TypedIn, TypedNext

\* They are what the list has behind the n entries of the file.
LEMMA TypedIs ==
  ASSUME NEW n, NEW s, Counted(cmd_history, n, s)
  PROVE  /\ CmdHistory!Typed \in Seq(Commands) /\ Len(CmdHistory!Typed) = Len(cmd_history) - n
         /\ \A j \in 1 .. Len(cmd_history) - n : CmdHistory!Typed[j] = cmd_history[n + j].cmd
<1> DEFINE h == cmd_history
           m == Len(h)
           a == CHOOSE a : TypedIn(h, a, m)
<1>1. /\ m \in Nat /\ n \in 0 .. m
      /\ \A i \in 1 .. m : h[i].cmd \in Commands /\ (h[i].own <=> i > n)
  <2>1. h \in Seq(HistoryEntry) /\ n \in 0 .. m /\ \A i \in 1 .. m : h[i].own <=> i > n
    BY DEF Counted
  <2>2. m \in Nat /\ \A i \in 1 .. m : h[i] \in HistoryEntry
    BY <2>1
  <2>3. \A i \in 1 .. m : h[i].cmd \in Commands
    BY <2>2 DEF HistoryEntry
  <2>4. QED
    BY <2>1, <2>2, <2>3
<1>2. TypedIn(h, a, m)
  <2> HIDE DEF m
  <2>1. QED
    BY <1>1, TypedRuns
<1>3. CmdHistory!Typed = a[m]
  BY DEF CmdHistory!Typed, TypedIn
<1>4. a[0] = <<>> /\ \A k \in 1 .. m : a[k] = TypedNext(h, a[k - 1], k)
  <2>1. a = [k \in 0 .. m |-> IF k = 0 THEN <<>> ELSE TypedNext(h, a[k - 1], k)]
    BY <1>2 DEF TypedIn, TypedNext
  <2> HIDE DEF a, m
  <2>2. QED
    BY <1>1, <2>1
<1> HIDE DEF a, m, h
<1> DEFINE Length(k) == IF k <= n THEN 0 ELSE k - n
           Right(b, k) == /\ b \in Seq(Commands) /\ Len(b) = Length(k)
                          /\ \A j \in 1 .. Length(k) : b[j] = h[n + j].cmd
           S == {k \in Nat : k <= m => Right(a[k], k)}
<1>5. 0 \in S
  <2>1. Length(0) = 0
    BY <1>1
  <2>2. <<>> \in Seq(Commands) /\ Len(<<>>) = 0
    OBVIOUS
  <2> HIDE DEF Length
  <2>3. Right(<<>>, 0)
    BY <2>1, <2>2
  <2> HIDE DEF Right
  <2>4. QED
    BY <1>4, <2>3
<1>6. \A k \in Nat : k \in S => k + 1 \in S
  <2>1. TAKE k \in Nat
  <2>2. SUFFICES ASSUME k \in S, k + 1 <= m PROVE Right(a[k + 1], k + 1)
    OBVIOUS
  <2> DEFINE b == a[k]
             b2 == a[k + 1]
             x == h[k + 1].cmd
  <2>3. k <= m /\ k + 1 \in 1 .. m /\ (k + 1) - 1 = k
    BY <1>1, <2>2
  <2>4. Right(b, k)
    BY <2>2, <2>3
  <2>5. x \in Commands /\ (h[k + 1].own <=> k + 1 > n)
    BY <1>1, <2>3
  <2>6. b2 = IF h[k + 1].own THEN Append(b, x) ELSE b
    BY <1>4, <2>3 DEF TypedNext
  <2> HIDE DEF b, b2, x
  <2>7. CASE k + 1 > n
    <3>1. Length(k + 1) = Length(k) + 1 /\ Length(k) \in Nat /\ n + (Length(k) + 1) = k + 1
      BY <1>1, <2>7
    <3> HIDE DEF Length
    <3>2. b \in Seq(Commands) /\ Len(b) = Length(k) /\ b2 = Append(b, x)
      BY <2>4, <2>5, <2>6, <2>7
    <3>3. /\ b2 \in Seq(Commands) /\ Len(b2) = Length(k) + 1
          /\ \A j \in 1 .. Length(k) : b2[j] = b[j]
          /\ b2[Length(k) + 1] = x
      BY <2>5, <3>1, <3>2
    <3>4. ASSUME NEW j \in 1 .. Length(k) + 1 PROVE b2[j] = h[n + j].cmd
      <4>1. CASE j = Length(k) + 1
        BY <3>1, <3>3, <4>1 DEF x
      <4>2. CASE j # Length(k) + 1
        <5>1. j \in 1 .. Length(k)
          BY <3>1, <4>2
        <5>2. QED
          BY <2>4, <3>3, <5>1
      <4>3. QED
        BY <4>1, <4>2
    <3>5. QED
      BY <3>1, <3>3, <3>4 DEF b2
  <2>8. CASE ~(k + 1 > n)
    <3>1. Length(k + 1) = Length(k)
      BY <1>1, <2>8
    <3> HIDE DEF Length
    <3>2. b2 = b
      BY <2>5, <2>6, <2>8
    <3>3. QED
      BY <2>4, <3>1, <3>2 DEF b2
  <2>9. QED
    BY <2>7, <2>8
<1>7. m \in S
  <2> HIDE DEF S
  <2>1. S \in SUBSET Nat
    BY DEF S
  <2>2. QED
    BY <1>1, <1>5, <1>6, <2>1, Induction
<1>8. Right(a[m], m) /\ Length(m) = m - n
  BY <1>1, <1>7
<1> HIDE DEF Length
<1>9. QED
  BY <1>3, <1>8 DEF m, h

\* A sequence is the beginning of another.
LEMMA PrefixIs ==
  ASSUME NEW E, NEW u \in Seq(E), NEW t \in Seq(E), Len(u) <= Len(t),
         \A j \in 1 .. Len(u) : u[j] = t[j]
  PROVE  CmdHistory!IsPrefix(u, t)
<1>1. /\ Len(u) \in Nat /\ Len(t) \in Nat
      /\ SubSeq(u, 1, Len(u)) = [i \in 1 .. Len(u) |-> u[i]]
      /\ SubSeq(t, 1, Len(u)) = [i \in 1 .. Len(u) |-> t[i]]
  OBVIOUS
<1>2. [i \in 1 .. Len(u) |-> u[i]] = [i \in 1 .. Len(u) |-> t[i]]
  OBVIOUS
<1>3. QED
  BY <1>1, <1>2 DEF CmdHistory!IsPrefix

\* A sequence is the end of another.
LEMMA SuffixIs ==
  ASSUME NEW E, NEW u \in Seq(E), NEW t \in Seq(E), Len(u) <= Len(t),
         \A j \in 1 .. Len(u) : u[j] = t[Len(t) - Len(u) + j]
  PROVE  CmdHistory!IsSuffix(u, t)
<1> DEFINE l == Len(u)
           m == Len(t)
           ru == CmdHistory!Reverse(u)
           rt == CmdHistory!Reverse(t)
<1>1. l \in Nat /\ m \in Nat /\ l <= m
  OBVIOUS
<1>2. ru = [i \in 1 .. l |-> u[(l - i) + 1]] /\ rt = [i \in 1 .. m |-> t[(m - i) + 1]]
  BY DEF CmdHistory!Reverse
<1>3. \A i \in 1 .. l : u[i] \in E
  OBVIOUS
<1>4. \A i \in 1 .. m : t[i] \in E
  OBVIOUS
<1>5. \A j \in 1 .. l : u[j] = t[m - l + j]
  OBVIOUS
<1> HIDE DEF l, m, ru, rt
<1>6. ru \in Seq(E) /\ Len(ru) = l /\ \A i \in 1 .. l : ru[i] = u[(l - i) + 1]
  <2> DEFINE e(i) == u[(l - i) + 1]
             f == [i \in 1 .. l |-> e(i)]
  <2>1. \A i \in 1 .. l : e(i) \in E
    BY <1>1, <1>3
  <2>2. ru = f
    BY <1>2
  <2> HIDE DEF e
  <2>3. f \in Seq(E) /\ Len(f) = l
    BY <1>1, <2>1, IsASeq
  <2>4. \A i \in 1 .. l : f[i] = e(i)
    OBVIOUS
  <2> HIDE DEF f
  <2>5. QED
    BY <2>2, <2>3, <2>4 DEF e
<1>7. rt \in Seq(E) /\ Len(rt) = m /\ \A i \in 1 .. m : rt[i] = t[(m - i) + 1]
  <2> DEFINE e(i) == t[(m - i) + 1]
             f == [i \in 1 .. m |-> e(i)]
  <2>1. \A i \in 1 .. m : e(i) \in E
    BY <1>1, <1>4
  <2>2. rt = f
    BY <1>2
  <2> HIDE DEF e
  <2>3. f \in Seq(E) /\ Len(f) = m
    BY <1>1, <2>1, IsASeq
  <2>4. \A i \in 1 .. m : f[i] = e(i)
    OBVIOUS
  <2> HIDE DEF f
  <2>5. QED
    BY <2>2, <2>3, <2>4 DEF e
<1>8. ASSUME NEW i \in 1 .. l PROVE ru[i] = rt[i]
  <2>1. (l - i) + 1 \in 1 .. l /\ i \in 1 .. m /\ m - l + ((l - i) + 1) = (m - i) + 1
    BY <1>1
  <2>2. u[(l - i) + 1] = t[m - l + ((l - i) + 1)]
    BY <1>5, <2>1
  <2>3. ru[i] = u[(l - i) + 1] /\ rt[i] = t[(m - i) + 1]
    BY <1>6, <1>7, <2>1
  <2>4. t[m - l + ((l - i) + 1)] = t[(m - i) + 1]
    BY <2>1
  <2>5. QED
    BY <2>2, <2>3, <2>4
<1>9. CmdHistory!IsPrefix(ru, rt)
  BY <1>1, <1>6, <1>7, <1>8, PrefixIs
<1>10. QED
  BY <1>9 DEF CmdHistory!IsSuffix, ru, rt

LEMMA WrittenLines ==
  ASSUME cmd_history \in Seq(HistoryEntry), NEW n \in 0 .. Len(cmd_history)
  PROVE  /\ Len(CmdHistory!Written(n)) = Len(cmd_history) - n
         /\ \A j \in 1 .. Len(cmd_history) - n : CmdHistory!Written(n)[j] = cmd_history[n + j].cmd
<1> DEFINE m == Len(cmd_history)
           t == SubSeq(cmd_history, n + 1, m)
<1>1. m \in Nat /\ n \in 0 .. m
  OBVIOUS
<1>2. t \in Seq(HistoryEntry) /\ Len(t) = m - n /\ \A j \in 1 .. m - n : t[j] = cmd_history[n + j]
  BY <1>1
<1>3. CmdHistory!Written(n) = CmdHistory!Lines(t)
  BY DEF CmdHistory!Written
<1> HIDE DEF t, m
<1>4. CmdHistory!Lines(t) = [j \in 1 .. m - n |-> t[j].cmd] /\ Len(CmdHistory!Lines(t)) = m - n
  BY <1>2, LinesAre DEF CmdHistory!Lines
<1>5. QED
  BY <1>2, <1>3, <1>4 DEF m

\* At exit nothing is truncated: what was typed is the end of the file, and with
\* histappend the file is what it was before.
LEMMA ExitKeeps ==
  ASSUME HistoryInv, Hasty = {}, CmdHistory!Exit("HISTFILE")
  PROVE  /\ CmdHistory!Own # {} => CmdHistory!IsSuffix(CmdHistory!Typed, file')
         /\ histappend => CmdHistory!IsPrefix(file, file')
<1> DEFINE n == hist_file_count
           m == Len(cmd_history)
           f == CmdHistory!Flushed
           w == CmdHistory!Written(n)
           all == CmdHistory!Written(0)
           u == CmdHistory!Typed
<1>1. /\ cmd_history \in Seq(HistoryEntry) /\ file \in Seq(Commands)
      /\ m \in Nat /\ n \in 0 .. m /\ n \in Nat /\ 0 \in 0 .. m /\ hist_cmds_this_session = m - n
  BY DEF HistoryInv, Counted
<1>2. m <= HISTSIZE /\ HISTSIZE \in Nat /\ Len(f) <= HISTFILESIZE /\ HISTFILESIZE \in Nat
  BY ShellStateAssumption DEF CmdHistory!Exit
<1>3. f = IF m - n = 0 THEN file ELSE IF histappend THEN file \o w ELSE all
  <2> DEFINE start == IF histappend THEN n ELSE 0
             from  == IF m - 1 - start > HISTSIZE THEN m - HISTSIZE ELSE start
  <2>1. from = start
    BY <1>1, <1>2
  <2>2. f = IF m - n = 0 THEN file
            ELSE IF histappend THEN file \o CmdHistory!Written(from) ELSE CmdHistory!Written(from)
    BY <1>1 DEF CmdHistory!Flushed
  <2> HIDE DEF from, f
  <2>3. QED
    BY <2>1, <2>2
<1>4. file' = f
  <2> HIDE DEF f
  <2>1. CmdHistory!Truncated(f) = f
    <3>1. ~(Len(f) > HISTFILESIZE)
      <4>1. Len(f) \in Nat
        <5>1. file \o w \in Seq(Commands) /\ all \in Seq(Commands)
          BY <1>1, WrittenIs, ConcatProperties
        <5>2. f \in Seq(Commands)
          BY <1>1, <1>3, <5>1
        <5>3. QED
          BY <5>2
      <4>2. QED
        BY <1>2, <4>1
    <3>2. QED
      BY <3>1 DEF CmdHistory!Truncated
  <2>2. file' = CmdHistory!Truncated(CmdHistory!Truncated(f))
    BY DEF CmdHistory!Exit, CmdHistory!Session, f
  <2>3. QED
    BY <2>1, <2>2
<1>5. /\ w \in Seq(Commands) /\ Len(w) = m - n
      /\ \A j \in 1 .. m - n : w[j] = cmd_history[n + j].cmd
  BY <1>1, WrittenIs, WrittenLines
<1>6. /\ all \in Seq(Commands) /\ Len(all) = m
      /\ \A j \in 1 .. m : all[j] = cmd_history[j].cmd
  <2>1. Len(all) = m - 0 /\ \A j \in 1 .. m - 0 : all[j] = cmd_history[0 + j].cmd
    BY <1>1, WrittenLines
  <2>2. all \in Seq(Commands)
    BY <1>1, WrittenIs
  <2> HIDE DEF all
  <2>3. QED
    BY <1>1, <2>1, <2>2
<1>7. /\ u \in Seq(Commands) /\ Len(u) = m - n
      /\ \A j \in 1 .. m - n : u[j] = cmd_history[n + j].cmd
  BY TypedIs DEF HistoryInv
<1>8. CmdHistory!Own # {} => m - n # 0
  BY <1>1, CountedIs
<1> HIDE DEF n, m, f, w, all, u
<1> DEFINE g == file \o w
<1>9. /\ g \in Seq(Commands) /\ Len(g) = Len(file) + (m - n)
      /\ \A j \in 1 .. Len(file) : g[j] = file[j]
      /\ \A j \in 1 .. m - n : g[Len(file) + j] = w[j]
  <2>1. Len(file) \in Nat /\ Len(w) \in Nat
    BY <1>1, <1>5
  <2>0. g \in Seq(Commands) /\ Len(g) = Len(file) + Len(w)
        /\ \A i \in 1 .. Len(file) + Len(w) : g[i] = IF i <= Len(file) THEN file[i] ELSE w[i - Len(file)]
    BY <1>1, <1>5, ConcatProperties
  <2>2. g \in Seq(Commands) /\ Len(g) = Len(file) + Len(w)
        /\ \A i \in 1 .. Len(g) : g[i] = IF i <= Len(file) THEN file[i] ELSE w[i - Len(file)]
    BY <2>0
  <2> HIDE DEF g
  <2>3. \A j \in 1 .. Len(file) : j \in 1 .. Len(g) /\ j <= Len(file)
    BY <2>1, <2>2
  <2>4. \A j \in 1 .. m - n : Len(file) + j \in 1 .. Len(g) /\ ~(Len(file) + j <= Len(file))
                              /\ (Len(file) + j) - Len(file) = j
    BY <1>1, <1>5, <2>1, <2>2
  <2>5. QED
    BY <1>5, <2>2, <2>3, <2>4
<1> HIDE DEF g
<1>10. ASSUME m - n # 0 PROVE CmdHistory!IsSuffix(u, f)
  <2>1. CASE histappend
    <3>1. f = g
      BY <1>3, <1>10, <2>1 DEF g
    <3>2. Len(u) <= Len(g) /\ Len(g) - Len(u) = Len(file)
      <4>1. Len(file) \in Nat
        BY <1>1
      <4>2. m - n \in Nat /\ Len(u) = m - n /\ Len(g) = Len(file) + (m - n)
        BY <1>1, <1>7, <1>9
      <4>3. QED
        BY <4>1, <4>2
    <3>3. \A j \in 1 .. Len(u) : u[j] = g[Len(g) - Len(u) + j]
      BY <1>5, <1>7, <1>9, <3>2
    <3>4. QED
      BY <1>7, <1>9, <3>1, <3>2, <3>3, SuffixIs
  <2>2. CASE ~histappend
    <3>1. f = all
      BY <1>3, <1>10, <2>2
    <3>2. Len(u) <= Len(all) /\ Len(all) - Len(u) = n
      BY <1>1, <1>6, <1>7
    <3>3. \A j \in 1 .. Len(u) : n + j \in 1 .. m /\ u[j] = all[n + j]
      BY <1>1, <1>6, <1>7
    <3>4. \A j \in 1 .. Len(u) : u[j] = all[Len(all) - Len(u) + j]
      BY <3>2, <3>3
    <3>5. QED
      BY <1>6, <1>7, <3>1, <3>2, <3>4, SuffixIs
  <2>3. QED
    BY <2>1, <2>2
<1>11. ASSUME histappend PROVE CmdHistory!IsPrefix(file, f)
  <2>1. CASE m - n = 0
    <3>1. f = file /\ Len(file) <= Len(file)
      BY <1>1, <1>3, <2>1
    <3>2. QED
      BY <1>1, <3>1, PrefixIs
  <2>2. CASE m - n # 0
    <3>1. f = g /\ Len(file) <= Len(g) /\ \A j \in 1 .. Len(file) : file[j] = g[j]
      BY <1>1, <1>3, <1>9, <1>11, <2>2 DEF g
    <3>2. QED
      BY <1>1, <1>9, <3>1, PrefixIs
  <2>3. QED
    BY <2>1, <2>2
<1>12. QED
  BY <1>4, <1>8, <1>10, <1>11 DEF u

\* A command that is not saved again, or saved again at the end of the list, is in it.
LEMMA SaveKeeps ==
  ASSUME HistoryInv, Hasty = {}, NEW c \in Commands, NEW control \in {"ignoredups", "erasedups"},
         CmdHistory!SaveToHistory(c, control), NEW i \in DOMAIN cmd_history
  PROVE  CmdHistory!Lines(cmd_history)[i] \in CmdHistory!ToSet(CmdHistory!Lines(cmd_history'))
<1> DEFINE r == CmdHistory!Recorded
           h == IF control = "erasedups" THEN CmdHistory!Erased(r, c) ELSE r
           e == CmdHistory!Entry(c, TRUE)
           l == h.list
           g == Append(l, e)
<1>1. r.list = cmd_history /\ r.session = hist_cmds_this_session
  BY DEF CmdHistory!Recorded
<1>2. /\ cmd_history' = g
      /\ \A k \in DOMAIN cmd_history : CmdHistory!Same(cmd_history[k].cmd, c) => cmd_history[k].cmd = c
      /\ control = "erasedups" =>
            \A k \in DOMAIN cmd_history : CmdHistory!Same(cmd_history[k].cmd, c) => k \in CmdHistory!Own
  BY DEF CmdHistory!SaveToHistory
<1>3. e \in HistoryEntry /\ e.cmd = c
  BY DEF CmdHistory!Entry, HistoryEntry
<1>4. /\ cmd_history \in Seq(HistoryEntry) /\ DOMAIN cmd_history = 1 .. Len(cmd_history)
      /\ Counted(r.list, hist_file_count, r.session)
  BY <1>1 DEF HistoryInv, Counted
<1>5. /\ l \in Seq(HistoryEntry)
      /\ \/ CmdHistory!Same(cmd_history[i].cmd, c)
         \/ \E k \in 1 .. Len(l) : l[k] = cmd_history[i]
  <2>1. CASE control = "erasedups"
    <3>1. \A k \in 1 .. Len(r.list) : CmdHistory!Same(r.list[k].cmd, c) => r.list[k].own
      BY <1>1, <1>2, <1>4, <2>1 DEF CmdHistory!Own
    <3>2. l = CmdHistory!Erased(r, c).list
      BY <2>1
    <3> HIDE DEF r, l
    <3>3. /\ Counted(CmdHistory!Erased(r, c).list, hist_file_count, CmdHistory!Erased(r, c).session)
          /\ OthersStay(r.list, CmdHistory!Erased(r, c).list, c)
      BY <1>4, <3>1, ErasedIs
    <3>4. l \in Seq(HistoryEntry) /\ OthersStay(cmd_history, l, c)
      BY <1>1, <3>2, <3>3 DEF Counted
    <3>5. QED
      BY <1>4, <3>4 DEF OthersStay
  <2>2. CASE control # "erasedups"
    <3>1. l = cmd_history
      BY <1>1, <2>2
    <3>2. QED
      BY <1>4, <3>1
  <2>3. QED
    BY <2>1, <2>2
<1> HIDE DEF r, h, e, l
<1>6. /\ g \in Seq(HistoryEntry) /\ DOMAIN g = 1 .. Len(l) + 1 /\ Len(l) \in Nat /\ g[Len(l) + 1] = e
      /\ \A k \in 1 .. Len(l) : g[k] = l[k]
  BY <1>3, <1>5
<1> HIDE DEF g
<1>7. \E k \in DOMAIN g : g[k].cmd = cmd_history[i].cmd
  <2>1. CASE CmdHistory!Same(cmd_history[i].cmd, c)
    <3>1. Len(l) + 1 \in DOMAIN g /\ g[Len(l) + 1].cmd = cmd_history[i].cmd
      BY <1>2, <1>3, <1>6, <2>1
    <3>2. QED
      BY <3>1
  <2>2. CASE \E k \in 1 .. Len(l) : l[k] = cmd_history[i]
    <3>1. PICK k \in 1 .. Len(l) : l[k] = cmd_history[i]
      BY <2>2
    <3>2. k \in DOMAIN g /\ g[k] = l[k]
      BY <1>6, <3>1
    <3>3. QED
      BY <3>1, <3>2
  <2>3. QED
    BY <1>5, <2>1, <2>2
<1>8. PICK k \in DOMAIN g : g[k].cmd = cmd_history[i].cmd
  BY <1>7
<1>9. CmdHistory!Lines(cmd_history)[i] = cmd_history[i].cmd
  BY DEF CmdHistory!Lines
<1>10. CmdHistory!Lines(g)[k] = g[k].cmd /\ k \in DOMAIN CmdHistory!Lines(g)
  BY <1>8 DEF CmdHistory!Lines
<1>11. CmdHistory!Lines(g)[k] \in CmdHistory!ToSet(CmdHistory!Lines(g))
  BY <1>10 DEF CmdHistory!ToSet
<1>12. QED
  BY <1>2, <1>8, <1>9, <1>10, <1>11

(* If no habit of users gets in the way, the commands of a session are the end *)
(* of the file that it leaves, histappend keeps what was there, and ignoredups *)
(* and erasedups drop no command that is not saved again                       *)
(* (builtins/history.c:640, 839, 911).                                         *)
THEOREM SessionIsKept == ASSUME Hasty = {} PROVE Spec => NothingForgotten
<1> DEFINE Inv == part = "history" => HistoryInv
<1>1. Patient
  BY DEF Patient
<1>2. Init => Inv
  BY HistoryStarts DEF Init
<1>3. Inv /\ [Next]_vars => Inv'
  BY <1>1, InHistory, HistorySteps
<1>4. Inv => (part = "history" => CmdHistory!StepForgetsNothing)
  <2>1. CmdHistory!Outlets = {"HISTFILE"} \/ Hasty # {}
    BY DEF CmdHistory!Outlets
  <2>2. QED
    BY <2>1, ExitKeeps, SaveKeeps DEF CmdHistory!StepForgetsNothing
<1>5. QED
  BY <1>2, <1>3, <1>4, PTL DEF Spec, NothingForgotten
=============================================================================
