---------------------------- MODULE Traps_proofs ----------------------------
(***************************************************************************)
(* Proofs about Traps for every set of signals and every depth of traps    *)
(* and waits.  Each result names the habits of Touchiness it excludes.     *)
(***************************************************************************)
EXTENDS Traps, SequenceTheorems, WellFoundedInduction, TLAPS

\* The signals that have a number below those of ERR, CHLD and DEBUG.
Numbered == Signals \subseteq 1 .. 31

Frames == [is : {"program", "trap", "wait", "pending", "over"}, cond : Int, masked : BOOLEAN]

(* What can be active: the program, or the end of it, is at the bottom, the *)
(* shell waits at the top only, and only a trap runs when it is over.  A    *)
(* trap that no mask protects was started by do_pending_traps(), for the    *)
(* bit that is being looked at, or belongs to a special condition.          *)
Last(a) == a[Len(a)]
StackOf(a) ==
    /\ a \in Seq(Frames) /\ a # <<>>
    /\ a[1].is \in {"program", "over"}
    /\ \A i \in 1 .. Len(a) - 1 :
          /\ a[i].is # "wait"
          /\ a[i].is = "over" => a[i+1].is = "trap"
          /\ a[i+1].is = "trap" /\ ~a[i+1].masked =>
                /\ a[i].is = "pending" => a[i].cond = a[i+1].cond
                /\ a[i+1].cond \in Signals <=> a[i].is = "pending"

Stack ==
    /\ StackOf(active)
    /\ Top.is = "over" => active = <<Over>>
    /\ Top.is # "over" => (waiting <=> Top.is = "wait")
    /\ waiting \in BOOLEAN

LEMMA WithoutTop ==
  ASSUME NEW s \in Seq(Frames), s # <<>>
  PROVE  /\ Len(s) \in Nat /\ Len(s) >= 1
         /\ SubSeq(s, 1, Len(s) - 1) \in Seq(Frames)
         /\ Len(SubSeq(s, 1, Len(s) - 1)) = Len(s) - 1
         /\ \A i \in 1 .. Len(s) - 1 : SubSeq(s, 1, Len(s) - 1)[i] = s[i]
<1> DEFINE l == Len(s)  k == Len(SubSeq(s, 1, l - 1))
<1>1. l \in Nat /\ l >= 1
  BY EmptySeq
<1>2. \A i \in 1 .. l - 1 : s[i] \in Frames
  BY <1>1, ElementOfSeq
<1>3. k = IF 1 <= l - 1 THEN l - 1 - 1 + 1 ELSE 0
  BY <1>1, <1>2, SubSeqProperties
<1>4. k = l - 1
  <2> HIDE DEF l, k
  <2>1. QED
    BY <1>1, <1>3
<1>5. QED
  BY <1>1, <1>4

LEMMA WithFrame ==
  ASSUME NEW s \in Seq(Frames), NEW f \in Frames
  PROVE  LET a == Append(s, f) IN
         /\ Len(s) \in Nat
         /\ a \in Seq(Frames) /\ a # <<>> /\ Len(a) = Len(s) + 1
         /\ \A i \in 1 .. Len(s) : a[i] = s[i]
         /\ a[Len(s) + 1] = f
  BY AppendProperties, LenProperties

(* The frames that are pushed.                                              *)
LEMMA FrameTypes ==
  /\ Program \in Frames /\ WaitOf \in Frames /\ Over \in Frames
  /\ \A i \in Int : PendingAt(i) \in Frames
  /\ \A c \in Int, m \in BOOLEAN : Trap(c, m) \in Frames
  BY DEF Frames, Program, WaitOf, Over, PendingAt, Trap

LEMMA ConditionTypes ==
  ASSUME Numbered
  PROVE  /\ Conditions \subseteq Int /\ Special \subseteq Conditions /\ Signals \subseteq Conditions
         /\ -1 \notin Conditions /\ Signals \cap Special = {}
         /\ {EXIT, ERR, CHLD, DEBUG} \subseteq Special
         /\ \A s, t \in Signals : Bit(s) = Bit(t) => s = t
         /\ \A s \in Signals : s \in Nat /\ s # 0 /\ s >= 1
  BY DEF Numbered, Conditions, Special, EXIT, ERR, CHLD, DEBUG, Bit

(* NextBit finds the lowest signal from i on whose bit is set, or there is  *)
(* none.                                                                    *)
LEMMA NextBitFinds ==
  ASSUME Numbered, NEW i \in Int
  PROVE  \/ /\ NextBit(i) = 0
            /\ \A s \in Signals : s >= i => Bit(s) \notin pending_traps
         \/ /\ NextBit(i) \in Signals /\ NextBit(i) >= i /\ Bit(NextBit(i)) \in pending_traps
            /\ \A s \in Signals : s >= i /\ Bit(s) \in pending_traps => s >= NextBit(i)
<1> DEFINE P == {s \in Signals : s >= i /\ Bit(s) \in pending_traps}
<1>1. CASE P = {}
  BY <1>1 DEF NextBit
<1>2. CASE P # {}
  <2>0. Signals \subseteq Nat
    BY DEF Numbered
  <2>1. P \subseteq Nat
    BY <2>0
  <2>2. PICK m \in P : \A k \in P : ~ (<<k, m>> \in OpToRel(<, Nat))
    BY <1>2, <2>1, WFMin, NatLessThanWellFounded
  <2>3. \A k \in P : ~ (k < m)
    BY <2>1, <2>2 DEF OpToRel
  <2> DEFINE Q(s) == /\ s >= i /\ Bit(s) \in pending_traps
                     /\ \A t \in i..(s-1) : t \notin Signals \/ Bit(t) \notin pending_traps
  <2>4. Q(m)
    BY <2>1, <2>3
  <2>5. NextBit(i) = CHOOSE s \in Signals : Q(s)
    BY <1>2 DEF NextBit
  <2>6. NextBit(i) \in Signals /\ Q(NextBit(i))
    BY <2>4, <2>5
  <2>7. ASSUME NEW s \in Signals, s >= i, Bit(s) \in pending_traps
        PROVE  s >= NextBit(i)
    <3>1. s \in Nat /\ NextBit(i) \in Nat
      BY <2>0, <2>6
    <3>2. s \in i .. NextBit(i) - 1 \/ s >= NextBit(i)
      BY <2>7, <3>1
    <3>3. QED
      BY <2>6, <2>7, <3>2
  <2>8. QED
    BY <2>6, <2>7
<1>3. QED
  BY <1>1, <1>2

LEMMA PushStack ==
  ASSUME NEW a, StackOf(a), NEW f \in Frames,
         Last(a).is # "wait", Last(a).is = "over" => f.is = "trap",
         f.is = "trap" /\ ~f.masked =>
            /\ Last(a).is = "pending" => Last(a).cond = f.cond
            /\ f.cond \in Signals <=> Last(a).is = "pending"
  PROVE  StackOf(Append(a, f)) /\ Last(Append(a, f)) = f
<1> DEFINE b == Append(a, f)
<1>1. /\ Len(a) \in Nat /\ Len(a) >= 1
      /\ b \in Seq(Frames) /\ b # <<>> /\ Len(b) = Len(a) + 1
      /\ \A i \in 1 .. Len(a) : b[i] = a[i]
      /\ b[Len(a) + 1] = f
  BY WithFrame, WithoutTop DEF StackOf
<1>2. QED
  <2> HIDE DEF b
  <2>1. QED
    BY <1>1 DEF StackOf, Last

LEMMA PopStack ==
  ASSUME NEW a, StackOf(a), Len(a) >= 2
  PROVE  StackOf(SubSeq(a, 1, Len(a) - 1)) /\ Last(SubSeq(a, 1, Len(a) - 1)) = a[Len(a) - 1]
<1> DEFINE b == SubSeq(a, 1, Len(a) - 1)
<1>1. /\ Len(a) \in Nat /\ b \in Seq(Frames) /\ Len(b) = Len(a) - 1
      /\ \A i \in 1 .. Len(a) - 1 : b[i] = a[i]
  BY WithoutTop DEF StackOf
<1>2. QED
  <2> HIDE DEF b
  <2>1. b # <<>>
    BY <1>1
  <2>2. QED
    BY <1>1, <2>1 DEF StackOf, Last

LEMMA ReplaceStack ==
  ASSUME NEW a, StackOf(a), Last(a).is = "pending", NEW k \in Int
  PROVE  /\ StackOf([a EXCEPT ![Len(a)] = PendingAt(k)])
         /\ Last([a EXCEPT ![Len(a)] = PendingAt(k)]) = PendingAt(k)
<1> DEFINE b == [a EXCEPT ![Len(a)] = PendingAt(k)]
<1>1. /\ Len(a) \in Nat /\ Len(a) >= 1
      /\ b \in Seq(Frames) /\ Len(b) = Len(a)
      /\ \A i \in 1 .. Len(a) : b[i] = IF i = Len(a) THEN PendingAt(k) ELSE a[i]
  BY WithoutTop, ExceptSeq, FrameTypes DEF StackOf
<1>2. QED
  <2> HIDE DEF b
  <2>1. b # <<>> /\ PendingAt(k).is = "pending"
    BY <1>1 DEF PendingAt
  <2>2. QED
    BY <1>1, <2>1 DEF StackOf, Last

(* trap_handler() leaves the stack it is called on, or starts a trap on it. *)
LEMMA HandlerStack ==
  ASSUME Numbered, NEW c \in Conditions, NEW m \in BOOLEAN, NEW o, StackOf(o),
         TrapHandler(c, m, o), m \/ c \notin Signals,
         Last(o).is = "wait" => waiting, Last(o).is = "pending" => m
  PROVE  \/ active' = o
         \/ ~waiting /\ active' = Append(o, Trap(c, m)) /\ StackOf(active') /\ Last(active') = Trap(c, m)
<1>1. CASE active' = o
  BY <1>1
<1>2. CASE active' # o
  <2>1. ~waiting /\ active' = Append(o, Trap(c, m))
    BY <1>2 DEF TrapHandler, TrapHandlerUnguarded, Starts
  <2>2. Trap(c, m) \in Frames /\ Trap(c, m).is = "trap" /\ Trap(c, m).masked = m /\ Trap(c, m).cond = c
    BY FrameTypes, ConditionTypes DEF Trap
  <2>3. QED
    BY <2>1, <2>2, PushStack
<1>3. QED
  BY <1>1, <1>2

LEMMA InitStack == Init => Stack
<1> SUFFICES ASSUME Init PROVE Stack
  OBVIOUS
<1>1. /\ active \in Seq(Frames) /\ active # <<>> /\ Len(active) = 1
      /\ active[1] = Program /\ waiting = FALSE /\ Program.is = "program"
  BY FrameTypes DEF Init, Program
<1>2. StackOf(active)
  BY <1>1 DEF StackOf
<1>3. Top = Program
  BY <1>1 DEF Top
<1>4. QED
  BY <1>1, <1>2, <1>3 DEF Stack

LEMMA OverAlone == StackOf(<<Over>>) /\ Last(<<Over>>) = Over
  BY FrameTypes DEF StackOf, Last, Over

LEMMA NextStack == Numbered /\ Stack /\ [Next]_vars => Stack'
<1> SUFFICES ASSUME Numbered, Stack, [Next]_vars PROVE Stack'
  OBVIOUS
<1>a. /\ StackOf(active) /\ Last(active) = Top /\ waiting \in BOOLEAN
      /\ Len(active) \in Nat /\ Len(active) >= 1
      /\ Top.is = "over" => active = <<Over>>
      /\ Top.is # "over" => (waiting <=> Top.is = "wait")
      /\ Top' = Last(active')
  BY WithoutTop DEF Stack, StackOf, Last, Top
<1>b. /\ Top.is \in {"trap", "wait", "pending"} => Len(active) >= 2
      /\ \A i \in 1 .. Len(active) - 1 :
            active[i].is # "wait" /\ (active[i].is = "over" => active[i+1].is = "trap")
  BY <1>a DEF StackOf, Last
<1>c. Over.is = "over" /\ (\A c, m : Trap(c, m).is = "trap") /\ (\A i : PendingAt(i).is = "pending")
  BY DEF Over, Trap, PendingAt
<1>1. ASSUME active' = active, waiting' = waiting PROVE Stack'
  BY <1>1, <1>a DEF Stack
<1>2. ASSUME NEW c \in Conditions, NEW m \in BOOLEAN, TrapHandler(c, m, active),
             m \/ c \notin Signals, waiting' = waiting, Top.is = "pending" => m, Top.is # "over"
      PROVE  Stack'
  <2>1. \/ active' = active
        \/ ~waiting /\ StackOf(active') /\ Last(active') = Trap(c, m)
    BY <1>2, <1>a, HandlerStack
  <2>2. QED
    BY <1>1, <1>2, <1>a, <1>c, <2>1 DEF Stack
<1>3. ASSUME NEW s \in Signals, Deliver(s) PROVE Stack'
  BY <1>2, <1>3, ConditionTypes DEF Deliver
<1>4. ASSUME Command \/ Failure \/ JobEnds PROVE Stack'
  <2>1. Top.is \in {"program", "trap", "wait"} /\ waiting' = waiting
        /\ \E c \in Special : TrapHandler(c, FALSE, active)
    BY <1>4 DEF Command, Failure, JobEnds, Running, Idle, Special
  <2>2. QED
    BY <1>2, <2>1, ConditionTypes
<1>5. ASSUME StartWait PROVE Stack'
  <2>1. Top.is \in {"program", "trap"} /\ active' = Append(active, WaitOf) /\ waiting' = TRUE
    BY <1>5 DEF StartWait, Running
  <2>2. WaitOf \in Frames /\ WaitOf.is = "wait"
    BY FrameTypes DEF WaitOf
  <2>3. StackOf(active') /\ Last(active') = WaitOf
    BY <1>a, <2>1, <2>2, PushStack
  <2>4. QED
    BY <1>a, <2>1, <2>2, <2>3 DEF Stack
<1>6. ASSUME Top.is \in {"wait", "pending"} PROVE /\ StackOf(Without) /\ Last(Without) = active[Len(active) - 1]
                                                  /\ Last(Without).is \notin {"wait", "over"}
  BY <1>6, <1>a, <1>b, PopStack DEF Without, Last
<1>7. ASSUME Top.is \in {"wait", "pending"}, NEW i \in Int
      PROVE  StackOf(Append(Without, PendingAt(i))) /\ Last(Append(Without, PendingAt(i))) = PendingAt(i)
  <2>1. PendingAt(i) \in Frames /\ PendingAt(i).is = "pending"
    BY FrameTypes DEF PendingAt
  <2>2. QED
    BY <1>6, <1>7, <2>1, PushStack
<1>8. ASSUME EndWait PROVE Stack'
  <2>1. /\ Top.is = "wait" /\ waiting' = FALSE
        /\ active' = Without \/ active' = Append(Without, PendingAt(1))
    BY <1>8 DEF EndWait
  <2>2. StackOf(active') /\ Last(active').is \notin {"wait", "over"}
    <3>1. CASE active' = Without
      BY <1>6, <2>1, <3>1
    <3>2. CASE active' = Append(Without, PendingAt(1))
      BY <1>c, <1>7, <2>1, <3>2
    <3>3. QED
      BY <2>1, <3>1, <3>2
  <2>3. QED
    BY <1>a, <2>1, <2>2 DEF Stack
<1>9. ASSUME DoPending PROVE Stack'
  <2>0. Last(active) \in Frames
    BY <1>a, ElementOfSeq DEF StackOf, Last
  <2>1. Top.is = "pending" /\ waiting' = waiting /\ Top.cond \in Int
    BY <1>9, <1>a, <2>0 DEF DoPending, Idle, Frames
  <2>2. NextBit(Top.cond) = 0 \/ NextBit(Top.cond) \in Signals
    BY <2>1, NextBitFinds
  <2> DEFINE i == NextBit(Top.cond)
  <2>3. i \in Int /\ i + 1 \in Int
    BY <2>2, ConditionTypes
  <2>4. CASE active' = Without \/ active' = Append(Without, PendingAt(i + 1))
    <3>1. StackOf(active') /\ Last(active').is \notin {"wait", "over"}
      BY <1>c, <1>6, <1>7, <2>1, <2>3, <2>4
    <3>2. QED
      BY <1>a, <2>1, <3>1 DEF Stack
  <2>5. CASE i # 0 /\ active' = Append(Append(Without, PendingAt(i)), Trap(i, FALSE))
    <3>1. /\ Trap(i, FALSE) \in Frames /\ Trap(i, FALSE).is = "trap" /\ Trap(i, FALSE).cond = i
          /\ PendingAt(i).is = "pending" /\ PendingAt(i).cond = i
      BY <2>3, FrameTypes DEF Trap, PendingAt
    <3>2. StackOf(active') /\ Last(active').is = "trap"
      BY <1>7, <2>1, <2>2, <2>3, <2>5, <3>1, PushStack
    <3>3. QED
      BY <1>a, <2>1, <3>2 DEF Stack
  <2>6. QED
    BY <1>9, <2>4, <2>5 DEF DoPending, Starts
<1>10. ASSUME EndTrap PROVE Stack'
  <2> DEFINE n == Len(active) - 1  below == active[n]
  <2>1. Top.is = "trap" /\ waiting' = waiting /\ n \in Nat /\ n >= 1
    BY <1>10, <1>a, <1>b DEF EndTrap
  <2>2. /\ StackOf(Without) /\ Last(Without) = below /\ Len(Without) = n
        /\ below.is # "wait" /\ below.cond \in Int
    <3>1. StackOf(Without) /\ Last(Without) = below
      BY <1>a, <1>b, <2>1, PopStack DEF Without
    <3>2. active \in Seq(Frames) /\ active # <<>>
      BY <1>a DEF StackOf
    <3>3. Len(Without) = n /\ below \in Frames
      BY <1>a, <2>1, <3>2, WithoutTop, ElementOfSeq DEF Without
    <3>4. QED
      BY <1>b, <2>1, <3>1, <3>3 DEF Frames
  <2>3. CASE active' = [Without EXCEPT ![n] = PendingAt(below.cond + 1)] /\ below.is = "pending"
    <3>1. StackOf(active') /\ Last(active') = PendingAt(below.cond + 1)
      <4> HIDE DEF n, below
      <4>1. below.cond + 1 \in Int
        BY <2>2
      <4>2. QED
        BY <2>2, <2>3, <4>1, ReplaceStack
    <3>2. QED
      BY <1>a, <2>1, <3>1 DEF Stack, PendingAt
  <2>4. CASE active' = <<Over>>
    BY <1>a, <1>c, <2>1, <2>4, OverAlone DEF Stack
  <2>5. CASE active' = Without /\ below.is # "over"
    BY <1>a, <2>1, <2>2, <2>5 DEF Stack
  <2>6. QED
    BY <1>10, <2>3, <2>4, <2>5 DEF EndTrap
<1>11. ASSUME Exit PROVE Stack'
  <2>1. Running /\ waiting' = waiting /\ ~waiting
    BY <1>11, <1>a DEF Exit, Idle, Running
  <2>2. CASE active' = <<Over>>
    BY <1>a, <1>c, <2>1, <2>2, OverAlone DEF Stack
  <2>3. CASE active' = Append(Append(active, Over), Trap(EXIT, FALSE))
    <3>1. StackOf(Append(active, Over)) /\ Last(Append(active, Over)) = Over
      BY <1>a, <2>1, FrameTypes, PushStack DEF Over, Running
    <3>2. /\ Trap(EXIT, FALSE) \in Frames /\ Trap(EXIT, FALSE).is = "trap"
          /\ Trap(EXIT, FALSE).cond \notin Signals
      BY FrameTypes, ConditionTypes DEF Trap, EXIT
    <3>3. StackOf(active') /\ Last(active').is = "trap"
      BY <1>c, <2>3, <3>1, <3>2, PushStack
    <3>4. QED
      BY <1>a, <2>1, <3>3 DEF Stack
  <2>4. QED
    BY <1>11, <2>1, <2>2, <2>3 DEF Exit, TrapHandler, TrapHandlerUnguarded, Starts
<1>12. ASSUME Hangup PROVE Stack'
  <2>1. active' = <<Over>> /\ waiting' = waiting
    BY <1>12, <1>a DEF Hangup, Idle, TrapHandler, TrapHandlerUnguarded
  <2>2. QED
    BY <1>a, <1>c, <2>1, OverAlone DEF Stack
<1>13. ASSUME NEW c \in Conditions, NEW a \in {"default", "ignore", "execute"}, SetTrap(c, a) PROVE Stack'
  BY <1>1, <1>13 DEF SetTrap
<1>14. ASSUME NEW s \in Signals, Kill(s) PROVE Stack'
  BY <1>1, <1>14 DEF Kill
<1>15. ASSUME Done \/ UNCHANGED vars PROVE Stack'
  BY <1>1, <1>15 DEF Done, vars
<1>16. QED
  BY <1>3, <1>4, <1>5, <1>8, <1>9, <1>10, <1>11, <1>12, <1>13, <1>14, <1>15 DEF Next

(* Types: what else the other invariants need to know.                      *)
Known ==
    /\ arrived \subseteq Signals
    /\ executing_trap \in {-1} \cup Conditions

LEMMA NextKnown == Numbered /\ Stack /\ Known /\ [Next]_vars => Known'
<1> SUFFICES ASSUME Numbered, Stack, Known, [Next]_vars PROVE Known'
  OBVIOUS
<1> USE DEF Known
<1>1. \A c, m, o : TrapHandler(c, m, o) => executing_trap' \in {executing_trap, c}
  BY DEF TrapHandler, TrapHandlerUnguarded, Starts
<1>2. ASSUME NEW s \in Signals, Kill(s) \/ Deliver(s) PROVE Known'
  BY <1>1, <1>2, ConditionTypes DEF Kill, Deliver
<1>3. ASSUME Command \/ Failure \/ JobEnds \/ Exit \/ Hangup PROVE Known'
  <2>1. arrived' = arrived
    BY <1>3 DEF Command, Failure, JobEnds, Exit, Hangup, Idle
  <2>2. executing_trap' \in {executing_trap} \cup Special
    BY <1>1, <1>3 DEF Command, Failure, JobEnds, Exit, Hangup, Special
  <2>3. QED
    BY <2>1, <2>2, ConditionTypes
<1>4. ASSUME DoPending PROVE Known'
  <2>1. Last(active) \in Frames /\ Top = Last(active)
    BY ElementOfSeq, WithoutTop DEF Stack, StackOf, Last, Top
  <2>2. Top.cond \in Int
    BY <2>1 DEF Frames
  <2>3. NextBit(Top.cond) = 0 \/ NextBit(Top.cond) \in Signals
    BY <2>2, NextBitFinds
  <2>4. QED
    BY <1>4, <2>3, ConditionTypes DEF DoPending, Starts, Idle
<1>5. ASSUME EndTrap PROVE Known'
  BY <1>5 DEF EndTrap
<1>6. ASSUME NEW c \in Conditions, NEW a \in {"default", "ignore", "execute"}, SetTrap(c, a) PROVE Known'
  BY <1>6 DEF SetTrap
<1>7. ASSUME StartWait \/ EndWait \/ Done \/ UNCHANGED vars PROVE Known'
  BY <1>7 DEF StartWait, EndWait, Done, vars
<1>8. QED
  BY <1>2, <1>3, <1>4, <1>5, <1>6, <1>7 DEF Next

----------------------------------------------------------------------------
(* A trap that no mask protects is the last one that was started, and the   *)
(* one that executing_trap names; each condition has one trap in progress.  *)
SingleOf(a, e) ==
    /\ \A i \in 1 .. Len(a) : a[i].is = "trap" /\ ~a[i].masked =>
          e = a[i].cond /\ \A j \in i+1 .. Len(a) : a[j].is # "trap"
    /\ \A i, j \in 1 .. Len(a) :
          a[i].is = "trap" /\ a[j].is = "trap" /\ a[i].cond = a[j].cond => i = j

Single == SingleOf(active, executing_trap)

LEMMA PushSingle ==
  ASSUME NEW a \in Seq(Frames), NEW e, SingleOf(a, e), NEW f \in Frames, f.is # "trap"
  PROVE  SingleOf(Append(a, f), e)
<1> DEFINE b == Append(a, f)
<1>1. /\ Len(a) \in Nat /\ Len(b) = Len(a) + 1
      /\ \A i \in 1 .. Len(a) : b[i] = a[i]
      /\ b[Len(a) + 1] = f
  BY WithFrame
<1> HIDE DEF b
<1>2. QED
  BY <1>1 DEF SingleOf

LEMMA StartSingle ==
  ASSUME NEW a \in Seq(Frames), NEW e, SingleOf(a, e), NEW c \in Int, NEW m \in BOOLEAN, e # c,
         \A i \in DOMAIN a : a[i].is = "trap" => a[i].masked = (a[i].cond # c)
  PROVE  SingleOf(Append(a, Trap(c, m)), c)
<1> DEFINE f == Trap(c, m)  b == Append(a, f)
<1>1. f \in Frames /\ f.is = "trap" /\ f.cond = c
  BY FrameTypes DEF Trap
<1>2. /\ Len(a) \in Nat /\ Len(b) = Len(a) + 1 /\ DOMAIN a = 1 .. Len(a)
      /\ \A i \in 1 .. Len(a) : b[i] = a[i]
      /\ b[Len(a) + 1] = f
  BY <1>1, WithFrame, LenProperties
<1> HIDE DEF b, f
<1>3. \A i \in 1 .. Len(a) : a[i].is = "trap" => a[i].masked /\ a[i].cond # c
  BY <1>2 DEF SingleOf
<1>4. SingleOf(b, c)
  BY <1>1, <1>2, <1>3 DEF SingleOf
<1>5. QED
  BY <1>4 DEF b, f

LEMMA PopSingle ==
  ASSUME NEW a \in Seq(Frames), a # <<>>, NEW e, SingleOf(a, e), NEW d, d = e \/ Last(a).is = "trap"
  PROVE  SingleOf(SubSeq(a, 1, Len(a) - 1), d)
<1> DEFINE b == SubSeq(a, 1, Len(a) - 1)
<1>1. /\ Len(a) \in Nat /\ Len(a) >= 1 /\ Len(b) = Len(a) - 1
      /\ \A i \in 1 .. Len(a) - 1 : b[i] = a[i]
  BY WithoutTop
<1> HIDE DEF b
<1>2. QED
  BY <1>1 DEF SingleOf, Last

LEMMA ReplaceSingle ==
  ASSUME NEW a \in Seq(Frames), a # <<>>, NEW e, SingleOf(a, e), NEW k \in Int
  PROVE  SingleOf([a EXCEPT ![Len(a)] = PendingAt(k)], e)
<1> DEFINE b == [a EXCEPT ![Len(a)] = PendingAt(k)]
<1>1. PendingAt(k) \in Frames /\ PendingAt(k).is = "pending"
  BY FrameTypes DEF PendingAt
<1>2. /\ Len(a) \in Nat /\ Len(a) >= 1 /\ Len(b) = Len(a)
      /\ \A i \in 1 .. Len(a) : b[i] = IF i = Len(a) THEN PendingAt(k) ELSE a[i]
  BY <1>1, WithoutTop, ExceptSeq
<1> HIDE DEF b
<1>3. QED
  BY <1>1, <1>2 DEF SingleOf

LEMMA OverSingle == \A e : SingleOf(<<Over>>, e)
  BY DEF SingleOf, Over

(* trap_handler() starts no trap that executing_trap says is running.       *)
LEMMA HandlerSingle ==
  ASSUME "nested" \notin Touchy, NEW c \in Int, NEW m \in BOOLEAN,
         NEW o \in Seq(Frames), SingleOf(o, executing_trap), TrapHandler(c, m, o)
  PROVE  Single'
<1>1. CASE active' = o /\ executing_trap' = executing_trap
  BY <1>1 DEF Single
<1>2. CASE Starts(c, m, o) /\ executing_trap # c
  <2>1. SingleOf(Append(o, Trap(c, m)), c)
    BY <1>2, StartSingle DEF Starts
  <2>2. QED
    BY <1>2, <2>1 DEF Starts, Single
<1>3. QED
  BY <1>1, <1>2 DEF TrapHandler, TrapHandlerUnguarded

LEMMA NextSingle ==
  ASSUME Numbered, "nested" \notin Touchy, Stack, Single, [Next]_vars
  PROVE  Single'
<1>a. /\ active \in Seq(Frames) /\ active # <<>> /\ SingleOf(active, executing_trap)
      /\ Len(active) \in Nat /\ Len(active) >= 1 /\ Top = Last(active) /\ StackOf(active)
  BY WithoutTop DEF Stack, StackOf, Last, Top, Single
<1>b. /\ Program \in Frames /\ WaitOf \in Frames /\ Over \in Frames
      /\ Program.is # "trap" /\ WaitOf.is # "trap" /\ Over.is # "trap"
      /\ \A i \in Int : PendingAt(i) \in Frames /\ PendingAt(i).is = "pending"
  BY FrameTypes DEF Program, WaitOf, Over, PendingAt
<1>c. /\ Without \in Seq(Frames)
      /\ SingleOf(Without, executing_trap)
      /\ Top.is = "trap" => SingleOf(Without, -1)
  BY <1>a, WithoutTop, PopSingle DEF Without
<1>d. ASSUME NEW i \in Int
      PROVE  /\ Append(Without, PendingAt(i)) \in Seq(Frames)
             /\ SingleOf(Append(Without, PendingAt(i)), executing_trap)
  BY <1>b, <1>c, WithFrame, PushSingle
<1>1. ASSUME active' = active, executing_trap' = executing_trap PROVE Single'
  BY <1>1, <1>a DEF Single
<1>2. ASSUME NEW s \in Signals, Deliver(s) PROVE Single'
  BY <1>2, <1>a, HandlerSingle, ConditionTypes DEF Deliver
<1>3. ASSUME Command \/ Failure \/ JobEnds PROVE Single'
  <2>1. \E c \in Special : TrapHandler(c, FALSE, active)
    BY <1>3 DEF Command, Failure, JobEnds, Special
  <2>2. QED
    BY <1>a, <2>1, HandlerSingle, ConditionTypes
<1>4. ASSUME StartWait PROVE Single'
  BY <1>4, <1>a, <1>b, PushSingle DEF StartWait, Single
<1>5. ASSUME EndWait PROVE Single'
  <2>1. CASE active' = Without
    BY <1>5, <1>c, <2>1 DEF EndWait, Single
  <2>2. CASE active' = Append(Without, PendingAt(1))
    BY <1>5, <1>d, <2>2 DEF EndWait, Single
  <2>3. QED
    BY <1>5, <2>1, <2>2 DEF EndWait
<1>6. ASSUME DoPending PROVE Single'
  <2> DEFINE i == NextBit(Top.cond)
  <2>1. Last(active) \in Frames
    BY <1>a, ElementOfSeq DEF Last
  <2>2. Top.cond \in Int
    BY <1>a, <2>1 DEF Frames
  <2>3. i \in Int /\ i + 1 \in Int
    BY <2>2, NextBitFinds, ConditionTypes
  <2>4. CASE active' = Without /\ executing_trap' = executing_trap
    BY <1>c, <2>4 DEF Single
  <2>5. CASE active' = Append(Without, PendingAt(i + 1)) /\ executing_trap' = executing_trap
    BY <1>d, <2>3, <2>5 DEF Single
  <2>6. CASE Starts(i, FALSE, Append(Without, PendingAt(i))) /\ executing_trap # i
    <3> HIDE DEF i
    <3>1. SingleOf(Append(Append(Without, PendingAt(i)), Trap(i, FALSE)), i)
      BY <1>d, <2>3, <2>6, StartSingle DEF Starts
    <3>2. QED
      BY <2>6, <3>1 DEF Starts, Single
  <2>7. QED
    BY <1>6, <2>4, <2>5, <2>6 DEF DoPending
<1>7. ASSUME EndTrap PROVE Single'
  <2> DEFINE n == Len(active) - 1  below == active[n]
  <2>1. Top.is = "trap" /\ executing_trap' = -1 /\ SingleOf(Without, -1)
    BY <1>7, <1>c DEF EndTrap
  <2>2. n \in Nat /\ n >= 1 /\ Len(Without) = n /\ Without # <<>> /\ below \in Frames
    <3>1. Len(active) # 1
      BY <1>a, <2>1 DEF StackOf, Last
    <3>2. n \in Nat /\ n >= 1 /\ Len(Without) = n
      BY <1>a, <3>1, WithoutTop DEF Without
    <3>3. QED
      BY <1>a, <1>c, <3>2, ElementOfSeq, EmptySeq
  <2>3. CASE active' = [Without EXCEPT ![n] = PendingAt(below.cond + 1)]
    <3>1. below.cond + 1 \in Int
      BY <2>2 DEF Frames
    <3>2. SingleOf(active', -1)
      <4> HIDE DEF n, below
      <4>1. QED
        BY <1>c, <2>1, <2>2, <2>3, <3>1, ReplaceSingle
    <3>3. QED
      BY <2>1, <3>2 DEF Single
  <2>4. CASE active' = <<Over>>
    BY <2>1, <2>4, OverSingle DEF Single
  <2>5. CASE active' = Without
    BY <2>1, <2>5 DEF Single
  <2>6. QED
    BY <1>7, <2>3, <2>4, <2>5 DEF EndTrap
<1>8. ASSUME Exit PROVE Single'
  <2>1. Append(active, Over) \in Seq(Frames) /\ SingleOf(Append(active, Over), executing_trap)
    BY <1>a, <1>b, WithFrame, PushSingle
  <2>2. <<Over>> \in Seq(Frames) /\ SingleOf(<<Over>>, executing_trap)
    BY OverAlone, OverSingle DEF StackOf
  <2>3. EXIT \in Int
    BY DEF EXIT
  <2>4. QED
    BY <1>8, <2>1, <2>2, <2>3, HandlerSingle DEF Exit
<1>9. ASSUME Hangup PROVE Single'
  <2>1. <<Over>> \in Seq(Frames) /\ SingleOf(<<Over>>, executing_trap) /\ EXIT \in Int
    BY OverAlone, OverSingle DEF StackOf, EXIT
  <2>2. QED
    BY <1>9, <2>1, HandlerSingle DEF Hangup
<1>10. ASSUME NEW c \in Conditions, NEW a \in {"default", "ignore", "execute"}, SetTrap(c, a) PROVE Single'
  BY <1>1, <1>10 DEF SetTrap
<1>11. ASSUME NEW s \in Signals, Kill(s) PROVE Single'
  BY <1>1, <1>11 DEF Kill
<1>12. ASSUME Done \/ UNCHANGED vars PROVE Single'
  BY <1>1, <1>12 DEF Done, vars
<1>13. QED
  BY <1>2, <1>3, <1>4, <1>5, <1>6, <1>7, <1>8, <1>9, <1>10, <1>11, <1>12 DEF Next

LEMMA SingleIsNever == Stack /\ Single => NeverRecursive
<1>1. Stack => DOMAIN active = 1 .. Len(active)
  BY LenProperties DEF Stack, StackOf
<1>2. QED
  BY <1>1 DEF Single, SingleOf, NeverRecursive

LEMMA InitSingle == Init => Single /\ Known
<1> SUFFICES ASSUME Init PROVE Single /\ Known
  OBVIOUS
<1>1. Len(active) = 1 /\ active[1].is = "program"
  BY DEF Init, Program
<1>2. QED
  BY <1>1 DEF Init, Single, SingleOf, Known

----------------------------------------------------------------------------
(* A trap that do_pending_traps() has started is in progress.               *)
Served(a, s) == \E i \in 1 .. Len(a) : a[i].is = "trap" /\ ~a[i].masked /\ a[i].cond = s

(* The bit of s will be looked at: by a do_pending_traps() that has not     *)
(* passed it, or by the one at the end of a wait.                           *)
Due(a, s) == \E i \in 1 .. Len(a) : a[i].is = "wait" \/ (a[i].is = "pending" /\ a[i].cond <= s)

LEMMA PushServed ==
  ASSUME NEW a \in Seq(Frames), NEW f \in Frames, NEW s
  PROVE  /\ Served(Append(a, f), s) <=>
               Served(a, s) \/ (f.is = "trap" /\ ~f.masked /\ f.cond = s)
         /\ Due(Append(a, f), s) <=> Due(a, s) \/ f.is = "wait" \/ (f.is = "pending" /\ f.cond <= s)
<1> DEFINE b == Append(a, f)
<1>1. /\ Len(a) \in Nat /\ Len(b) = Len(a) + 1
      /\ \A i \in 1 .. Len(a) : b[i] = a[i]
      /\ b[Len(a) + 1] = f
  BY WithFrame
<1> HIDE DEF b
<1>2. /\ \A i \in 1 .. Len(b) : i = Len(a) + 1 \/ i \in 1 .. Len(a)
      /\ Len(a) + 1 \in 1 .. Len(b)
      /\ \A i \in 1 .. Len(a) : i \in 1 .. Len(b)
  BY <1>1
<1>3. Served(b, s) <=> Served(a, s) \/ (f.is = "trap" /\ ~f.masked /\ f.cond = s)
  BY <1>1, <1>2 DEF Served
<1>4. Due(b, s) <=> Due(a, s) \/ f.is = "wait" \/ (f.is = "pending" /\ f.cond <= s)
  BY <1>1, <1>2 DEF Due
<1>5. QED
  BY <1>3, <1>4 DEF b

LEMMA PopServed ==
  ASSUME NEW a \in Seq(Frames), a # <<>>, NEW s
  PROVE  LET b == SubSeq(a, 1, Len(a) - 1)
             f == Last(a)
         IN  /\ Served(a, s) <=> Served(b, s) \/ (f.is = "trap" /\ ~f.masked /\ f.cond = s)
             /\ Due(a, s) <=> Due(b, s) \/ f.is = "wait" \/ (f.is = "pending" /\ f.cond <= s)
<1> DEFINE b == SubSeq(a, 1, Len(a) - 1)
<1>1. /\ Len(a) \in Nat /\ Len(a) >= 1 /\ Len(b) = Len(a) - 1
      /\ \A i \in 1 .. Len(a) - 1 : b[i] = a[i]
  BY WithoutTop
<1> HIDE DEF b
<1>2. /\ \A i \in 1 .. Len(a) : i = Len(a) \/ i \in 1 .. Len(b)
      /\ Len(a) \in 1 .. Len(a)
      /\ \A i \in 1 .. Len(b) : i \in 1 .. Len(a) /\ b[i] = a[i]
  BY <1>1
<1>3. Served(a, s) <=> Served(b, s) \/ (Last(a).is = "trap" /\ ~Last(a).masked /\ Last(a).cond = s)
  BY <1>2 DEF Served, Last
<1>4. Due(a, s) <=> Due(b, s) \/ Last(a).is = "wait" \/ (Last(a).is = "pending" /\ Last(a).cond <= s)
  BY <1>2 DEF Due, Last
<1>5. QED
  BY <1>3, <1>4 DEF b

LEMMA ReplaceServed ==
  ASSUME NEW a \in Seq(Frames), a # <<>>, Last(a).is = "pending", NEW k \in Int, NEW s
  PROVE  LET b == [a EXCEPT ![Len(a)] = PendingAt(k)]
         IN  /\ Served(b, s) <=> Served(a, s)
             /\ Due(a, s) => Due(b, s) \/ Last(a).cond <= s
             /\ k <= s => Due(b, s)
<1> DEFINE b == [a EXCEPT ![Len(a)] = PendingAt(k)]
<1>1. PendingAt(k) \in Frames /\ PendingAt(k).is = "pending" /\ PendingAt(k).cond = k
  BY FrameTypes DEF PendingAt
<1>2. /\ Len(a) \in Nat /\ Len(a) >= 1 /\ Len(b) = Len(a)
      /\ \A i \in 1 .. Len(a) : b[i] = IF i = Len(a) THEN PendingAt(k) ELSE a[i]
      /\ Len(a) \in 1 .. Len(a)
  BY <1>1, WithoutTop, ExceptSeq
<1> HIDE DEF b
<1>3. Served(b, s) <=> Served(a, s)
  BY <1>1, <1>2 DEF Served, Last
<1>4. Due(a, s) => Due(b, s) \/ Last(a).cond <= s
  BY <1>1, <1>2 DEF Due, Last
<1>5. k <= s => Due(b, s)
  BY <1>1, <1>2 DEF Due
<1>6. QED
  BY <1>3, <1>4, <1>5 DEF b

LEMMA OverServed == \A s : ~Served(<<Over>>, s)
  BY DEF Served, Over

(* The frames of the steps, in one place.                                   *)
LEMMA FrameFacts ==
  /\ \A i \in Int : /\ PendingAt(i) \in Frames /\ PendingAt(i).is = "pending"
                    /\ PendingAt(i).cond = i
  /\ \A c \in Int, m \in BOOLEAN : /\ Trap(c, m) \in Frames /\ Trap(c, m).is = "trap"
                                   /\ Trap(c, m).masked = m /\ Trap(c, m).cond = c
  /\ WaitOf \in Frames /\ WaitOf.is = "wait"
  /\ Over \in Frames /\ Over.is = "over"
  BY FrameTypes DEF PendingAt, Trap, WaitOf, Over

LEMMA StackFacts ==
  ASSUME Numbered, Stack
  PROVE  /\ active \in Seq(Frames) /\ active # <<>> /\ StackOf(active)
         /\ Len(active) \in Nat /\ Len(active) >= 1
         /\ Top = Last(active) /\ Top \in Frames /\ Top.cond \in Int
         /\ NextBit(Top.cond) \in Int
         /\ Without \in Seq(Frames)
         /\ Top.is # "over" => (waiting <=> Top.is = "wait")
<1>1. /\ active \in Seq(Frames) /\ active # <<>> /\ StackOf(active)
      /\ Len(active) \in Nat /\ Len(active) >= 1 /\ Without \in Seq(Frames)
  BY WithoutTop DEF Stack, StackOf, Without
<1>2. Top = Last(active) /\ Top \in Frames
  BY <1>1, ElementOfSeq DEF Top, Last
<1>3. Top.cond \in Int
  BY <1>2 DEF Frames
<1>4. NextBit(Top.cond) \in Int
  BY <1>3, NextBitFinds, ConditionTypes
<1>5. QED
  BY <1>1, <1>2, <1>3, <1>4 DEF Stack

(* Under a trap that ends there is another frame.                           *)
LEMMA BelowTrap ==
  ASSUME Numbered, Stack, Top.is = "trap"
  PROVE  LET n == Len(active) - 1
             below == active[n]
         IN  /\ n \in Nat /\ n >= 1 /\ Len(Without) = n /\ Without # <<>>
             /\ Last(Without) = below /\ below \in Frames /\ below.cond \in Int
             /\ ~Top.masked => /\ below.is = "pending" => below.cond = Top.cond
                               /\ Top.cond \in Signals <=> below.is = "pending"
<1> DEFINE n == Len(active) - 1  below == active[n]
<1>1. n \in Nat /\ n >= 1
  BY StackFacts DEF StackOf, Last
<1>2. Len(Without) = n /\ Last(Without) = below
  BY <1>1, StackFacts, WithoutTop DEF Without, Last
<1>3. Without # <<>>
  BY <1>1, <1>2
<1>4. below \in Frames
  BY <1>1, StackFacts, ElementOfSeq
<1>5. below.cond \in Int
  BY <1>4 DEF Frames
<1>6. n + 1 = Len(active) /\ n \in 1 .. Len(active) - 1 /\ active[n + 1] = Top
  BY <1>1, StackFacts DEF Last
<1>7. ~Top.masked => /\ below.is = "pending" => below.cond = Top.cond
                     /\ Top.cond \in Signals <=> below.is = "pending"
  BY <1>6, StackFacts DEF StackOf
<1>8. QED
  BY <1>1, <1>2, <1>3, <1>4, <1>5, <1>7

(* A bit that is set belongs to a signal that was delivered, and whose trap *)
(* has not been started or is being executed.                               *)
BitsOwed == active # <<Over>> =>
    \A s \in Signals : Bit(s) \in pending_traps => s \in owed \/ Served(active, s)

LEMMA HandlerBits ==
  ASSUME Numbered, NEW c \in Conditions, NEW m \in BOOLEAN, NEW o \in Seq(Frames),
         TrapHandler(c, m, o), waiting => c \in Signals,
         NEW s \in Signals, Bit(s) \in pending_traps => s \in owed \/ Served(o, s)
  PROVE  Bit(s) \in pending_traps' => s \in owed' \/ Served(active', s)
<1>1. CASE /\ active' = o /\ pending_traps' = pending_traps /\ owed \subseteq owed'
  BY <1>1
<1>2. CASE /\ waiting /\ active' = o
           /\ pending_traps' = pending_traps \cup {Bit(c)} /\ owed' = owed \cup {c}
  BY <1>2, ConditionTypes
<1>3. CASE active' = Append(o, Trap(c, m)) /\ pending_traps' = pending_traps /\ owed' = owed
  <2>1. Trap(c, m) \in Frames
    BY FrameFacts, ConditionTypes
  <2>2. QED
    BY <1>3, <2>1, PushServed
<1>4. QED
  BY <1>1, <1>2, <1>3 DEF TrapHandler, TrapHandlerUnguarded, Starts

LEMMA NextBitsOwed ==
  ASSUME Numbered, "chld" \notin Touchy, Stack, BitsOwed, [Next]_vars
  PROVE  BitsOwed'
<1> SUFFICES ASSUME active' # <<Over>>, NEW s \in Signals, Bit(s) \in pending_traps'
             PROVE  s \in owed' \/ Served(active', s)
  BY DEF BitsOwed
<1>a. Top.is # "over" => active # <<Over>>
  BY StackFacts, FrameFacts, OverAlone
<1>b. active # <<Over>> /\ Bit(s) \in pending_traps => s \in owed \/ Served(active, s)
  BY DEF BitsOwed
<1>c. s \in Conditions /\ s # 0
  BY ConditionTypes
<1>1. CASE active' = active /\ pending_traps' = pending_traps /\ owed' = owed
  BY <1>1, <1>b
<1>2. CASE \E t \in Signals : Deliver(t)
  <2>1. PICK t \in Signals : Deliver(t)
    BY <1>2
  <2>2. Bit(s) \in pending_traps => s \in owed \/ Served(active, s)
    BY <1>a, <1>b, <2>1 DEF Deliver
  <2>3. QED
    BY <2>1, <2>2, StackFacts, HandlerBits, ConditionTypes DEF Deliver
<1>3. CASE Command \/ Failure \/ JobEnds
  <2>1. /\ \E c \in Special : TrapHandler(c, FALSE, active)
        /\ Top.is # "over" /\ ~waiting
    BY <1>3, StackFacts DEF Command, Failure, JobEnds, Special, Running
  <2>2. QED
    BY <1>a, <1>b, <2>1, StackFacts, HandlerBits, ConditionTypes
<1>4. CASE StartWait
  BY <1>4, <1>a, <1>b, StackFacts, FrameFacts, PushServed DEF StartWait, Running
<1>5. ASSUME Top.is # "trap" PROVE Served(active, s) <=> Served(Without, s)
  BY <1>5, StackFacts, PopServed DEF Without
<1>6. ASSUME NEW i \in Int, Top.is # "trap"
      PROVE  Served(active, s) <=> Served(Append(Without, PendingAt(i)), s)
  BY <1>5, <1>6, StackFacts, FrameFacts, PushServed
<1>7. CASE EndWait
  BY <1>7, <1>a, <1>b, <1>5, <1>6 DEF EndWait
<1>8. CASE DoPending
  <2> DEFINE i == NextBit(Top.cond)
  <2>1. i \in Int /\ Top.is = "pending"
    BY <1>8, StackFacts DEF DoPending
  <2>2. Bit(s) \in pending_traps => s \in owed \/ Served(active, s)
    BY <1>a, <1>b, <2>1
  <2>3. \/ /\ i = 0 \/ pending_traps' = pending_traps \ {Bit(i)}
           /\ active' = Without \/ active' = Append(Without, PendingAt(i + 1))
           /\ pending_traps' \subseteq pending_traps /\ owed' = owed \ {i}
        \/ /\ active' = Append(Append(Without, PendingAt(i)), Trap(i, FALSE))
           /\ pending_traps' = pending_traps /\ owed' = owed \ {i}
    BY <1>8, <2>1 DEF DoPending, Starts
  <2> HIDE DEF i
  <2>4. i + 1 \in Int
    BY <2>1
  <2>5. CASE /\ i = 0 \/ pending_traps' = pending_traps \ {Bit(i)}
             /\ active' = Without \/ active' = Append(Without, PendingAt(i + 1))
             /\ pending_traps' \subseteq pending_traps /\ owed' = owed \ {i}
    <3>1. CASE active' = Without
      BY <1>c, <1>5, <2>1, <2>2, <2>5, <3>1
    <3>2. CASE active' = Append(Without, PendingAt(i + 1))
      <4>1. Served(active', s) <=> Served(active, s)
        BY <1>6, <2>1, <2>4, <3>2
      <4>2. QED
        BY <1>c, <2>2, <2>5, <4>1
    <3>3. QED
      BY <2>5, <3>1, <3>2
  <2>6. CASE /\ active' = Append(Append(Without, PendingAt(i)), Trap(i, FALSE))
             /\ pending_traps' = pending_traps /\ owed' = owed \ {i}
    <3>1. Append(Without, PendingAt(i)) \in Seq(Frames)
      BY <2>1, StackFacts, FrameFacts, WithFrame
    <3>2. /\ Trap(i, FALSE) \in Frames /\ Trap(i, FALSE).is = "trap"
          /\ ~Trap(i, FALSE).masked /\ Trap(i, FALSE).cond = i
      BY <2>1, FrameFacts
    <3>3. Served(active', s) <=> Served(Append(Without, PendingAt(i)), s) \/ i = s
      BY <2>6, <3>1, <3>2, PushServed
    <3>4. Served(active', s) <=> Served(active, s) \/ i = s
      BY <1>6, <2>1, <3>3
    <3>5. QED
      BY <2>2, <2>6, <3>4
  <2>7. QED
    BY <2>3, <2>5, <2>6
<1>9. CASE EndTrap
  <2> DEFINE n == Len(active) - 1  below == active[n]
  <2>1. Top.is = "trap" /\ Top.is # "over" /\ owed' = owed
    BY <1>9 DEF EndTrap
  <2>2. Served(active, s) <=> Served(Without, s) \/ (~Top.masked /\ Top.cond = s)
    BY <2>1, StackFacts, PopServed DEF Without
  <2>3. CASE below.is = "pending" /\ ~Top.masked
    <3>1. /\ active' = [Without EXCEPT ![n] = PendingAt(below.cond + 1)]
          /\ pending_traps' = pending_traps \ {Bit(below.cond)}
      BY <1>9, <2>3 DEF EndTrap, BitDone
    <3>2. below.cond + 1 \in Int /\ Len(Without) = n /\ Last(Without).is = "pending" /\ Without # <<>>
          /\ below.cond = Top.cond
      BY <2>1, <2>3, BelowTrap
    <3>3. Served(active', s) <=> Served(Without, s)
      <4> HIDE DEF n, below
      <4>1. QED
        BY <3>1, <3>2, StackFacts, ReplaceServed
    <3>4. QED
      BY <1>a, <1>b, <2>1, <2>2, <3>1, <3>2, <3>3
  <2>4. CASE ~(below.is = "pending" /\ ~Top.masked)
    <3>1. active' = Without /\ pending_traps' = pending_traps
      BY <1>9, <2>4 DEF EndTrap
    <3>2. ~(~Top.masked /\ Top.cond = s)
      BY <2>1, <2>4, BelowTrap
    <3>3. QED
      BY <1>a, <1>b, <2>1, <2>2, <3>1, <3>2
  <2>5. QED
    BY <2>3, <2>4
<1>10. CASE Exit
  <2>1. /\ ~waiting /\ Top.is # "over" /\ EXIT \in Conditions
        /\ Append(active, Over) \in Seq(Frames) /\ <<Over>> \in Seq(Frames)
        /\ Served(Append(active, Over), s) <=> Served(active, s)
    BY <1>10, StackFacts, FrameFacts, ConditionTypes, WithFrame, PushServed, OverAlone
    DEF Exit, Running, StackOf
  <2>2. CASE TrapHandler(EXIT, FALSE, Append(active, Over))
    BY <1>a, <1>b, <2>1, <2>2, HandlerBits
  <2>3. CASE trap_table[EXIT] # "execute" \/ executing_trap = EXIT
    BY <1>10, <2>3 DEF Exit, TrapHandler, TrapHandlerUnguarded
  <2>4. QED
    BY <1>10, <2>2, <2>3 DEF Exit
<1>11. CASE Hangup
  BY <1>11, StackFacts DEF Hangup, TrapHandler, TrapHandlerUnguarded
<1>12. CASE \E c \in Conditions, a \in {"default", "ignore", "execute"} : SetTrap(c, a)
  BY <1>1, <1>12 DEF SetTrap
<1>13. CASE \E t \in Signals : Kill(t)
  BY <1>1, <1>13 DEF Kill
<1>14. CASE Done \/ UNCHANGED vars
  BY <1>1, <1>14 DEF Done, vars
<1>15. QED
  BY <1>2, <1>3, <1>4, <1>7, <1>8, <1>9, <1>10, <1>11, <1>12, <1>13, <1>14 DEF Next

LEMMA OwedIsRight == Stack /\ BitsOwed => RightTrap
<1>1. Stack => DOMAIN active = 1 .. Len(active)
  BY LenProperties DEF Stack, StackOf
<1>2. QED
  BY <1>1 DEF BitsOwed, Served, RightTrap

\* Only signals set bits.
BitsKnown == pending_traps \subseteq {Bit(s) : s \in Signals}

LEMMA NextBitsKnown ==
  ASSUME Numbered, Touchy \cap {"chld", "hangup"} = {}, Stack, Known, BitsKnown, [Next]_vars
  PROVE  BitsKnown'
<1> USE DEF BitsKnown
<1>1. CASE pending_traps' \subseteq pending_traps
  BY <1>1
<1>2. CASE \E s \in Signals : Deliver(s)
  BY <1>2 DEF Deliver, TrapHandler, TrapHandlerUnguarded, Starts
<1>3. CASE ~waiting /\ \E c \in Special : \E o : TrapHandler(c, FALSE, o)
  BY <1>3 DEF TrapHandler, TrapHandlerUnguarded, Starts
<1>4. CASE Command \/ Failure \/ JobEnds \/ Exit
  BY <1>3, <1>4, StackFacts DEF Command, Failure, JobEnds, Exit, Running, Special
<1>5. CASE Hangup
  BY <1>1, <1>5 DEF Hangup, TrapHandler, TrapHandlerUnguarded
<1>6. CASE DoPending
  BY <1>1, <1>6 DEF DoPending, Starts
<1>7. CASE EndTrap
  BY <1>1, <1>7 DEF EndTrap
<1>8. CASE StartWait \/ EndWait \/ Done \/ UNCHANGED vars
  BY <1>1, <1>8 DEF StartWait, EndWait, Done, vars
<1>9. CASE \E c \in Conditions, a \in {"default", "ignore", "execute"} : SetTrap(c, a)
  BY <1>1, <1>9 DEF SetTrap
<1>10. CASE \E s \in Signals : Kill(s)
  BY <1>1, <1>10 DEF Kill
<1>11. QED
  BY <1>2, <1>4, <1>5, <1>6, <1>7, <1>8, <1>9, <1>10 DEF Next

LEMMA KnownIsType == Stack /\ Known /\ BitsKnown => TypeOK
  BY DEF Stack, Known, BitsKnown, TypeOK
----------------------------------------------------------------------------
(* Nothing that is owed is forgotten: its bit is set, its trap has not been *)
(* started, and a do_pending_traps() that will see the bit is to come.      *)
\* Programs without any of the habits.
Calm == Touchy \cap Touchiness = {}

OwedIsDue ==
    /\ \A s \in owed : s \in Signals /\ Bit(s) \in pending_traps /\ ~Served(active, s)
    /\ active # <<Over>> => \A s \in owed : Due(active, s)

(* A trap that do_pending_traps() has started is the one that is executed.  *)
LEMMA ServedRuns == ASSUME NEW s, Single, Served(active, s) PROVE executing_trap = s
  BY DEF Single, SingleOf, Served

LEMMA WaitDue == ASSUME Numbered, Stack, Top.is = "wait", NEW s PROVE Due(active, s)
  BY StackFacts DEF Due, Last

LEMMA NextOwedIsDue ==
  ASSUME Numbered, Calm, Stack, Single, OwedIsDue, [Next]_vars
  PROVE  OwedIsDue'
<1>a. /\ Top.is # "over" => active # <<Over>>
      /\ \A s \in owed : /\ s \in Signals /\ Bit(s) \in pending_traps /\ ~Served(active, s)
                         /\ Top.is # "over" => Due(active, s)
      /\ \A s \in Signals : s \in Int /\ s # 0 /\ s >= 1 /\ s \notin Special
      /\ "nested" \notin Touchy /\ "again" \notin Touchy /\ "chld" \notin Touchy /\ "hangup" \notin Touchy
  BY StackFacts, FrameFacts, OverAlone, ConditionTypes DEF OwedIsDue, Calm, Touchiness
<1>1. ASSUME owed' \subseteq owed, pending_traps' = pending_traps,
             \A s \in owed' : Served(active', s) => Served(active, s),
             \A s \in owed' : active' = <<Over>> \/ Due(active', s)
      PROVE  OwedIsDue'
  BY <1>1 DEF OwedIsDue
<1>2. CASE active' = active /\ pending_traps' = pending_traps /\ owed' = owed
  BY <1>2 DEF OwedIsDue
<1>3. CASE active' = <<Over>> /\ pending_traps' = pending_traps /\ owed' = owed
  BY <1>1, <1>3, OverServed
<1>4. ASSUME NEW f \in Frames, ~(f.is = "trap" /\ ~f.masked /\ f.cond \in Signals), Top.is # "over",
             active' = Append(active, f), pending_traps' = pending_traps, owed' = owed
      PROVE  OwedIsDue'
  <2>1. \A s \in owed : /\ Served(active', s) <=> Served(active, s)
                        /\ Due(active, s) => Due(active', s)
    BY <1>a, <1>4, StackFacts, PushServed
  <2>2. QED
    BY <1>1, <1>4, <1>a, <2>1
<1>5. CASE \E s \in Signals : Deliver(s)
  <2>1. PICK s \in Signals : Deliver(s)
    BY <1>5
  <2>2. /\ Top.is # "over" /\ executing_trap # s /\ TrapHandler(s, TRUE, active)
        /\ waiting' = waiting
    BY <1>a, <2>1 DEF Deliver
  <2>3. CASE /\ waiting /\ active' = active
             /\ pending_traps' = pending_traps \cup {Bit(s)} /\ owed' = owed \cup {s}
    <3>1. ~Served(active, s) /\ \A t : Due(active, t)
      BY <2>2, <2>3, StackFacts, ServedRuns, WaitDue
    <3>2. QED
      BY <1>a, <2>3, <3>1 DEF OwedIsDue
  <2>4. CASE active' = Append(active, Trap(s, TRUE)) /\ pending_traps' = pending_traps /\ owed' = owed
    <3>1. Trap(s, TRUE) \in Frames /\ Trap(s, TRUE).masked
      BY <1>a, FrameFacts
    <3>2. QED
      BY <1>4, <2>2, <2>4, <3>1
  <2>5. CASE active' = active /\ pending_traps' = pending_traps /\ owed' = owed
    BY <1>2, <2>5
  <2>6. QED
    BY <2>2, <2>3, <2>4, <2>5 DEF TrapHandler, TrapHandlerUnguarded, Starts
<1>6. CASE Command \/ Failure \/ JobEnds
  <2>1. PICK c \in Special : TrapHandler(c, FALSE, active) /\ Top.is # "over" /\ ~waiting
    BY <1>6, <1>a, StackFacts DEF Command, Failure, JobEnds, Special, Running
  <2>2. c \in Int /\ c \notin Signals
    BY <1>a, ConditionTypes
  <2>3. CASE active' = active /\ pending_traps' = pending_traps /\ owed' = owed
    BY <1>2, <2>3
  <2>4. CASE active' = Append(active, Trap(c, FALSE)) /\ pending_traps' = pending_traps /\ owed' = owed
    <3>1. Trap(c, FALSE) \in Frames /\ Trap(c, FALSE).cond = c
      BY <2>2, FrameFacts
    <3>2. QED
      BY <1>4, <2>1, <2>2, <2>4, <3>1
  <2>5. QED
    BY <2>1, <2>2, <2>3, <2>4 DEF TrapHandler, TrapHandlerUnguarded, Starts
<1>7. CASE StartWait
  <2>1. Top.is # "over" /\ active' = Append(active, WaitOf) /\ pending_traps' = pending_traps /\ owed' = owed
    BY <1>7 DEF StartWait, Running
  <2>2. QED
    BY <1>4, <2>1, FrameFacts
<1>8. CASE EndWait
  <2>1. Top.is = "wait" /\ pending_traps' = pending_traps /\ owed' = owed
    BY <1>8 DEF EndWait
  <2>2. \A s : Served(active, s) <=> Served(Without, s)
    BY <2>1, StackFacts, PopServed DEF Without
  <2>3. CASE pending_traps = {}
    <3>1. owed = {} /\ active' = Without
      BY <1>8, <1>a, <2>3 DEF EndWait
    <3>2. QED
      BY <1>1, <2>1, <3>1
  <2>4. CASE pending_traps # {}
    <3>1. active' = Append(Without, PendingAt(1))
      BY <1>8, <2>4 DEF EndWait
    <3>2. PendingAt(1) \in Frames /\ PendingAt(1).is = "pending" /\ PendingAt(1).cond = 1
      BY FrameFacts
    <3>3. \A s \in owed : (Served(active', s) <=> Served(active, s)) /\ Due(active', s)
      BY <1>a, <2>2, <3>1, <3>2, StackFacts, PushServed
    <3>4. QED
      BY <1>1, <2>1, <3>3
  <2>5. QED
    BY <2>3, <2>4
<1>9. CASE DoPending
  <2> DEFINE i == NextBit(Top.cond)
  <2>1. i \in Int /\ Top.is = "pending" /\ Top.cond \in Int
    BY <1>9, StackFacts DEF DoPending
  <2>2. \A s \in owed : /\ Served(active, s) <=> Served(Without, s)
                        /\ Due(Without, s) \/ Top.cond <= s
    BY <1>a, <2>1, StackFacts, PopServed DEF Without
  <2>3. \A s \in owed : s >= Top.cond => i # 0 /\ i \in Signals /\ s >= i
    BY <1>a, <2>1, NextBitFinds
  <2>4. i # 0 => i \in Signals
    BY <2>1, NextBitFinds
  <2>5. \/ /\ active' = Without /\ i = 0
           /\ pending_traps' = pending_traps /\ owed' = owed \ {i}
        \/ /\ active' = Append(Without, PendingAt(i + 1)) /\ i # 0
           /\ pending_traps' = pending_traps \ {Bit(i)} /\ owed' = owed \ {i}
        \/ /\ active' = Append(Append(Without, PendingAt(i)), Trap(i, FALSE))
           /\ pending_traps' = pending_traps /\ owed' = owed \ {i}
    BY <1>9, <2>1 DEF DoPending, Starts
  <2> HIDE DEF i
  <2>6. CASE active' = Without /\ i = 0 /\ pending_traps' = pending_traps /\ owed' = owed \ {i}
    <3>1. \A s \in owed' : Due(Without, s) /\ (Served(active', s) => Served(active, s))
      BY <1>a, <2>1, <2>2, <2>3, <2>6
    <3>2. QED
      BY <1>1, <2>6, <3>1
  <2>7. CASE /\ active' = Append(Without, PendingAt(i + 1)) /\ i # 0
             /\ pending_traps' = pending_traps \ {Bit(i)} /\ owed' = owed \ {i}
    <3>1. /\ PendingAt(i + 1) \in Frames /\ PendingAt(i + 1).is = "pending"
          /\ PendingAt(i + 1).cond = i + 1
      BY <2>1, FrameFacts
    <3>2. \A s \in owed' : s \in owed /\ s # i /\ s \in Signals /\ Bit(s) \in pending_traps'
      BY <1>a, <2>4, <2>7, ConditionTypes
    <3>3. \A s \in owed' : Due(Without, s) \/ i + 1 <= s
      BY <1>a, <2>1, <2>2, <2>3, <3>2
    <3>4. \A s \in owed' : ~Served(active', s) /\ Due(active', s)
      BY <1>a, <2>2, <2>7, <3>1, <3>2, <3>3, StackFacts, PushServed
    <3>5. QED
      BY <3>2, <3>4 DEF OwedIsDue
  <2>8. CASE /\ active' = Append(Append(Without, PendingAt(i)), Trap(i, FALSE))
             /\ pending_traps' = pending_traps /\ owed' = owed \ {i}
    <3>1. /\ PendingAt(i) \in Frames /\ PendingAt(i).is = "pending" /\ PendingAt(i).cond = i
          /\ Trap(i, FALSE) \in Frames /\ Trap(i, FALSE).is = "trap" /\ Trap(i, FALSE).cond = i
          /\ Append(Without, PendingAt(i)) \in Seq(Frames)
      BY <2>1, StackFacts, FrameFacts, WithFrame
    <3>2. \A s \in owed' : Due(Without, s) \/ i <= s
      BY <1>a, <2>1, <2>2, <2>3, <2>8
    <3>3. \A s \in owed' : /\ Served(Append(Without, PendingAt(i)), s) <=> Served(active, s)
                           /\ Due(Append(Without, PendingAt(i)), s)
      BY <2>2, <2>8, <3>1, <3>2, StackFacts, PushServed
    <3>4. \A s \in owed' : (Served(active', s) <=> Served(active, s)) /\ Due(active', s)
      BY <2>8, <3>1, <3>3, PushServed
    <3>5. QED
      BY <1>1, <2>8, <3>4
  <2>9. QED
    BY <2>5, <2>6, <2>7, <2>8
<1>10. CASE EndTrap
  <2> DEFINE n == Len(active) - 1  below == active[n]
  <2>1. Top.is = "trap" /\ Top.is # "over" /\ owed' = owed
    BY <1>10 DEF EndTrap
  <2>2. \A s : /\ Served(active, s) <=> Served(Without, s) \/ (~Top.masked /\ Top.cond = s)
               /\ Due(active, s) => Due(Without, s)
    BY <2>1, StackFacts, PopServed DEF Without
  <2>3. CASE below.is = "pending" /\ ~Top.masked
    <3>1. /\ active' = [Without EXCEPT ![n] = PendingAt(below.cond + 1)]
          /\ pending_traps' = pending_traps \ {Bit(below.cond)}
      BY <1>10, <2>3 DEF EndTrap, BitDone
    <3>2. /\ below.cond \in Int /\ below.cond + 1 \in Int /\ Len(Without) = n
          /\ Last(Without) = below /\ Without # <<>>
          /\ below.cond = Top.cond /\ below.cond \in Signals
      BY <2>1, <2>3, BelowTrap
    <3>3. \A s : /\ Served(active', s) <=> Served(Without, s)
                 /\ Due(Without, s) => Due(active', s) \/ below.cond <= s
                 /\ below.cond + 1 <= s => Due(active', s)
      <4> HIDE DEF n, below
      <4>1. QED
        BY <2>3, <3>1, <3>2, StackFacts, ReplaceServed
    <3> HIDE DEF n, below
    <3>4. \A s \in owed : s # below.cond /\ Bit(s) \in pending_traps'
      BY <1>a, <2>2, <2>3, <3>1, <3>2, ConditionTypes
    <3>5. \A s \in owed : ~Served(active', s) /\ Due(active', s)
      BY <1>a, <2>1, <2>2, <3>2, <3>3, <3>4
    <3>6. QED
      BY <1>a, <2>1, <3>4, <3>5 DEF OwedIsDue
  <2>4. CASE ~(below.is = "pending" /\ ~Top.masked)
    <3>1. pending_traps' = pending_traps /\ (active' = Without \/ active' = <<Over>>)
      BY <1>10, <2>4 DEF EndTrap
    <3>2. CASE active' = Without
      BY <1>1, <1>a, <2>1, <2>2, <3>1, <3>2
    <3>3. QED
      BY <1>3, <2>1, <3>1, <3>2
  <2>5. QED
    BY <2>3, <2>4
<1>11. CASE Exit
  <2>1. ~waiting /\ Top.is # "over" /\ EXIT \in Int /\ EXIT \notin Signals
    BY <1>11, <1>a, StackFacts, ConditionTypes DEF Exit, Running, EXIT
  <2>2. CASE active' = <<Over>> /\ pending_traps' = pending_traps /\ owed' = owed
    BY <1>3, <2>2
  <2>3. CASE /\ active' = Append(Append(active, Over), Trap(EXIT, FALSE))
             /\ pending_traps' = pending_traps /\ owed' = owed
    <3>1. /\ Append(active, Over) \in Seq(Frames)
          /\ Trap(EXIT, FALSE) \in Frames /\ Trap(EXIT, FALSE).cond = EXIT
          /\ Trap(EXIT, FALSE).is = "trap"
      BY <2>1, StackFacts, FrameFacts, WithFrame
    <3>2. \A s \in owed : /\ Served(Append(active, Over), s) <=> Served(active, s)
                          /\ Due(active, s) => Due(Append(active, Over), s)
      BY StackFacts, FrameFacts, PushServed
    <3>3. \A s : /\ Served(active', s) => Served(Append(active, Over), s) \/ s = EXIT
                 /\ Due(Append(active, Over), s) => Due(active', s)
      BY <2>3, <3>1, PushServed
    <3>4. \A s \in owed : s # EXIT /\ (Served(active', s) => Served(active, s)) /\ Due(active', s)
      BY <1>a, <2>1, <3>2, <3>3
    <3>5. QED
      BY <1>1, <2>3, <3>4
  <2>4. QED
    BY <1>11, <2>1, <2>2, <2>3 DEF Exit, TrapHandler, TrapHandlerUnguarded, Starts
<1>12. CASE Hangup
  BY <1>3, <1>12, <1>a DEF Hangup, TrapHandler, TrapHandlerUnguarded
<1>13. CASE \E c \in Conditions, a \in {"default", "ignore", "execute"} : SetTrap(c, a)
  BY <1>2, <1>13 DEF SetTrap
<1>14. CASE \E s \in Signals : Kill(s)
  BY <1>2, <1>14 DEF Kill
<1>15. CASE Done \/ UNCHANGED vars
  BY <1>2, <1>15 DEF Done, vars
<1>16. QED
  BY <1>5, <1>6, <1>7, <1>8, <1>9, <1>10, <1>11, <1>12, <1>13, <1>14, <1>15 DEF Next

LEMMA DueIsNothing == Numbered /\ OwedIsDue => NothingOwed
<1> SUFFICES ASSUME Numbered, OwedIsDue PROVE NothingOwed
  OBVIOUS
<1>1. <<Program>> # <<Over>> /\ \A s : ~Due(<<Program>>, s)
  BY DEF Program, Over, Due
<1>2. EXIT \notin owed
  BY ConditionTypes DEF OwedIsDue
<1>3. QED
  BY <1>1, <1>2 DEF OwedIsDue, NothingOwed

----------------------------------------------------------------------------
LEMMA InitTraps == Init => Stack /\ Known /\ Single /\ BitsOwed /\ BitsKnown /\ OwedIsDue
<1>1. Init => BitsOwed /\ BitsKnown /\ OwedIsDue
  BY DEF Init, BitsOwed, BitsKnown, OwedIsDue
<1>2. QED
  BY <1>1, InitStack, InitSingle

(* executing_trap keeps a condition's action from running inside itself     *)
(* (trap.c:202), as long as no trap is started while one runs that no mask  *)
(* protects from it.                                                        *)
THEOREM OneTrapEach ==
  ASSUME Numbered, "nested" \notin Touchy
  PROVE  Spec => []NeverRecursive
<1>1. Init => Stack /\ Single
  BY InitTraps
<1>2. Stack /\ Single /\ [Next]_vars => (Stack /\ Single)'
  BY NextStack, NextSingle
<1>3. Stack /\ Single => NeverRecursive
  BY SingleIsNever
<1>4. QED
  BY <1>1, <1>2, <1>3, PTL DEF Spec

(* Every bit of pending_traps stands for a signal that was delivered and    *)
(* whose trap has not ended (trap.c:211-254), if CHLD, whose bit is that of *)
(* SIGHUP, is not trapped during a wait.                                    *)
THEOREM BitsAreRight ==
  ASSUME Numbered, "chld" \notin Touchy
  PROVE  Spec => []RightTrap
<1>1. Init => Stack /\ BitsOwed
  BY InitTraps
<1>2. Stack /\ BitsOwed /\ [Next]_vars => (Stack /\ BitsOwed)'
  BY NextStack, NextBitsOwed
<1>3. Stack /\ BitsOwed => RightTrap
  BY OwedIsRight
<1>4. QED
  BY <1>1, <1>2, <1>3, PTL DEF Spec

(* Without any of the habits no trap of a delivered signal is forgotten,    *)
(* however signals, waits and traps interleave and however deep.            *)
THEOREM NoneForgotten ==
  ASSUME Numbered, Calm
  PROVE  Spec => []NothingOwed
<1>1. Init => Stack /\ Single /\ OwedIsDue
  BY InitTraps
<1>2. Stack /\ Single /\ OwedIsDue /\ [Next]_vars => (Stack /\ Single /\ OwedIsDue)'
  BY NextStack, NextSingle, NextOwedIsDue DEF Calm, Touchiness
<1>3. OwedIsDue => NothingOwed
  BY DueIsNothing
<1>4. QED
  BY <1>1, <1>2, <1>3, PTL DEF Spec

(* The variables keep their types.                                          *)
THEOREM TrapTypes ==
  ASSUME Numbered, Touchy \cap {"chld", "hangup"} = {}
  PROVE  Spec => []TypeOK
<1>1. Init => Stack /\ Known /\ BitsKnown
  BY InitTraps
<1>2. Stack /\ Known /\ BitsKnown /\ [Next]_vars => (Stack /\ Known /\ BitsKnown)'
  BY NextStack, NextKnown, NextBitsKnown
<1>3. Stack /\ Known /\ BitsKnown => TypeOK
  BY KnownIsType
<1>4. QED
  BY <1>1, <1>2, <1>3, PTL DEF Spec
=============================================================================
