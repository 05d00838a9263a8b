-------------------------- MODULE Evaluator_proofs --------------------------
(***************************************************************************)
(* Proofs about Evaluator for every set of compound commands, every n of   *)
(* break n and continue n, and every depth of the stack.                   *)
(***************************************************************************)
EXTENDS Evaluator, SequenceTheorems, FiniteSetTheorems, WellFoundedInduction, TLAPS

Kinds  == Compound \cup {"command", "break", "continue", "return", "source"}
Frames == [kind : Kinds, n : 0 .. MaxCount, res : {0, 1}, phase : {"test", "then", "else", "body"}]

Last(s) == s[Len(s)]

(* The stack: a unit that is never left at the bottom, commands at the top  *)
(* only, and no unit inside a loop.                                         *)
StackOf(s) ==
    /\ s \in Seq(Frames) /\ s # <<>> /\ s[1] = Unit
    /\ Len(s) = 1 \/ Len(s) <= MaxDepth
    /\ \A i \in 1 .. Len(s) - 1 : ~IsCommand(s[i])
    /\ \A i \in 1 .. Len(s) : IsUnit(s[i]) => \A j \in 1 .. i-1 : s[j].kind \notin LoopKinds

LEMMA WithoutTop ==
  ASSUME NEW s \in Seq(Frames), s # <<>>
  PROVE  /\ Len(s) \in Nat /\ Len(s) >= 1
         /\ SubSeq(s, 1, Len(s) - 1) \in Seq(Frames)
         /\ Len(SubSeq(s, 1, Len(s) - 1)) = Len(s) - 1
         /\ \A i \in 1 .. Len(s) - 1 : SubSeq(s, 1, Len(s) - 1)[i] = s[i]
<1> DEFINE l == Len(s)  k == Len(SubSeq(s, 1, l - 1))
<1>1. l \in Nat /\ l >= 1
  BY EmptySeq
<1>2. \A i \in 1 .. l - 1 : s[i] \in Frames
  BY <1>1, ElementOfSeq
<1>3. k = IF 1 <= l - 1 THEN l - 1 - 1 + 1 ELSE 0
  BY <1>1, <1>2, SubSeqProperties
<1>4. k = l - 1
  <2> HIDE DEF l, k
  <2>1. QED
    BY <1>1, <1>3
<1>5. QED
  BY <1>1, <1>4

LEMMA WithFrame ==
  ASSUME NEW s \in Seq(Frames), NEW f \in Frames
  PROVE  LET a == Append(s, f) IN
         /\ Len(s) \in Nat
         /\ a \in Seq(Frames) /\ a # <<>> /\ Len(a) = Len(s) + 1
         /\ \A i \in 1 .. Len(s) : a[i] = s[i]
         /\ a[Len(s) + 1] = f
  BY AppendProperties, LenProperties

(* Replacing the top keeps what is below it.                                *)
LEMMA WithOther ==
  ASSUME NEW s \in Seq(Frames), s # <<>>, NEW f \in Frames
  PROVE  LET a == Append(SubSeq(s, 1, Len(s) - 1), f) IN
         /\ Len(s) \in Nat /\ Len(s) >= 1
         /\ a \in Seq(Frames) /\ a # <<>> /\ Len(a) = Len(s)
         /\ \A i \in 1 .. Len(s) - 1 : a[i] = s[i]
         /\ a[Len(s)] = f
<1> DEFINE p == SubSeq(s, 1, Len(s) - 1)
<1>1. /\ Len(s) \in Nat /\ Len(s) >= 1 /\ p \in Seq(Frames) /\ Len(p) = Len(s) - 1
      /\ \A i \in 1 .. Len(s) - 1 : p[i] = s[i]
  BY WithoutTop
<1> HIDE DEF p
<1>2. /\ Append(p, f) \in Seq(Frames) /\ Append(p, f) # <<>> /\ Len(Append(p, f)) = Len(p) + 1
      /\ \A i \in 1 .. Len(p) : Append(p, f)[i] = p[i]
      /\ Append(p, f)[Len(p) + 1] = f
  BY <1>1, WithFrame
<1>3. Len(p) + 1 = Len(s)
  BY <1>1
<1>4. QED
  BY <1>1, <1>2, <1>3 DEF p

(* A frame is well formed when it is pushed.                                *)
LEMMA NewFrames ==
  /\ Unit \in Frames
  /\ \A k \in Kinds, m \in 0 .. MaxCount :
        Frame(k, m) \in Frames /\ Frame(k, m).kind = k /\ Frame(k, m).n = m /\ Frame(k, m).res = 0
        /\ (k \notin Tested => Frame(k, m).phase = "body")
  /\ Unit.kind = "source" /\ IsUnit(Unit) /\ ~IsCommand(Unit)
  /\ \A f \in Frames : f.kind \in Kinds /\ f.n \in 0 .. MaxCount /\ f.res \in {0, 1}
                       /\ f.phase \in {"test", "then", "else", "body"}
  BY EvaluatorAssumption DEF Frames, Kinds, Frame, Unit, Tested, IsUnit, IsCommand

LEMMA KindFacts ==
  /\ \A f : f.kind \in LoopKinds \cup {"group", "list", "case", "if", "function"} =>
               ~IsUnit(f) /\ ~IsCommand(f)
  /\ \A f : f.kind = "command" \/ f.kind = "break" \/ f.kind = "continue" \/ f.kind = "return" =>
               IsCommand(f) /\ ~IsUnit(f) /\ f.kind \notin LoopKinds
  /\ \A f : IsUnit(f) => ~IsCommand(f) /\ f.kind \notin LoopKinds
  /\ \A k \in Compound : k \notin {"command", "break", "continue", "return"} /\ k \in Kinds
  /\ \A k \in {"command", "break", "continue", "return"} : k \in Kinds /\ k \notin Tested
  BY EvaluatorAssumption DEF IsUnit, IsCommand, LoopKinds, Tested, Kinds

(* What a step does to the stack and to the level of loops.                 *)
InLoops(k) == IF k \in LoopKinds THEN 1 ELSE 0

\* What else is so when f is pushed.
Needs(f) ==
    /\ pc = "run" /\ UNCHANGED <<pc, result, exit_status, flags>>
    /\ f.kind \in {"break", "continue"} => f.n \in 1 .. MaxCount /\ MayJump(f.kind, f.n)
    /\ f.kind = "return" => MayReturn
    /\ f.kind \in LoopKinds => "loopAfterInt" \in Programs \/ ~signal_received
    /\ IF IsUnit(f) THEN req_break' = 0 /\ req_continue' = 0
                    ELSE UNCHANGED <<req_break, req_continue>>

Same   == /\ stack' = stack
          /\ cur_loop_level' = cur_loop_level \/ (Len(stack) = 1 /\ cur_loop_level' = 0)
Pushed == \E f \in Frames :
            /\ stack' = Append(stack, f) /\ ~IsCommand(Top) /\ Len(stack) + 1 <= MaxDepth
            /\ IsUnit(f) => cur_loop_level = 0
            /\ cur_loop_level' = cur_loop_level + InLoops(f.kind)
            /\ Needs(f)
Left   == /\ stack' = Popped /\ Len(stack) >= 2
          /\ cur_loop_level' = cur_loop_level - InLoops(Top.kind)
Again  == \E f \in Frames :
            /\ stack' = WithTop(f) /\ f.kind = Top.kind /\ ~IsUnit(Top) /\ ~IsCommand(Top)
            /\ cur_loop_level' = cur_loop_level

(* The frame on top is one of Frames, and the bottom one is a unit.         *)
LEMMA TopFrame ==
  ASSUME StackOf(stack)
  PROVE  /\ Len(stack) \in Nat /\ Len(stack) >= 1
         /\ Top \in Frames /\ Top.kind \in Kinds
         /\ Len(stack) >= 2 \/ (Len(stack) = 1 /\ Top = Unit)
<1>1. Len(stack) \in Nat /\ Len(stack) >= 1
  BY WithoutTop DEF StackOf
<1>2. Top \in Frames
  BY <1>1, ElementOfSeq DEF StackOf, Top
<1>3. Len(stack) >= 2 \/ Len(stack) = 1
  BY <1>1
<1>4. Len(stack) = 1 => Top = Unit
  BY DEF StackOf, Top
<1>5. QED
  BY <1>1, <1>2, <1>3, <1>4, NewFrames

LEMMA Begins ==
  ASSUME StackOf(stack), NEW f \in Frames, Begin(f), IsUnit(f) => cur_loop_level = 0,
         cur_loop_level \in Nat, cur_loop_level' = cur_loop_level + InLoops(f.kind), Needs(f)
  PROVE  Pushed
<1>1. Len(stack) \in Nat /\ MaxDepth \in Nat
  BY TopFrame, EvaluatorAssumption
<1>2. Room(f) \in {1, 2, 3}
  BY DEF Room
<1>3. Len(stack) + Room(f) <= MaxDepth /\ stack' = Append(stack, f) /\ ~IsCommand(Top)
  BY DEF Begin
<1>4. Len(stack) + 1 <= MaxDepth
  <2> DEFINE r == Room(f)  l == Len(stack)
  <2> HIDE DEF r, l
  <2>1. QED
    BY <1>1, <1>2, <1>3 DEF r, l
<1>5. QED
  BY <1>3, <1>4 DEF Pushed

LEMMA Leaves ==
  ASSUME StackOf(stack), ~IsUnit(Top) \/ Len(stack) > 1, stack' = Popped,
         cur_loop_level' = cur_loop_level - InLoops(Top.kind)
  PROVE  Left
<1>1. Len(stack) >= 2
  BY TopFrame, NewFrames
<1>2. QED
  BY <1>1 DEF Left

LEMMA Pushes ==
  ASSUME "evalInLoop" \notin Programs, StackOf(stack), cur_loop_level \in Nat,
         \/ Simple \/ ReturnCommand
         \/ \E k \in {"break", "continue"}, n \in 1..MaxCount : Jump(k, n)
         \/ \E k \in Compound : Enter(k)
  PROVE  Pushed
<1>1. CASE Simple
  <2>1. Frame("command", 0) \in Frames /\ Frame("command", 0).kind = "command"
    BY NewFrames, KindFacts, EvaluatorAssumption
  <2>2. cur_loop_level' = cur_loop_level
    BY <1>1 DEF Simple, counters
  <2>3. Needs(Frame("command", 0))
    BY <1>1, <2>1, KindFacts DEF Simple, counters, Needs, Begin, LoopKinds, IsUnit
  <2>4. QED
    BY <1>1, <2>1, <2>2, <2>3, Begins, KindFacts DEF Simple, InLoops
<1>2. CASE ReturnCommand
  <2>1. Frame("return", 0) \in Frames /\ Frame("return", 0).kind = "return"
    BY NewFrames, KindFacts, EvaluatorAssumption
  <2>2. cur_loop_level' = cur_loop_level
    BY <1>2 DEF ReturnCommand, counters
  <2>3. Needs(Frame("return", 0))
    BY <1>2, <2>1, KindFacts DEF ReturnCommand, counters, Needs, Begin, LoopKinds, IsUnit
  <2>4. QED
    BY <1>2, <2>1, <2>2, <2>3, Begins, KindFacts DEF ReturnCommand, InLoops
<1>3. ASSUME NEW k \in {"break", "continue"}, NEW n \in 1 .. MaxCount, Jump(k, n)
      PROVE  Pushed
  <2>0. n \in 0 .. MaxCount
    BY EvaluatorAssumption
  <2>1. Frame(k, n) \in Frames /\ Frame(k, n).kind = k /\ Frame(k, n).n = n
    BY <2>0, NewFrames, KindFacts, EvaluatorAssumption
  <2>2. cur_loop_level' = cur_loop_level
    BY <1>3 DEF Jump, counters
  <2>3. Needs(Frame(k, n))
    BY <1>3, <2>1, KindFacts DEF Jump, counters, Needs, Begin, LoopKinds, IsUnit
  <2>4. QED
    BY <1>3, <2>1, <2>2, <2>3, Begins, KindFacts DEF Jump, InLoops
<1>4. ASSUME NEW k \in Compound, Enter(k)
      PROVE  Pushed
  <2>1. Frame(k, 0) \in Frames /\ Frame(k, 0).kind = k
    BY NewFrames, KindFacts, EvaluatorAssumption
  <2>2. Begin(Frame(k, 0)) /\ MayEnter(k)
    BY <1>4 DEF Enter
  <2>3. Needs(Frame(k, 0))
    BY <1>4, <2>1, <2>2, KindFacts DEF Enter, counters, Needs, Begin, MayEnter, IsUnit
  <2>4. CASE k \in {"eval", "source"}
    <3>1. cur_loop_level = 0 /\ cur_loop_level' = 0
      BY <1>4, <2>2, <2>4 DEF Enter, MayEnter
    <3>2. InLoops(k) = 0
      BY <2>4 DEF InLoops, LoopKinds
    <3>3. QED
      BY <2>1, <2>2, <2>3, <3>1, <3>2, Begins
  <2>5. CASE k \notin {"eval", "source"}
    <3>1. cur_loop_level' = cur_loop_level + InLoops(k)
      BY <1>4, <2>5 DEF Enter, InLoops
    <3>2. ~IsUnit(Frame(k, 0))
      BY <2>1, <2>5 DEF IsUnit
    <3>3. QED
      BY <2>1, <2>2, <2>3, <3>1, <3>2, Begins
  <2>6. QED
    BY <2>4, <2>5
<1>5. QED
  BY <1>1, <1>2, <1>3, <1>4

LEMMA Moves ==
  ASSUME "evalInLoop" \notin Programs, StackOf(stack), cur_loop_level \in Nat, [Next]_vars
  PROVE  Same \/ Pushed \/ Left \/ Again
<1>1. CASE \/ Simple \/ ReturnCommand
           \/ \E k \in {"break", "continue"}, n \in 1..MaxCount : Jump(k, n)
           \/ \E k \in Compound : Enter(k)
  BY <1>1, Pushes
<1>2. CASE Run \/ CannotRun \/ OutsideLoop \/ Break \/ Continue \/ Return
  <2>1. /\ Top.kind = "command" \/ Top.kind = "break" \/ Top.kind = "continue" \/ Top.kind = "return"
        /\ stack' = Popped /\ cur_loop_level' = cur_loop_level
    BY <1>2 DEF Run, CannotRun, OutsideLoop, Break, Continue, Return, CommandDone, counters
  <2>2. ~IsUnit(Top) /\ InLoops(Top.kind) = 0
    BY <2>1, KindFacts DEF InLoops
  <2>3. QED
    BY <2>1, <2>2, Leaves
<1>3. CASE Interrupt \/ NextCommand \/ ListEnds \/ FallThrough \/ NextLine \/ UNCHANGED vars
  <2>1. QED
    BY <1>3 DEF Interrupt, NextCommand, ListEnds, FallThrough, NextLine, vars, counters, Same
<1>4. CASE NewUnit
  BY <1>4 DEF NewUnit, Same
<1>5. CASE LeaveGroup \/ LeaveCase \/ LeaveFunction
  <2>1. /\ Top.kind \in {"group", "list", "case", "function"}
        /\ stack' = Popped /\ cur_loop_level' = cur_loop_level
    BY <1>5 DEF LeaveGroup, LeaveCase, LeaveFunction, Leave, counters
  <2>2. ~IsUnit(Top) /\ InLoops(Top.kind) = 0
    BY <2>1, KindFacts DEF InLoops, LoopKinds
  <2>3. QED
    BY <2>1, <2>2, Leaves
<1>6. CASE LeaveUnit
  <2>1. Len(stack) > 1 /\ IsUnit(Top) /\ stack' = Popped /\ cur_loop_level' = cur_loop_level
    BY <1>6 DEF LeaveUnit, Leave, counters
  <2>2. InLoops(Top.kind) = 0
    BY <2>1, KindFacts DEF InLoops
  <2>3. QED
    BY <2>1, <2>2, Leaves
<1>7. CASE If
  <2>1. Top.kind = "if" /\ cur_loop_level' = cur_loop_level
    BY <1>7 DEF If, counters
  <2>2. ~IsUnit(Top) /\ ~IsCommand(Top) /\ InLoops(Top.kind) = 0
    BY <2>1, KindFacts DEF InLoops, LoopKinds
  <2>3. CASE stack' = Popped
    BY <2>1, <2>2, <2>3, Leaves
  <2>4. CASE stack' = WithTop([Top EXCEPT !.phase = IF TestSays THEN "then" ELSE "else"])
    <3> DEFINE f == [Top EXCEPT !.phase = IF TestSays THEN "then" ELSE "else"]
    <3>1. f \in Frames /\ f.kind = Top.kind
      BY TopFrame DEF Frames
    <3>2. QED
      BY <2>1, <2>2, <2>4, <3>1 DEF Again
  <2>5. QED
    BY <1>7, <2>3, <2>4 DEF If, Leave
<1>8. CASE LoopTest \/ BodyStops \/ BreakLoop \/ ContinueOuter \/ NextRound
  <2>1. Top.kind \in LoopKinds /\ ~IsUnit(Top) /\ ~IsCommand(Top) /\ InLoops(Top.kind) = 1
    BY <1>8, KindFacts DEF LoopTest, BodyStops, BreakLoop, ContinueOuter, NextRound, BodyEnds, InLoop, InLoops
  <2>2. CASE stack' = Popped /\ cur_loop_level' = cur_loop_level - 1
    BY <2>1, <2>2, Leaves
  <2>3. CASE stack' = WithTop([Top EXCEPT !.phase = "body"]) /\ cur_loop_level' = cur_loop_level
    <3>1. [Top EXCEPT !.phase = "body"] \in Frames /\ [Top EXCEPT !.phase = "body"].kind = Top.kind
      BY TopFrame DEF Frames
    <3>2. QED
      BY <2>1, <2>3, <3>1 DEF Again
  <2>4. CASE stack' = WithTop([Frame(Top.kind, 0) EXCEPT !.res = 1]) /\ cur_loop_level' = cur_loop_level
    <3>1. [Frame(Top.kind, 0) EXCEPT !.res = 1] \in Frames /\ [Frame(Top.kind, 0) EXCEPT !.res = 1].kind = Top.kind
      BY TopFrame, EvaluatorAssumption DEF Frames, Frame
    <3>2. QED
      BY <2>1, <2>4, <3>1 DEF Again
  <2>5. QED
    BY <1>8, <2>2, <2>3, <2>4 DEF LoopTest, BodyStops, BreakLoop, ContinueOuter, NextRound, LeaveLoop, Leave
<1>9. QED
  BY <1>1, <1>2, <1>3, <1>4, <1>5, <1>6, <1>7, <1>8 DEF Next

(* The number of loops on a stack that grows or shrinks by a frame.         *)
LEMMA LoopsFinite ==
  ASSUME NEW s, StackOf(s)
  PROVE  /\ LoopsOf(s) \subseteq 2 .. Len(s) /\ IsFiniteSet(LoopsOf(s))
         /\ Cardinality(LoopsOf(s)) \in 0 .. Len(s) - 1
<1>1. Len(s) \in Nat /\ Len(s) >= 1 /\ DOMAIN s = 1 .. Len(s) /\ s[1].kind \notin LoopKinds
  BY WithoutTop, NewFrames, KindFacts, LenProperties DEF StackOf
<1>2. LoopsOf(s) \subseteq 2 .. Len(s)
  BY <1>1 DEF LoopsOf
<1>3. IsFiniteSet(2 .. Len(s)) /\ Cardinality(2 .. Len(s)) = Len(s) - 1
  BY <1>1, FS_Interval
<1>4. IsFiniteSet(LoopsOf(s)) /\ Cardinality(LoopsOf(s)) <= Cardinality(2 .. Len(s))
  BY <1>2, <1>3, FS_Subset
<1>5. Cardinality(LoopsOf(s)) \in Nat
  BY <1>4, FS_CardinalityType
<1>6. QED
  BY <1>1, <1>2, <1>3, <1>4, <1>5

LEMMA LoopsPushed ==
  ASSUME NEW s \in Seq(Frames), NEW f \in Frames
  PROVE  LoopsOf(Append(s, f)) = LoopsOf(s) \cup (IF f.kind \in LoopKinds THEN {Len(s) + 1} ELSE {})
<1> DEFINE a == Append(s, f)
<1>1. /\ Len(s) \in Nat /\ a \in Seq(Frames) /\ Len(a) = Len(s) + 1
      /\ \A i \in 1 .. Len(s) : a[i] = s[i]
      /\ a[Len(s) + 1] = f
  BY WithFrame
<1>2. DOMAIN s = 1 .. Len(s) /\ DOMAIN a = 1 .. Len(s) + 1
  BY <1>1, LenProperties
<1> HIDE DEF a
<1>3. LoopsOf(a) = {i \in 1 .. Len(s) + 1 : a[i].kind \in LoopKinds}
  BY <1>2 DEF LoopsOf
<1>4. LoopsOf(s) = {i \in 1 .. Len(s) : s[i].kind \in LoopKinds}
  BY <1>2 DEF LoopsOf
<1>5. 1 .. Len(s) + 1 = (1 .. Len(s)) \cup {Len(s) + 1}
  BY <1>1
<1>6. \A i \in 1 .. Len(s) + 1 : i \in LoopsOf(a) <=> i \in LoopsOf(s) \/ (i = Len(s) + 1 /\ f.kind \in LoopKinds)
  BY <1>1, <1>3, <1>4
<1>7. LoopsOf(a) = LoopsOf(s) \cup (IF f.kind \in LoopKinds THEN {Len(s) + 1} ELSE {})
  BY <1>1, <1>3, <1>4, <1>5, <1>6
<1>8. QED
  BY <1>7 DEF a

LEMMA CountPushed ==
  ASSUME NEW s, StackOf(s), NEW f \in Frames
  PROVE  Cardinality(LoopsOf(Append(s, f))) = Cardinality(LoopsOf(s)) + InLoops(f.kind)
<1>1. IsFiniteSet(LoopsOf(s)) /\ Cardinality(LoopsOf(s)) \in Nat /\ Len(s) + 1 \notin LoopsOf(s)
  <2>1. Len(s) \in Nat
    BY WithoutTop DEF StackOf
  <2>2. QED
    BY <2>1, LoopsFinite
<1>2. LoopsOf(Append(s, f)) = LoopsOf(s) \cup (IF f.kind \in LoopKinds THEN {Len(s) + 1} ELSE {})
  BY LoopsPushed DEF StackOf
<1>3. CASE f.kind \in LoopKinds
  BY <1>1, <1>2, <1>3, FS_AddElement DEF InLoops
<1>4. CASE f.kind \notin LoopKinds
  BY <1>1, <1>2, <1>4 DEF InLoops
<1>5. QED
  BY <1>3, <1>4

(* A stack is a stack after each move.                                      *)
LEMMA StackPushed ==
  ASSUME NEW s, StackOf(s), NEW f \in Frames, ~IsCommand(s[Len(s)]), Len(s) + 1 <= MaxDepth,
         IsUnit(f) => LoopsOf(s) = {}
  PROVE  StackOf(Append(s, f))
<1> DEFINE a == Append(s, f)
<1>1. /\ s \in Seq(Frames) /\ s[1] = Unit /\ Len(s) >= 1
      /\ \A i \in 1 .. Len(s) - 1 : ~IsCommand(s[i])
      /\ \A i \in 1 .. Len(s) : IsUnit(s[i]) => \A j \in 1 .. i-1 : s[j].kind \notin LoopKinds
  BY WithoutTop DEF StackOf
<1>2. /\ Len(s) \in Nat /\ a \in Seq(Frames) /\ a # <<>> /\ Len(a) = Len(s) + 1
      /\ \A i \in 1 .. Len(s) : a[i] = s[i]
      /\ a[Len(s) + 1] = f
  BY <1>1, WithFrame
<1>3. DOMAIN s = 1 .. Len(s)
  BY <1>1, LenProperties
<1> HIDE DEF a
<1>4. a[1] = Unit
  BY <1>1, <1>2
<1>5. \A i \in 1 .. Len(a) - 1 : ~IsCommand(a[i])
  <2>1. \A i \in 1 .. Len(s) : ~IsCommand(s[i])
    <3>1. 1 .. Len(s) = (1 .. Len(s) - 1) \cup {Len(s)}
      BY <1>1, <1>2
    <3>2. QED
      BY <1>1, <3>1
  <2>2. Len(a) - 1 = Len(s)
    BY <1>2
  <2>3. QED
    BY <1>2, <2>1, <2>2
<1>6. ASSUME NEW i \in 1 .. Len(a), IsUnit(a[i]), NEW j \in 1 .. i-1
      PROVE  a[j].kind \notin LoopKinds
  <2>1. j \in 1 .. Len(s) /\ a[j] = s[j]
    BY <1>2
  <2>2. CASE i = Len(s) + 1
    BY <1>2, <1>3, <1>6, <2>1, <2>2 DEF LoopsOf
  <2>3. CASE i # Len(s) + 1
    <3>1. i \in 1 .. Len(s) /\ a[i] = s[i]
      BY <1>2, <2>3
    <3>2. QED
      BY <1>1, <1>6, <2>1, <3>1
  <2>4. QED
    BY <2>2, <2>3
<1>7. QED
  BY <1>1, <1>2, <1>4, <1>5, <1>6 DEF StackOf, a

LEMMA StackLeft ==
  ASSUME NEW s, StackOf(s), Len(s) >= 2
  PROVE  LET p == SubSeq(s, 1, Len(s) - 1) IN
         /\ StackOf(p) /\ ~IsCommand(p[Len(p)])
         /\ s = Append(p, s[Len(s)]) /\ s[Len(s)] \in Frames
<1> DEFINE p == SubSeq(s, 1, Len(s) - 1)
<1>1. /\ s \in Seq(Frames) /\ s[1] = Unit
      /\ Len(s) = 1 \/ Len(s) <= MaxDepth
      /\ \A i \in 1 .. Len(s) - 1 : ~IsCommand(s[i])
      /\ \A i \in 1 .. Len(s) : IsUnit(s[i]) => \A j \in 1 .. i-1 : s[j].kind \notin LoopKinds
  BY DEF StackOf
<1>2. /\ Len(s) \in Nat /\ p \in Seq(Frames) /\ Len(p) = Len(s) - 1
      /\ \A i \in 1 .. Len(s) - 1 : p[i] = s[i]
  BY WithoutTop DEF StackOf
<1>3. s[Len(s)] \in Frames
  BY <1>1, <1>2, ElementOfSeq
<1> HIDE DEF p
<1>4. p # <<>>
  BY <1>2, EmptySeq
<1>5. \A i \in 1 .. Len(p) : i \in 1 .. Len(s) - 1 /\ i \in 1 .. Len(s) /\ p[i] = s[i]
  BY <1>2
<1>6. p[1] = Unit
  BY <1>1, <1>2
<1>7. Len(p) = 1 \/ Len(p) <= MaxDepth
  BY <1>1, <1>2, EvaluatorAssumption
<1>8. \A i \in 1 .. Len(p) - 1 : ~IsCommand(p[i])
  BY <1>1, <1>2, <1>5
<1>9. ASSUME NEW i \in 1 .. Len(p), IsUnit(p[i]), NEW j \in 1 .. i-1
      PROVE  p[j].kind \notin LoopKinds
  <2>1. j \in 1 .. Len(p)
    BY <1>2
  <2>2. QED
    BY <1>1, <1>5, <1>9, <2>1
<1>10. ~IsCommand(p[Len(p)])
  BY <1>1, <1>2
<1>11. s = Append(p, s[Len(s)])
  <2> DEFINE a == Append(p, s[Len(s)])
  <2>1. /\ a \in Seq(Frames) /\ Len(a) = Len(p) + 1
        /\ \A i \in 1 .. Len(p) : a[i] = p[i]
        /\ a[Len(p) + 1] = s[Len(s)]
    BY <1>2, <1>3, WithFrame
  <2> HIDE DEF a
  <2>2. Len(a) = Len(s) /\ \A i \in 1 .. Len(s) : a[i] = s[i]
    BY <1>2, <2>1
  <2>3. a = s
    BY <1>1, <2>1, <2>2, SeqEqual
  <2>4. QED
    BY <2>3 DEF a
<1>12. QED
  BY <1>2, <1>3, <1>4, <1>6, <1>7, <1>8, <1>9, <1>10, <1>11 DEF StackOf, p

LEMMA StackAgain ==
  ASSUME NEW s, StackOf(s), NEW f \in Frames, f.kind = s[Len(s)].kind, ~IsUnit(s[Len(s)]), ~IsCommand(s[Len(s)])
  PROVE  LET a == Append(SubSeq(s, 1, Len(s) - 1), f) IN
         StackOf(a) /\ LoopsOf(a) = LoopsOf(s)
<1> DEFINE p == SubSeq(s, 1, Len(s) - 1)  a == Append(p, f)
<1>1. Len(s) \in Nat /\ Len(s) >= 2
  BY WithoutTop, NewFrames DEF StackOf
<1>2. StackOf(p) /\ ~IsCommand(p[Len(p)]) /\ s = Append(p, s[Len(s)]) /\ s[Len(s)] \in Frames
  BY <1>1, StackLeft
<1>3. Len(p) + 1 = Len(s)
  BY <1>1, WithoutTop DEF StackOf
<1>4. Len(p) + 1 <= MaxDepth
  BY <1>1, <1>3 DEF StackOf
<1>5. ~IsUnit(f)
  BY DEF IsUnit
<1> HIDE DEF p
<1>6. StackOf(a)
  BY <1>2, <1>4, <1>5, StackPushed
<1>7. LoopsOf(a) = LoopsOf(s)
  BY <1>2, LoopsPushed DEF StackOf
<1>8. QED
  BY <1>6, <1>7 DEF p

(* The number of loops is what the level counts after each move.            *)
LevelInv == StackOf(stack) /\ LevelCounts

LEMMA LevelBound ==
  ASSUME NEW s, StackOf(s), NEW l, l = Cardinality(LoopsOf(s))
  PROVE  /\ l \in Nat /\ l \in 0 .. MaxDepth
         /\ l = 0 <=> LoopsOf(s) = {}
<1>1. IsFiniteSet(LoopsOf(s)) /\ l \in 0 .. Len(s) - 1 /\ Len(s) \in Nat
  BY LoopsFinite, WithoutTop DEF StackOf
<1>2. l = 0 <=> LoopsOf(s) = {}
  BY <1>1, FS_EmptySet
<1>3. Len(s) = 1 \/ Len(s) <= MaxDepth
  BY DEF StackOf
<1>4. l \in Nat /\ l \in 0 .. MaxDepth
  <2>1. MaxDepth \in Nat
    BY EvaluatorAssumption
  <2>2. CASE Len(s) = 1
    <3>1. l = 0
      BY <1>1, <2>2
    <3>2. QED
      BY <2>1, <3>1
  <2>3. CASE Len(s) <= MaxDepth
    BY <1>1, <2>1, <2>3
  <2>4. QED
    BY <1>3, <2>2, <2>3
<1>5. QED
  BY <1>2, <1>4

LEMMA LevelIsNat ==
  ASSUME LevelInv
  PROVE  /\ cur_loop_level \in Nat /\ cur_loop_level \in 0 .. MaxDepth
         /\ cur_loop_level = 0 <=> LoopsOf(stack) = {}
  BY LevelBound DEF LevelInv, LevelCounts

LEMMA LevelStep ==
  ASSUME "evalInLoop" \notin Programs, LevelInv, [Next]_vars
  PROVE  LevelInv'
<1>1. /\ StackOf(stack) /\ cur_loop_level = Cardinality(LoopsOf(stack))
      /\ cur_loop_level \in Nat /\ (cur_loop_level = 0 <=> LoopsOf(stack) = {})
  BY LevelIsNat DEF LevelInv, LevelCounts
<1>2. Same \/ Pushed \/ Left \/ Again
  BY <1>1, Moves
<1>3. CASE Same
  <2>1. Len(stack) = 1 => cur_loop_level = 0
    <3>1. cur_loop_level \in 0 .. Len(stack) - 1
      BY <1>1, LoopsFinite
    <3>2. QED
      BY <3>1
  <2>2. stack' = stack /\ cur_loop_level' = cur_loop_level
    BY <1>3, <2>1 DEF Same
  <2>3. QED
    BY <2>2, <1>1 DEF LevelInv, LevelCounts
<1>4. CASE Pushed
  <2>1. PICK f \in Frames :
          /\ stack' = Append(stack, f) /\ ~IsCommand(Top) /\ Len(stack) + 1 <= MaxDepth
          /\ IsUnit(f) => cur_loop_level = 0
          /\ cur_loop_level' = cur_loop_level + InLoops(f.kind)
    BY <1>4 DEF Pushed
  <2>2. StackOf(stack')
    BY <1>1, <2>1, StackPushed DEF Top
  <2>3. Cardinality(LoopsOf(stack')) = cur_loop_level'
    BY <1>1, <2>1, CountPushed
  <2>4. QED
    BY <2>2, <2>3 DEF LevelInv, LevelCounts
<1>5. CASE Left
  <2>1. stack' = Popped /\ Len(stack) >= 2 /\ cur_loop_level' = cur_loop_level - InLoops(Top.kind)
    BY <1>5 DEF Left
  <2>2. StackOf(Popped) /\ stack = Append(Popped, Top) /\ Top \in Frames
    BY <1>1, <2>1, StackLeft DEF Popped, Top
  <2>3. Cardinality(LoopsOf(stack)) = Cardinality(LoopsOf(Popped)) + InLoops(Top.kind)
    BY <2>2, CountPushed
  <2>4. Cardinality(LoopsOf(Popped)) \in Nat
    BY <2>2, LoopsFinite, FS_CardinalityType
  <2>5. Cardinality(LoopsOf(Popped)) = cur_loop_level'
    BY <1>1, <2>1, <2>3, <2>4 DEF InLoops
  <2>6. QED
    BY <2>1, <2>2, <2>5 DEF LevelInv, LevelCounts
<1>6. CASE Again
  <2>1. PICK f \in Frames :
          /\ stack' = WithTop(f) /\ f.kind = Top.kind /\ ~IsUnit(Top) /\ ~IsCommand(Top)
          /\ cur_loop_level' = cur_loop_level
    BY <1>6 DEF Again
  <2>2. StackOf(stack') /\ LoopsOf(stack') = LoopsOf(stack)
    BY <1>1, <2>1, StackAgain DEF WithTop, Popped, Top
  <2>3. QED
    BY <1>1, <2>1, <2>2 DEF LevelInv, LevelCounts
<1>7. QED
  BY <1>2, <1>3, <1>4, <1>5, <1>6

LEMMA LevelInit == ASSUME Init PROVE LevelInv
<1>1. stack = <<Unit>> /\ cur_loop_level = 0
  BY DEF Init
<1>2. Unit \in Frames /\ Unit.kind \notin LoopKinds /\ ~IsCommand(Unit)
  BY NewFrames, KindFacts
<1>3. <<Unit>> \in Seq(Frames) /\ Len(<<Unit>>) = 1 /\ <<Unit>>[1] = Unit /\ <<Unit>> # <<>>
  BY <1>2
<1>4. StackOf(<<Unit>>)
  BY <1>2, <1>3 DEF StackOf
<1>5. LoopsOf(<<Unit>>) = {}
  <2>1. LoopsOf(<<Unit>>) \subseteq 2 .. 1
    BY <1>3, <1>4, LoopsFinite
  <2>2. QED
    BY <2>1
<1>6. QED
  BY <1>1, <1>4, <1>5, FS_EmptySet DEF LevelInv, LevelCounts

(* cur_loop_level is the number of loops that are running, whatever compound *)
(* commands a program nests and however it leaves them, as long as no unit   *)
(* is executed inside a loop: parse_and_execute() resets the level of the    *)
(* loops that go on around it (backend.c).                                   *)
THEOREM Levels == ASSUME "evalInLoop" \notin Programs PROVE Spec => []LevelCounts
<1>1. Init => LevelInv
  BY LevelInit
<1>2. LevelInv /\ [Next]_vars => LevelInv'
  BY LevelStep
<1>3. LevelInv => LevelCounts
  BY DEF LevelInv
<1>4. QED
  BY <1>1, <1>2, <1>3, PTL DEF Spec

(* The frame on top after each move.                                        *)
LEMMA TopAfter ==
  ASSUME StackOf(stack)
  PROVE  /\ \A f \in Frames : stack' = Append(stack, f) => Top' = f /\ Popped' = stack
         /\ \A f \in Frames : stack' = WithTop(f) => Top' = f /\ Popped' = Popped
         /\ stack' = Popped /\ Len(stack) >= 2 => ~IsCommand(Top')
<1>1. Len(stack) \in Nat /\ Len(stack) >= 1 /\ stack \in Seq(Frames)
  BY WithoutTop DEF StackOf
<1>2. ASSUME NEW s \in Seq(Frames), NEW f \in Frames
      PROVE  LET a == Append(s, f) IN a[Len(a)] = f /\ SubSeq(a, 1, Len(a) - 1) = s
  <2> DEFINE a == Append(s, f)  p == SubSeq(a, 1, Len(a) - 1)
  <2>1. /\ Len(s) \in Nat /\ a \in Seq(Frames) /\ a # <<>> /\ Len(a) = Len(s) + 1
        /\ \A i \in 1 .. Len(s) : a[i] = s[i]
        /\ a[Len(s) + 1] = f
    BY <1>2, WithFrame
  <2>2. /\ p \in Seq(Frames) /\ Len(p) = Len(a) - 1
        /\ \A i \in 1 .. Len(a) - 1 : p[i] = a[i]
    BY <2>1, WithoutTop
  <2> HIDE DEF a, p
  <2>3. Len(p) = Len(s) /\ \A i \in 1 .. Len(s) : p[i] = s[i]
    BY <2>1, <2>2
  <2>4. p = s
    BY <1>2, <2>2, <2>3, SeqEqual
  <2>5. a[Len(a)] = f
    BY <2>1
  <2>6. QED
    BY <2>4, <2>5 DEF a, p
<1>3. ASSUME NEW f \in Frames, stack' = Append(stack, f) PROVE Top' = f /\ Popped' = stack
  BY <1>1, <1>2, <1>3 DEF Top, Popped
<1>4. ASSUME NEW f \in Frames, stack' = WithTop(f) PROVE Top' = f /\ Popped' = Popped
  <2>1. Popped \in Seq(Frames)
    BY WithoutTop DEF StackOf, Popped
  <2> DEFINE p == Popped
  <2>2. stack' = Append(p, f)
    BY <1>4 DEF WithTop
  <2>3. stack'[Len(stack')] = f /\ SubSeq(stack', 1, Len(stack') - 1) = p
    <3> HIDE DEF p
    <3>1. p \in Seq(Frames)
      BY <2>1 DEF p
    <3>2. QED
      BY <1>2, <2>2, <3>1
  <2>4. QED
    BY <2>3 DEF Top, Popped
<1>5. ASSUME stack' = Popped, Len(stack) >= 2 PROVE ~IsCommand(Top')
  BY <1>5, StackLeft DEF Top, Popped
<1>6. QED
  BY <1>3, <1>4, <1>5

(* The flags are flags, the counters are counters, and break and continue   *)
(* do not ask for more loops than there are.                                *)
TypeInv ==
    /\ LevelInv
    /\ pc \in {"run", "ran", "left"} /\ result \in {0, 1} /\ exit_status \in {0, 1}
    /\ req_break \in 0 .. MaxDepth /\ req_continue \in 0 .. MaxCount
    /\ return_set \in BOOLEAN /\ signal_received \in BOOLEAN
    /\ Top.kind \in {"break", "continue"} => cur_loop_level = 0 \/ Top.n \in 1 .. cur_loop_level

LEMMA TypeStep ==
  ASSUME Programs \cap {"evalInLoop", "overshoot"} = {}, TypeInv, [Next]_vars
  PROVE  TypeInv'
<1>1. /\ LevelInv /\ LevelInv' /\ StackOf(stack) /\ Top \in Frames
      /\ cur_loop_level \in Nat /\ cur_loop_level \in 0 .. MaxDepth
      /\ cur_loop_level' \in 0 .. MaxDepth
  <2>1. LevelInv /\ LevelInv'
    BY LevelStep DEF TypeInv
  <2>2. cur_loop_level' \in 0 .. MaxDepth
    BY <2>1, LevelBound DEF LevelInv, LevelCounts
  <2>3. QED
    BY <2>1, <2>2, LevelIsNat, TopFrame DEF LevelInv
<1>2. Same \/ Pushed \/ Left \/ Again
  BY <1>1, Moves
<1>3. /\ MaxDepth \in Nat /\ MaxCount \in Nat
      /\ pc \in {"run", "ran", "left"} /\ result \in {0, 1} /\ exit_status \in {0, 1}
      /\ req_break \in 0 .. MaxDepth /\ req_continue \in 0 .. MaxCount
      /\ return_set \in BOOLEAN /\ signal_received \in BOOLEAN
      /\ Top.res \in {0, 1} /\ Top.n \in 0 .. MaxCount
      /\ Top.kind \in {"break", "continue"} => cur_loop_level = 0 \/ Top.n \in 1 .. cur_loop_level
  BY <1>1, EvaluatorAssumption, NewFrames DEF TypeInv
<1>4. Top'.kind \in {"break", "continue"} => cur_loop_level' = 0 \/ Top'.n \in 1 .. cur_loop_level'
  <2>1. CASE Same
    <3>1. Top' = Top
      BY <2>1 DEF Same, Top
    <3>2. QED
      BY <1>3, <2>1, <3>1 DEF Same
  <2>2. CASE Pushed
    <3>1. PICK f \in Frames :
            /\ stack' = Append(stack, f) /\ cur_loop_level' = cur_loop_level + InLoops(f.kind) /\ Needs(f)
      BY <2>2 DEF Pushed
    <3>2. Top' = f
      BY <1>1, <3>1, TopAfter
    <3>3. ASSUME f.kind \in {"break", "continue"} PROVE cur_loop_level' = 0 \/ f.n \in 1 .. cur_loop_level'
      <4>1. InLoops(f.kind) = 0
        BY <3>3 DEF InLoops, LoopKinds
      <4>2. cur_loop_level' = cur_loop_level
        BY <1>1, <3>1, <4>1
      <4>3. f.n \in 1 .. MaxCount /\ (cur_loop_level = 0 \/ f.n <= cur_loop_level)
        BY <3>1, <3>3 DEF Needs, MayJump
      <4>4. QED
        BY <1>1, <1>3, <4>2, <4>3
    <3>4. QED
      BY <3>2, <3>3
  <2>3. CASE Left
    <3>1. ~IsCommand(Top')
      BY <1>1, <2>3, TopAfter DEF Left
    <3>2. QED
      BY <3>1, KindFacts
  <2>4. CASE Again
    <3>1. PICK f \in Frames : stack' = WithTop(f) /\ f.kind = Top.kind /\ ~IsCommand(Top)
      BY <2>4 DEF Again
    <3>2. Top' = f
      BY <1>1, <3>1, TopAfter
    <3>3. QED
      BY <3>1, <3>2, KindFacts
  <2>5. QED
    BY <1>2, <2>1, <2>2, <2>3, <2>4
<1> DEFINE Ranges == /\ pc \in {"run", "ran", "left"} /\ result \in {0, 1} /\ exit_status \in {0, 1}
                     /\ req_break \in 0 .. MaxDepth /\ req_continue \in 0 .. MaxCount
                     /\ return_set \in BOOLEAN /\ signal_received \in BOOLEAN
<1>5. SUFFICES Ranges'
  BY <1>1, <1>4 DEF TypeInv
<1>6. Ranges
  BY <1>3
<1>7. CASE Simple \/ ReturnCommand \/ (\E k \in {"break", "continue"}, n \in 1 .. MaxCount : Jump(k, n))
  <2>1. UNCHANGED <<pc, result, exit_status, counters, flags>>
    BY <1>7 DEF Simple, ReturnCommand, Jump
  <2>2. QED
    BY <1>6, <2>1 DEF counters, flags
<1>8. CASE \E k \in Compound : Enter(k)
  <2>1. UNCHANGED <<pc, result, exit_status, flags>>
        /\ ((req_break' = 0 /\ req_continue' = 0) \/ UNCHANGED <<req_break, req_continue>>)
    BY <1>8 DEF Enter
  <2>2. QED
    BY <1>3, <1>6, <2>1 DEF flags
<1>9. CASE Run \/ CannotRun \/ OutsideLoop \/ Break \/ Continue \/ Return
  <2>1. /\ pc' = "ran" /\ result' \in {0, 1} /\ exit_status' \in {0, 1}
        /\ UNCHANGED signal_received /\ (return_set' = TRUE \/ UNCHANGED return_set)
    BY <1>9 DEF Run, CannotRun, OutsideLoop, Break, Continue, Return, CommandDone, flags
  <2>2. req_break' \in 0 .. MaxDepth
    <3>1. CASE Break
      <4>1. req_break' = Top.n /\ Top.n \in 1 .. cur_loop_level
        BY <1>3, <3>1 DEF Break
      <4>2. QED
        BY <1>1, <1>3, <4>1
    <3>2. CASE ~Break
      <4>1. UNCHANGED req_break
        BY <1>9, <3>2 DEF Run, CannotRun, OutsideLoop, Continue, Return, counters
      <4>2. QED
        BY <1>6, <4>1
    <3>3. QED
      BY <3>1, <3>2
  <2>3. req_continue' \in 0 .. MaxCount
    <3>1. req_continue' = Top.n \/ UNCHANGED req_continue
      BY <1>9 DEF Run, CannotRun, OutsideLoop, Break, Continue, Return, counters
    <3>2. QED
      BY <1>3, <3>1
  <2>4. QED
    BY <1>3, <2>1, <2>2, <2>3
<1>10. CASE Interrupt
  <2>1. /\ UNCHANGED <<pc, result, exit_status, req_continue, return_set>>
        /\ signal_received' = TRUE /\ req_break' = cur_loop_level
    BY <1>10 DEF Interrupt
  <2>2. QED
    BY <1>1, <1>3, <2>1
<1>11. CASE NextCommand \/ ListEnds \/ FallThrough \/ NextLine \/ UNCHANGED vars
  <2>1. UNCHANGED <<result, exit_status, req_break, req_continue, return_set, signal_received>>
        /\ (pc' \in {"run", "left"} \/ UNCHANGED pc)
    BY <1>11 DEF NextCommand, ListEnds, FallThrough, NextLine, vars, counters, flags
  <2>2. QED
    BY <1>3, <2>1
<1>12. CASE NewUnit \/ LeaveUnit
  <2>1. /\ pc' \in {"run", "ran"} /\ result' = 1 /\ return_set' = FALSE /\ signal_received' = FALSE
        /\ UNCHANGED exit_status
        /\ req_break' = 0 \/ UNCHANGED req_break
        /\ req_continue' = 0 \/ UNCHANGED req_continue
    BY <1>12 DEF NewUnit, LeaveUnit, Leave, counters
  <2>2. req_break' \in 0 .. MaxDepth /\ req_continue' \in 0 .. MaxCount
    BY <1>3, <2>1
  <2>3. QED
    BY <1>3, <2>1, <2>2
<1>13. CASE LeaveGroup \/ LeaveCase \/ LeaveFunction \/ If
  <2>1. /\ pc' \in {"run", "ran"} /\ (result' = 1 \/ UNCHANGED result) /\ UNCHANGED <<exit_status, signal_received>>
        /\ return_set' = FALSE \/ UNCHANGED return_set
        /\ UNCHANGED <<req_break, req_continue>>
    BY <1>13 DEF LeaveGroup, LeaveCase, LeaveFunction, If, Leave, counters, flags
  <2>2. QED
    BY <1>3, <2>1
<1>14. CASE LoopTest \/ BodyStops \/ BreakLoop \/ ContinueOuter \/ NextRound
  <2>1. /\ pc' \in {"run", "ran"} /\ result' \in {0, 1} /\ UNCHANGED <<exit_status, return_set, signal_received>>
    BY <1>3, <1>14 DEF LoopTest, BodyStops, BreakLoop, ContinueOuter, NextRound, LeaveLoop, Leave, SoFar, flags
  <2>2. /\ (req_break # 0 /\ req_break' = req_break - 1) \/ UNCHANGED req_break
        /\ (req_continue > 1 /\ req_continue' = req_continue - 1) \/ req_continue' = 0 \/ UNCHANGED req_continue
    BY <1>14 DEF LoopTest, BodyStops, BreakLoop, ContinueOuter, NextRound
  <2>3. req_break' \in 0 .. MaxDepth /\ req_continue' \in 0 .. MaxCount
    BY <1>3, <2>2
  <2>4. QED
    BY <1>3, <2>1, <2>3
<1>15. QED
  BY <1>7, <1>8, <1>9, <1>10, <1>11, <1>12, <1>13, <1>14 DEF Next

LEMMA TypeInit == ASSUME Init PROVE TypeInv
<1>1. LevelInv
  BY LevelInit
<1>2. Len(<<Unit>>) = 1 /\ <<Unit>>[1] = Unit
  OBVIOUS
<1>3. Top.kind = "source"
  BY <1>2, NewFrames DEF Init, Top
<1>4. req_break \in 0 .. MaxDepth /\ req_continue \in 0 .. MaxCount
  BY EvaluatorAssumption DEF Init
<1>5. QED
  BY <1>1, <1>3, <1>4 DEF Init, TypeInv

(* The frames are frames, the flags are flags, and neither the level nor    *)
(* req_break nor req_continue (loops.c, break.c, continue.c) gets negative   *)
(* or grows beyond the loops there are and the n that was asked for, in      *)
(* programs that do not ask for more loops than there are.                   *)
THEOREM Types ==
  ASSUME Programs \cap {"evalInLoop", "overshoot"} = {}
  PROVE  Spec => []TypeOK
<1>1. Init => TypeInv
  BY TypeInit
<1>2. TypeInv /\ [Next]_vars => TypeInv'
  BY TypeStep
<1>3. TypeInv => TypeOK
  <2> SUFFICES ASSUME TypeInv PROVE TypeOK
    OBVIOUS
  <2>1. stack \in Seq(Frames) /\ stack[1] = Unit /\ Len(stack) \in Nat /\ cur_loop_level \in 0 .. MaxDepth
    BY LevelIsNat, TopFrame DEF TypeInv, LevelInv, StackOf
  <2>2. DOMAIN stack = 1 .. Len(stack) /\ \A i \in 1 .. Len(stack) : stack[i] \in Frames
    BY <2>1, LenProperties, ElementOfSeq
  <2>3. QED
    BY <2>1, <2>2, NewFrames DEF TypeInv, TypeOK, Kinds
<1>4. QED
  BY <1>1, <1>2, <1>3, PTL DEF Spec

-----------------------------------------------------------------------------
(* What is under way is felt by the k innermost loops, and by the frames    *)
(* above the outermost of them.                                             *)
Above(s, i)    == Cardinality({j \in LoopsOf(s) : j > i})
NoTest(s, k)   == \A i \in 1 .. Len(s) : Above(s, i) < k => s[i].phase # "test"
NotFirst(s, k) == \A i \in LoopsOf(s) : Above(s, i) < k => s[i].kind = "for" \/ s[i].res # 0

\* return is felt by the frames above the innermost function or unit.
IsScope(f) == IsUnit(f) \/ f.kind = "function"
Outside(s) == \A i \in 1 .. Len(s) : (\A j \in i .. Len(s) : ~IsScope(s[j])) => s[i].phase # "test"

LEMMA AboveIsNat ==
  ASSUME NEW s, StackOf(s), NEW i \in Int
  PROVE  /\ IsFiniteSet({j \in LoopsOf(s) : j > i})
         /\ Above(s, i) \in Nat /\ Above(s, i) <= Cardinality(LoopsOf(s))
  BY LoopsFinite, FS_Subset, FS_CardinalityType DEF Above

LEMMA AboveTop ==
  ASSUME NEW s, StackOf(s)
  PROVE  Above(s, Len(s)) = 0
<1>1. Len(s) \in Nat
  BY WithoutTop DEF StackOf
<1>2. {j \in LoopsOf(s) : j > Len(s)} = {}
  BY <1>1, LoopsFinite
<1>3. QED
  BY <1>2, FS_EmptySet DEF Above

LEMMA AbovePushed ==
  ASSUME NEW s, StackOf(s), NEW f \in Frames, NEW i \in 1 .. Len(s)
  PROVE  Above(Append(s, f), i) = Above(s, i) + InLoops(f.kind)
<1>1. Len(s) \in Nat /\ s \in Seq(Frames)
  BY WithoutTop DEF StackOf
<1> DEFINE a == {j \in LoopsOf(Append(s, f)) : j > i}  b == {j \in LoopsOf(s) : j > i}
<1>2. IsFiniteSet(b) /\ Cardinality(b) \in Nat /\ Len(s) + 1 \notin b
  <2>1. i \in Int
    BY <1>1
  <2>2. Len(s) + 1 \notin LoopsOf(s)
    BY <1>1, LoopsFinite
  <2>3. QED
    BY <2>1, <2>2, AboveIsNat DEF Above
<1>3. LoopsOf(Append(s, f)) = LoopsOf(s) \cup (IF f.kind \in LoopKinds THEN {Len(s) + 1} ELSE {})
  BY <1>1, LoopsPushed
<1>4. CASE f.kind \in LoopKinds
  <2>1. a = b \cup {Len(s) + 1}
    BY <1>1, <1>3, <1>4
  <2>2. Cardinality(a) = Cardinality(b) + 1
    BY <1>2, <2>1, FS_AddElement
  <2>3. QED
    BY <1>4, <2>2 DEF Above, InLoops
<1>5. CASE f.kind \notin LoopKinds
  <2>1. a = b
    BY <1>3, <1>5
  <2>2. Cardinality(a) = Cardinality(b) + 0
    <3> HIDE DEF a, b
    <3>1. QED
      BY <1>2, <2>1
  <2>3. QED
    BY <1>5, <2>2 DEF Above, InLoops
<1>6. QED
  BY <1>4, <1>5

LEMMA NothingFelt ==
  ASSUME NEW s, StackOf(s), NEW k \in Int, k <= 0
  PROVE  NoTest(s, k) /\ NotFirst(s, k)
<1>1. Len(s) \in Nat /\ LoopsOf(s) \subseteq 1 .. Len(s)
  BY LoopsFinite, WithoutTop DEF StackOf
<1>2. \A i \in 1 .. Len(s) : i \in Int
  BY <1>1
<1>3. \A i \in 1 .. Len(s) : ~(Above(s, i) < k)
  <2>1. \A i \in 1 .. Len(s) : Above(s, i) \in Nat
    BY <1>2, AboveIsNat
  <2>2. \A n \in Nat : ~(n < k)
    OBVIOUS
  <2>3. QED
    BY <2>1, <2>2
<1>4. QED
  BY <1>1, <1>3 DEF NoTest, NotFirst

(* The frame on top feels what is under way first.                          *)
LEMMA FeltByTop ==
  ASSUME NEW s, StackOf(s), NEW k \in Int, k >= 1
  PROVE  /\ NoTest(s, k) => s[Len(s)].phase # "test"
         /\ NotFirst(s, k) /\ s[Len(s)].kind \in LoopKinds => s[Len(s)].kind = "for" \/ s[Len(s)].res # 0
<1>1. Len(s) \in Nat /\ Len(s) \in 1 .. Len(s) /\ DOMAIN s = 1 .. Len(s)
  BY WithoutTop, LenProperties DEF StackOf
<1>2. Above(s, Len(s)) < k
  BY AboveTop
<1>3. QED
  BY <1>1, <1>2 DEF NoTest, NotFirst, LoopsOf

LEMMA FeltBelow ==
  ASSUME NEW s, StackOf(s), Len(s) >= 2, NEW k \in Int
  PROVE  LET p == SubSeq(s, 1, Len(s) - 1) IN
         /\ NoTest(s, k)   => NoTest(p, k - InLoops(s[Len(s)].kind))
         /\ NotFirst(s, k) => NotFirst(p, k - InLoops(s[Len(s)].kind))
         /\ ~IsScope(s[Len(s)]) /\ Outside(s) => Outside(p)
         /\ (\E i \in 2 .. Len(p) : IsUnit(p[i])) => (\E i \in 2 .. Len(s) : IsUnit(s[i]))
<1> DEFINE p == SubSeq(s, 1, Len(s) - 1)  t == s[Len(s)]  n == InLoops(t.kind)
<1>1. StackOf(p) /\ s = Append(p, t) /\ t \in Frames
  BY StackLeft
<1>2. /\ Len(s) \in Nat /\ Len(p) = Len(s) - 1
      /\ \A i \in 1 .. Len(s) - 1 : p[i] = s[i]
  BY WithoutTop DEF StackOf
<1>3. DOMAIN p = 1 .. Len(p) /\ DOMAIN s = 1 .. Len(s)
  BY <1>1, LenProperties DEF StackOf
<1>4. n \in {0, 1}
  BY DEF InLoops
<1>5. \A i \in 1 .. Len(p) : Above(s, i) = Above(p, i) + n /\ Above(p, i) \in Nat
  <2>1. \A i \in 1 .. Len(p) : i \in Int
    BY <1>2
  <2>2. \A i \in 1 .. Len(p) : Above(Append(p, t), i) = Above(p, i) + n
    BY <1>1, AbovePushed
  <2>3. QED
    BY <1>1, <2>1, <2>2, AboveIsNat
<1> HIDE DEF p, t, n
<1>6. \A i \in 1 .. Len(p) : i \in 1 .. Len(s) /\ p[i] = s[i] /\ (Above(p, i) < k - n => Above(s, i) < k)
  BY <1>2, <1>4, <1>5
<1>7. NoTest(s, k) => NoTest(p, k - n)
  BY <1>6 DEF NoTest
<1>8. NotFirst(s, k) => NotFirst(p, k - n)
  <2>1. \A i \in LoopsOf(p) : i \in 1 .. Len(p) /\ i \in LoopsOf(s)
    BY <1>3, <1>6 DEF LoopsOf
  <2>2. QED
    BY <1>6, <2>1 DEF NotFirst
<1>9. ASSUME ~IsScope(t), Outside(s) PROVE Outside(p)
  <2> SUFFICES ASSUME NEW i \in 1 .. Len(p), \A j \in i .. Len(p) : ~IsScope(p[j])
               PROVE  p[i].phase # "test"
    BY DEF Outside
  <2>1. ASSUME NEW j \in i .. Len(s) PROVE ~IsScope(s[j])
    <3>1. CASE j = Len(s)
      BY <1>9, <3>1 DEF t
    <3>2. CASE j # Len(s)
      <4>1. j \in i .. Len(p) /\ j \in 1 .. Len(p)
        BY <1>2, <3>2
      <4>2. QED
        BY <1>6, <4>1
    <3>3. QED
      BY <3>1, <3>2
  <2>2. QED
    BY <1>6, <1>9, <2>1 DEF Outside
<1>10. (\E i \in 2 .. Len(p) : IsUnit(p[i])) => (\E i \in 2 .. Len(s) : IsUnit(s[i]))
  <2>1. \A i \in 2 .. Len(p) : i \in 1 .. Len(p) /\ i \in 2 .. Len(s)
    BY <1>2
  <2>2. QED
    BY <1>6, <2>1
<1>11. QED
  BY <1>7, <1>8, <1>9, <1>10 DEF p, t, n

LEMMA ScopeFelt ==
  ASSUME NEW s, StackOf(s), Outside(s), ~IsScope(s[Len(s)])
  PROVE  s[Len(s)].phase # "test"
<1>1. Len(s) \in Nat /\ Len(s) \in 1 .. Len(s)
  BY WithoutTop DEF StackOf
<1>2. \A j \in Len(s) .. Len(s) : ~IsScope(s[j])
  BY <1>1
<1>3. QED
  BY <1>1, <1>2 DEF Outside

(* A set of positions has a least and a largest member.                     *)
LEMMA LeastAndLargest ==
  ASSUME NEW n \in Nat, NEW S, S \subseteq 1 .. n, S # {}
  PROVE  /\ \E m \in S : \A k \in S : m <= k
         /\ \E m \in S : \A k \in S : k <= m
<1>1. ASSUME NEW P, P \subseteq Nat, P # {} PROVE \E m \in P : \A k \in P : m <= k
  <2>1. PICK m \in P : \A k \in P : ~(<<k, m>> \in OpToRel(<, Nat))
    BY <1>1, WFMin, NatLessThanWellFounded
  <2>2. \A k \in P : k \in Nat /\ m \in Nat /\ ~(k < m)
    BY <1>1, <2>1 DEF OpToRel
  <2>3. \A k \in P : m <= k
    BY <2>2
  <2>4. QED
    BY <2>3
<1>2. \E m \in S : \A k \in S : m <= k
  <2>1. S \subseteq Nat
    OBVIOUS
  <2>2. QED
    BY <1>1, <2>1
<1>3. \E m \in S : \A k \in S : k <= m
  <2> DEFINE T == {n - k : k \in S}
  <2>0. \A k \in S : k \in Nat /\ k <= n
    <3>1. \A k \in 1 .. n : k \in Nat /\ k <= n
      OBVIOUS
    <3>2. QED
      BY <3>1
  <2>1. T \subseteq Nat /\ T # {}
    <3>1. \A k \in S : n - k \in Nat
      BY <2>0
    <3>2. QED
      BY <3>1
  <2>2. PICK t \in T : \A k \in T : t <= k
    BY <1>1, <2>1
  <2>3. PICK m \in S : t = n - m
    BY <2>2
  <2>4. \A k \in S : n - m <= n - k
    BY <2>2, <2>3
  <2>5. \A k \in S : k <= m
    BY <2>0, <2>4
  <2>6. QED
    BY <2>5
<1>4. QED
  BY <1>2, <1>3

(* The frame that the innermost of the loops below i goes with i.           *)
LEMMA LoopBelow ==
  ASSUME NEW s, StackOf(s), NEW i \in 1 .. Len(s), Above(s, i) < Cardinality(LoopsOf(s))
  PROVE  \E j \in LoopsOf(s) : j <= i /\ Above(s, j) = Above(s, i)
<1> DEFINE S == {j \in LoopsOf(s) : j <= i}
<1>1. Len(s) \in Nat /\ LoopsOf(s) \subseteq 1 .. Len(s)
  BY LoopsFinite, WithoutTop DEF StackOf
<1>2. S # {}
  <2> SUFFICES ASSUME S = {} PROVE FALSE
    OBVIOUS
  <2>1. \A j \in LoopsOf(s) : j > i
    BY <1>1
  <2>2. {j \in LoopsOf(s) : j > i} = LoopsOf(s)
    BY <2>1
  <2>3. Above(s, i) = Cardinality(LoopsOf(s))
    BY <2>2 DEF Above
  <2>4. Cardinality(LoopsOf(s)) \in Nat
    BY LoopsFinite, FS_CardinalityType
  <2>5. QED
    BY <2>3, <2>4
<1>3. PICK m \in S : \A k \in S : k <= m
  BY <1>1, <1>2, LeastAndLargest
<1>4. {j \in LoopsOf(s) : j > m} = {j \in LoopsOf(s) : j > i}
  <2>1. \A j \in LoopsOf(s) : j > m <=> j > i
    BY <1>1, <1>3
  <2>2. QED
    BY <2>1
<1>5. Above(s, m) = Above(s, i)
  BY <1>4 DEF Above
<1>6. QED
  BY <1>3, <1>5

LEMMA OutermostIs ==
  ASSUME StackOf(stack), NEW S, S \subseteq LoopsOf(stack), NEW j \in S
  PROVE  Outermost(S) \in S /\ Outermost(S) <= j
<1>1. Len(stack) \in Nat /\ S \subseteq 1 .. Len(stack)
  BY LoopsFinite, WithoutTop DEF StackOf
<1>2. \E i \in S : \A k \in S : i <= k
  BY <1>1, LeastAndLargest
<1>3. Outermost(S) = CHOOSE i \in S : \A k \in S : i <= k
  BY DEF Outermost
<1>4. QED
  BY <1>2, <1>3

(* break n, continue n and SIGINT are not given where a test would feel them *)
(* (exitInTest), nor in the first round of a loop that they leave            *)
(* (earlyExit).                                                              *)
LEMMA JumpableFelt ==
  ASSUME Programs \cap {"earlyExit", "exitInTest"} = {}, LevelInv,
         NEW S, NEW T, T \subseteq LoopsOf(stack), Jumpable(S, Outermost(T)),
         NEW k \in Int, NEW n \in Int, n <= cur_loop_level,
         \A i \in LoopsOf(stack) : Above(stack, i) < k => i \in S,
         \A i \in LoopsOf(stack) : Above(stack, i) < n => i \in T
  PROVE  NotFirst(stack, k) /\ NoTest(stack, n)
<1>1. /\ StackOf(stack) /\ cur_loop_level = Cardinality(LoopsOf(stack)) /\ cur_loop_level \in Nat
      /\ Len(stack) \in Nat /\ DOMAIN stack = 1 .. Len(stack) /\ LoopsOf(stack) \subseteq 1 .. Len(stack)
  BY LevelIsNat, LoopsFinite, WithoutTop, LenProperties DEF LevelInv, LevelCounts, StackOf
<1>2. \A i \in S : ~FirstRound(i)
  BY DEF Jumpable
<1>3. \A i \in 1 .. Len(stack) : i >= Outermost(T) => stack[i].phase # "test"
  BY <1>1 DEF Jumpable
<1>4. NotFirst(stack, k)
  BY <1>2 DEF NotFirst, FirstRound
<1>5. NoTest(stack, n)
  <2> SUFFICES ASSUME NEW i \in 1 .. Len(stack), Above(stack, i) < n PROVE stack[i].phase # "test"
    BY DEF NoTest
  <2>0. i \in Int
    BY <1>1
  <2>1. i \in Int /\ Above(stack, i) \in Nat
    BY <1>1, <2>0, AboveIsNat
  <2>2. Above(stack, i) < Cardinality(LoopsOf(stack))
    BY <1>1, <2>1
  <2>3. PICK j \in LoopsOf(stack) : j <= i /\ Above(stack, j) = Above(stack, i)
    BY <1>1, <2>2, LoopBelow
  <2>4. j \in T
    BY <2>3
  <2>5. Outermost(T) \in T /\ Outermost(T) <= j
    BY <1>1, <2>4, OutermostIs
  <2>6. i >= Outermost(T)
    BY <1>1, <2>1, <2>3, <2>5
  <2>7. QED
    BY <1>3, <2>6
<1>6. QED
  BY <1>4, <1>5

LEMMA JumpFelt ==
  ASSUME Programs \cap {"earlyExit", "exitInTest", "overshoot"} = {}, LevelInv, cur_loop_level # 0,
         NEW k \in {"break", "continue"}, NEW n \in 1 .. MaxCount, MayJump(k, n)
  PROVE  NotFirst(stack, IF k = "break" THEN n ELSE n - 1) /\ NoTest(stack, n)
<1>1. /\ StackOf(stack) /\ n \in Int /\ cur_loop_level \in Nat
      /\ Len(stack) \in Nat /\ LoopsOf(stack) \subseteq 1 .. Len(stack)
  BY LevelIsNat, LoopsFinite, WithoutTop, EvaluatorAssumption DEF LevelInv, StackOf
<1>2. ASSUME NEW m \in Int, NEW i \in LoopsOf(stack), Above(stack, i) < m
      PROVE  i \in Innermost(m)
  <2> DEFINE a == {j \in LoopsOf(stack) : j > i}  b == {j \in LoopsOf(stack) : j >= i}
  <2>1. i \in Int /\ IsFiniteSet(a) /\ Cardinality(a) = Above(stack, i) /\ Cardinality(a) \in Nat
    <3>1. i \in Int
      BY <1>1
    <3>2. IsFiniteSet(a) /\ Above(stack, i) \in Nat
      BY <1>1, <3>1, AboveIsNat
    <3>3. Cardinality(a) = Above(stack, i)
      BY DEF Above
    <3>4. QED
      BY <3>1, <3>2, <3>3
  <2>2. i \notin a /\ b = a \cup {i}
    BY <1>1
  <2>3. Cardinality(b) = Cardinality(a) + 1
    BY <2>1, <2>2, FS_AddElement
  <2> HIDE DEF a, b
  <2>4. Cardinality(b) <= m
    BY <1>2, <2>1, <2>3
  <2>5. QED
    BY <2>4 DEF Innermost, b
<1>3. \A m : Innermost(m) \subseteq LoopsOf(stack)
  BY DEF Innermost
<1>4. n <= cur_loop_level
  BY DEF MayJump
<1>5. CASE k = "break"
  <2>1. Jumpable(Innermost(n), Outermost(Innermost(n)))
    BY <1>5 DEF MayJump
  <2>2. NotFirst(stack, n) /\ NoTest(stack, n)
    BY <1>1, <1>2, <1>3, <1>4, <2>1, JumpableFelt
  <2>3. QED
    BY <1>5, <2>2
<1>6. CASE k # "break"
  <2>1. Jumpable(Innermost(n - 1), Outermost(Innermost(n)))
    BY <1>6 DEF MayJump
  <2>2. n - 1 \in Int
    BY <1>1
  <2>3. NotFirst(stack, n - 1) /\ NoTest(stack, n)
    BY <1>1, <1>2, <1>3, <1>4, <2>1, <2>2, JumpableFelt
  <2>4. QED
    BY <1>6, <2>3
<1>7. QED
  BY <1>5, <1>6

LEMMA InterruptFelt ==
  ASSUME Programs \cap {"earlyExit", "exitInTest"} = {}, LevelInv,
         Jumpable(LoopsOf(stack), Outermost(LoopsOf(stack)))
  PROVE  NoTest(stack, cur_loop_level)
<1>1. cur_loop_level \in Int
  BY LevelIsNat
<1>2. QED
  BY <1>1, JumpableFelt

LEMMA ReturnFelt ==
  ASSUME "exitInTest" \notin Programs, StackOf(stack), MayReturn
  PROVE  Outside(stack)
<1>1. /\ Len(stack) \in Nat /\ Len(stack) >= 1 /\ DOMAIN stack = 1 .. Len(stack) /\ IsScope(stack[1])
  BY WithoutTop, LenProperties, NewFrames DEF StackOf, IsScope
<1> DEFINE S == {i \in 1 .. Len(stack) : IsScope(stack[i])}
<1>2. PICK m \in S : \A k \in S : k <= m
  <2>1. 1 \in S
    BY <1>1
  <2>2. QED
    BY <1>1, <2>1, LeastAndLargest
<1>3. \E i \in DOMAIN stack :
         /\ IsUnit(stack[i]) \/ stack[i].kind = "function"
         /\ \A j \in (i+1)..Len(stack) : ~IsUnit(stack[j]) /\ stack[j].kind # "function"
  <2>1. \A j \in (m+1)..Len(stack) : j \in 1 .. Len(stack) /\ ~(j <= m)
    BY <1>1, <1>2
  <2>2. \A j \in (m+1)..Len(stack) : ~IsScope(stack[j])
    BY <1>2, <2>1
  <2>3. QED
    BY <1>1, <1>2, <2>2 DEF IsScope
<1>4. Scope \in 1 .. Len(stack) /\ IsScope(stack[Scope])
  BY <1>1, <1>3 DEF Scope, IsScope
<1>5. \A i \in (Scope + 1)..Len(stack) : stack[i].phase # "test"
  BY DEF MayReturn
<1>6. SUFFICES ASSUME NEW i \in 1 .. Len(stack), \A j \in i .. Len(stack) : ~IsScope(stack[j])
               PROVE  stack[i].phase # "test"
  BY DEF Outside
<1>7. ~(Scope >= i)
  <2>1. Scope >= i => Scope \in i .. Len(stack)
    BY <1>4
  <2>2. QED
    BY <1>4, <1>6, <2>1
<1>8. i \in (Scope + 1)..Len(stack)
  BY <1>1, <1>4, <1>7
<1>9. QED
  BY <1>5, <1>8

-----------------------------------------------------------------------------
(* What is under way: how many loops feel it, and how many are left.        *)
Reach   == IF signal_received THEN cur_loop_level
           ELSE IF req_break # 0 THEN req_break ELSE req_continue
Leaving == IF req_break # 0 THEN req_break ELSE req_continue - 1

Within     == IF signal_received THEN req_break >= cur_loop_level /\ req_continue = 0
              ELSE req_break <= cur_loop_level /\ req_continue <= cur_loop_level
OneRequest == req_break = 0 \/ req_continue = 0
Travels    == ~signal_received /\ (req_break # 0 \/ req_continue # 0) =>
                 result = 1 /\ ~return_set /\ pc # "run"
Quiet      == pc = "run" =>
                 ~return_set /\ (signal_received => cur_loop_level = 0 \/ Top.kind = "command")
Fresh      == signal_received /\ (\E i \in 2 .. Len(stack) : IsUnit(stack[i])) => req_break = 0
Returns    == return_set => Outside(stack)
Untested   == NoTest(stack, Reach)
Later      == ~signal_received => NotFirst(stack, Leaving)
Jumps      == Top.kind \in {"break", "continue"} /\ cur_loop_level # 0 =>
                 /\ NoTest(Popped, Top.n)
                 /\ NotFirst(Popped, IF Top.kind = "break" THEN Top.n ELSE Top.n - 1)
ReturnsTo  == Top.kind = "return" => Outside(Popped)

PendInv == /\ Within /\ OneRequest /\ Travels /\ Quiet /\ Fresh /\ Returns
           /\ Untested /\ Later /\ Jumps /\ ReturnsTo

LEMMA Basics ==
  ASSUME TypeInv
  PROVE  /\ StackOf(stack) /\ LevelInv
         /\ Len(stack) \in Nat /\ Len(stack) >= 1
         /\ Len(stack) >= 2 \/ (Len(stack) = 1 /\ Top = Unit)
         /\ Top \in Frames /\ Top.n \in Nat /\ Top.res \in {0, 1}
         /\ cur_loop_level \in Nat /\ req_break \in Nat /\ req_continue \in Nat
         /\ result \in {0, 1} /\ return_set \in BOOLEAN /\ signal_received \in BOOLEAN
         /\ cur_loop_level = 0 => Top.kind \notin LoopKinds
         /\ IsUnit(Top) => cur_loop_level = 0
<1>1. /\ LevelInv /\ StackOf(stack) /\ cur_loop_level \in Nat
      /\ cur_loop_level = 0 <=> LoopsOf(stack) = {}
      /\ Len(stack) \in Nat /\ Len(stack) >= 1 /\ Top \in Frames
      /\ Len(stack) >= 2 \/ (Len(stack) = 1 /\ Top = Unit)
  BY LevelIsNat, TopFrame DEF TypeInv, LevelInv
<1>2. DOMAIN stack = 1 .. Len(stack) /\ Len(stack) \in 1 .. Len(stack)
  BY <1>1, LenProperties DEF StackOf
<1>3. Top.n \in Nat /\ Top.res \in {0, 1}
  BY <1>1, NewFrames, EvaluatorAssumption
<1>4. req_break \in Nat /\ req_continue \in Nat
  BY EvaluatorAssumption DEF TypeInv
<1>5. cur_loop_level = 0 => Top.kind \notin LoopKinds
  BY <1>1, <1>2 DEF LoopsOf, Top
<1>6. IsUnit(Top) => LoopsOf(stack) = {}
  <2> SUFFICES ASSUME IsUnit(Top), NEW j \in LoopsOf(stack) PROVE FALSE
    OBVIOUS
  <2>1. j \in 1 .. Len(stack) /\ stack[j].kind \in LoopKinds
    BY <1>2 DEF LoopsOf
  <2>2. j # Len(stack)
    BY <2>1, KindFacts DEF Top
  <2>3. j \in 1 .. Len(stack) - 1
    BY <1>1, <2>1, <2>2
  <2>4. IsUnit(stack[Len(stack)])
    BY DEF Top
  <2>5. \A i \in 1 .. Len(stack) : IsUnit(stack[i]) => \A k \in 1 .. i-1 : stack[k].kind \notin LoopKinds
    BY <1>1 DEF StackOf
  <2>6. QED
    BY <1>2, <2>1, <2>3, <2>4, <2>5
<1>7. QED
  BY <1>1, <1>3, <1>4, <1>5, <1>6 DEF TypeInv

(* Nothing is under way: then nothing is wrong.                             *)
LEMMA Calm ==
  ASSUME TypeInv, TypeInv', (stack' = Popped /\ Len(stack) >= 2) \/ stack' = stack \/ ~IsCommand(Top'),
         ~IsCommand(Top) \/ stack' # stack,
         req_break' = 0, req_continue' = 0, ~signal_received', ~return_set'
  PROVE  PendInv'
<1>1. cur_loop_level' \in Nat /\ StackOf(stack')
  BY LevelBound DEF TypeInv, LevelInv, LevelCounts
<1>2. ~IsCommand(Top')
  <2>1. CASE stack' = Popped /\ Len(stack) >= 2
    BY <2>1, Basics, TopAfter
  <2>2. CASE stack' = stack
    BY <2>2 DEF Top
  <2>3. QED
    BY <2>1, <2>2
<1>3. Top'.kind \notin {"break", "continue", "return"}
  BY <1>2, KindFacts
<1>4. NoTest(stack', 0) /\ NotFirst(stack', 0 - 1)
  BY <1>1, NothingFelt
<1>5. Within' /\ OneRequest'
  BY <1>1 DEF Within, OneRequest
<1>6. Travels' /\ Quiet' /\ Fresh' /\ Returns'
  BY DEF Travels, Quiet, Fresh, Returns
<1>7. Untested' /\ Later'
  BY <1>4 DEF Untested, Later, Reach, Leaving
<1>8. Jumps' /\ ReturnsTo'
  BY <1>3 DEF Jumps, ReturnsTo
<1>9. QED
  BY <1>5, <1>6, <1>7, <1>8 DEF PendInv

(* A function that is no loop returns: what is under way goes on.           *)
LEMMA GoesOn ==
  ASSUME TypeInv, TypeInv', PendInv, Len(stack) >= 2, stack' = Popped, pc' = "ran",
         Top.kind \notin LoopKinds,
         UNCHANGED <<cur_loop_level, req_break, req_continue, signal_received>>,
         ~return_set' \/ (UNCHANGED return_set /\ ~IsScope(Top)),
         ~signal_received /\ (req_break # 0 \/ req_continue # 0) => result' = 1
  PROVE  PendInv'
<1>1. /\ StackOf(stack) /\ cur_loop_level \in Nat /\ req_break \in Nat /\ req_continue \in Nat
      /\ signal_received \in BOOLEAN /\ return_set \in BOOLEAN
  BY Basics
<1>2. Top'.kind \notin {"break", "continue", "return"}
  BY <1>1, TopAfter, KindFacts
<1>3. /\ \A k \in Int : NoTest(stack, k) => NoTest(stack', k)
      /\ \A k \in Int : NotFirst(stack, k) => NotFirst(stack', k)
      /\ ~IsScope(Top) /\ Outside(stack) => Outside(stack')
      /\ (\E i \in 2 .. Len(stack') : IsUnit(stack'[i])) => (\E i \in 2 .. Len(stack) : IsUnit(stack[i]))
  <2>1. InLoops(Top.kind) = 0 /\ \A k \in Int : k - 0 = k
    BY DEF InLoops
  <2>2. QED
    BY <1>1, <2>1, FeltBelow DEF Top, Popped
<1>4. Reach \in Int /\ Leaving \in Int /\ Reach' = Reach /\ Leaving' = Leaving
  BY <1>1 DEF Reach, Leaving
<1>5. Within' /\ OneRequest'
  BY DEF Within, OneRequest, PendInv
<1>6. Travels' /\ Quiet'
  BY DEF Travels, Quiet, PendInv
<1>7. Fresh' /\ Returns'
  BY <1>3 DEF Fresh, Returns, PendInv
<1>8. Untested' /\ Later'
  BY <1>3, <1>4 DEF Untested, Later, PendInv
<1>9. Jumps' /\ ReturnsTo'
  BY <1>2 DEF Jumps, ReturnsTo
<1>10. QED
  BY <1>5, <1>6, <1>7, <1>8, <1>9 DEF PendInv

(* A loop is left by break, continue, return, a failure or SIGINT: fewer    *)
(* loops are to be left then.                                               *)
LEMMA LeavesLoop ==
  ASSUME TypeInv, TypeInv', PendInv, Len(stack) >= 2, stack' = Popped, pc' = "ran",
         Top.kind \in LoopKinds, cur_loop_level' = cur_loop_level - 1,
         UNCHANGED <<return_set, signal_received>>,
         req_break' \in Nat, req_continue' \in Nat,
         IF signal_received THEN UNCHANGED <<req_break, req_continue>>
         ELSE \/ req_break = 0 /\ req_break' = 0 /\ req_continue' = 0
              \/ req_break # 0 /\ req_break' = req_break - 1 /\ UNCHANGED req_continue
              \/ req_break = 0 /\ UNCHANGED req_break /\ req_continue > 1 /\ req_continue' = req_continue - 1,
         ~signal_received /\ (req_break' # 0 \/ req_continue' # 0) => result' = 1
  PROVE  PendInv'
<1>1. /\ StackOf(stack) /\ StackOf(stack')
      /\ cur_loop_level \in Nat /\ req_break \in Nat /\ req_continue \in Nat
      /\ cur_loop_level' \in Nat /\ cur_loop_level >= 1
      /\ signal_received \in BOOLEAN /\ return_set \in BOOLEAN
  <2>1. cur_loop_level' \in Nat /\ StackOf(stack')
    BY LevelBound DEF TypeInv, LevelInv, LevelCounts
  <2>2. QED
    BY <2>1, Basics
<1>2. Top'.kind \notin {"break", "continue", "return"}
  BY <1>1, TopAfter, KindFacts
<1>3. ~IsScope(Top)
  BY KindFacts DEF IsScope, LoopKinds
<1>4. /\ \A k \in Int : NoTest(stack, k) => NoTest(stack', k - 1)
      /\ \A k \in Int : NotFirst(stack, k) => NotFirst(stack', k - 1)
      /\ Outside(stack) => Outside(stack')
      /\ (\E i \in 2 .. Len(stack') : IsUnit(stack'[i])) => (\E i \in 2 .. Len(stack) : IsUnit(stack[i]))
  <2>1. InLoops(Top.kind) = 1
    BY DEF InLoops
  <2>2. QED
    BY <1>1, <1>3, <2>1, FeltBelow DEF Top, Popped
<1>5. Within /\ OneRequest /\ Travels
  BY DEF PendInv
<1>6. Within' /\ OneRequest'
  BY <1>1, <1>5 DEF Within, OneRequest
<1>7. Travels'
  BY <1>5 DEF Travels
<1>8. Quiet' /\ Fresh' /\ Returns'
  <2>1. Fresh'
    <3>1. signal_received => UNCHANGED req_break
      OBVIOUS
    <3>2. QED
      BY <1>4, <3>1 DEF Fresh, PendInv
  <2>2. Quiet' /\ Returns'
    BY <1>4 DEF Quiet, Returns, PendInv
  <2>3. QED
    BY <2>1, <2>2
<1>9. Untested'
  <2>1. Reach \in Int /\ Reach' \in Int /\ (Reach' = Reach - 1 \/ Reach' <= 0)
    BY <1>1, <1>5 DEF Reach, OneRequest
  <2>2. NoTest(stack, Reach)
    BY DEF PendInv, Untested
  <2>3. NoTest(stack', Reach - 1)
    BY <1>4, <2>1, <2>2
  <2>4. Reach' <= 0 => NoTest(stack', Reach')
    BY <1>1, <2>1, NothingFelt
  <2>5. QED
    BY <2>1, <2>3, <2>4 DEF Untested
<1>10. Later'
  <2> SUFFICES ASSUME ~signal_received PROVE NotFirst(stack', Leaving')
    BY DEF Later
  <2>1. Leaving \in Int /\ Leaving' \in Int /\ (Leaving' = Leaving - 1 \/ Leaving' <= 0)
    <3>1. CASE req_break = 0 /\ req_break' = 0 /\ req_continue' = 0
      BY <1>1, <3>1 DEF Leaving
    <3>2. CASE req_break # 0 /\ req_break' = req_break - 1 /\ UNCHANGED req_continue
      BY <1>1, <1>5, <3>2 DEF Leaving, OneRequest
    <3>3. CASE req_break = 0 /\ UNCHANGED req_break /\ req_continue > 1 /\ req_continue' = req_continue - 1
      BY <1>1, <3>3 DEF Leaving
    <3>4. QED
      BY <3>1, <3>2, <3>3
  <2>2. NotFirst(stack, Leaving)
    BY DEF PendInv, Later
  <2>3. NotFirst(stack', Leaving - 1)
    BY <1>4, <2>1, <2>2
  <2>4. Leaving' <= 0 => NotFirst(stack', Leaving')
    BY <1>1, <2>1, NothingFelt
  <2>5. QED
    BY <2>1, <2>3, <2>4
<1>11. Jumps' /\ ReturnsTo'
  BY <1>2 DEF Jumps, ReturnsTo
<1>12. QED
  BY <1>6, <1>7, <1>8, <1>9, <1>10, <1>11 DEF PendInv

(* A function is called, or a command is run.                               *)
LEMMA PendPushed ==
  ASSUME Programs \subseteq {"returnInEval"}, TypeInv, TypeInv', PendInv, Pushed
  PROVE  PendInv'
<1>1. /\ StackOf(stack) /\ StackOf(stack') /\ LevelInv
      /\ cur_loop_level \in Nat /\ req_break \in Nat /\ req_continue \in Nat
      /\ cur_loop_level' \in Nat
      /\ signal_received \in BOOLEAN /\ return_set \in BOOLEAN
  <2>1. cur_loop_level' \in Nat /\ StackOf(stack')
    BY LevelBound DEF TypeInv, LevelInv, LevelCounts
  <2>2. QED
    BY <2>1, Basics
<1>2. PICK f \in Frames :
        /\ stack' = Append(stack, f) /\ ~IsCommand(Top)
        /\ cur_loop_level' = cur_loop_level + InLoops(f.kind) /\ Needs(f)
  BY DEF Pushed
<1>3. Top' = f /\ Popped' = stack
  BY <1>1, <1>2, TopAfter
<1>4. /\ pc = "run" /\ UNCHANGED <<pc, result, return_set, signal_received>> /\ ~return_set
      /\ f.kind \in LoopKinds => ~signal_received
      /\ signal_received => cur_loop_level = 0
      /\ IF IsUnit(f) THEN req_break' = 0 /\ req_continue' = 0
                      ELSE UNCHANGED <<req_break, req_continue>>
  BY <1>2, KindFacts DEF Needs, PendInv, Quiet, flags
<1>5. signal_received => cur_loop_level' = 0 /\ req_continue = 0
  BY <1>2, <1>4 DEF InLoops, PendInv, Within
<1>6. ~signal_received => req_break = 0 /\ req_continue = 0 /\ req_break' = 0 /\ req_continue' = 0
  BY <1>4 DEF PendInv, Travels
<1>7. Within' /\ OneRequest' /\ Travels' /\ Quiet' /\ Returns'
  <2>1. req_break' \in Nat /\ (signal_received => req_continue' = 0)
    BY <1>1, <1>4, <1>5
  <2>2. Within'
    BY <1>1, <1>4, <1>5, <1>6, <2>1 DEF Within
  <2>3. OneRequest' /\ Travels'
    BY <1>1, <1>4, <1>6, <2>1 DEF OneRequest, Travels
  <2>4. Quiet' /\ Returns'
    BY <1>4, <1>5 DEF Quiet, Returns
  <2>5. QED
    BY <2>2, <2>3, <2>4
<1>8. Fresh'
  <2> SUFFICES ASSUME signal_received, NEW i \in 2 .. Len(stack'), IsUnit(stack'[i]), ~IsUnit(f)
               PROVE  req_break = 0
    BY <1>4 DEF Fresh
  <2>1. /\ Len(stack) \in Nat /\ Len(stack') = Len(stack) + 1
        /\ \A j \in 1 .. Len(stack) : stack'[j] = stack[j]
        /\ stack'[Len(stack) + 1] = f
    BY <1>1, <1>2, WithFrame DEF StackOf
  <2>2. i # Len(stack) + 1
    BY <2>1
  <2>3. i \in 2 .. Len(stack) /\ stack'[i] = stack[i]
    BY <2>1, <2>2
  <2>4. QED
    BY <2>3 DEF PendInv, Fresh
<1>9. Untested' /\ Later'
  <2>1. Reach' = 0
    BY <1>4, <1>5, <1>6 DEF Reach
  <2>2. ~signal_received' => Leaving' = -1
    BY <1>4, <1>6 DEF Leaving
  <2>3. NoTest(stack', 0) /\ NotFirst(stack', -1)
    BY <1>1, NothingFelt
  <2>4. QED
    BY <2>1, <2>2, <2>3 DEF Untested, Later
<1>10. Jumps'
  <2> SUFFICES ASSUME f.kind \in {"break", "continue"}, cur_loop_level' # 0
               PROVE  NoTest(stack, f.n) /\ NotFirst(stack, IF f.kind = "break" THEN f.n ELSE f.n - 1)
    BY <1>3 DEF Jumps
  <2>1. cur_loop_level # 0
    <3>1. InLoops(f.kind) = 0
      BY DEF InLoops, LoopKinds
    <3>2. QED
      BY <1>1, <1>2, <3>1
  <2>2. f.n \in 1 .. MaxCount /\ MayJump(f.kind, f.n)
    BY <1>2 DEF Needs
  <2>3. Programs \cap {"earlyExit", "exitInTest", "overshoot"} = {}
    OBVIOUS
  <2>4. QED
    BY <1>1, <2>1, <2>2, <2>3, JumpFelt
<1>11. ReturnsTo'
  <2> SUFFICES ASSUME f.kind = "return" PROVE Outside(stack)
    BY <1>3 DEF ReturnsTo
  <2>1. MayReturn
    BY <1>2 DEF Needs
  <2>2. QED
    BY <1>1, <2>1, ReturnFelt
<1>12. QED
  BY <1>7, <1>8, <1>9, <1>10, <1>11 DEF PendInv

LEMMA PendStep ==
  ASSUME Programs \subseteq {"returnInEval"}, TypeInv, PendInv, [Next]_vars
  PROVE  PendInv'
<1>1. /\ TypeInv'
      /\ Programs \cap {"evalInLoop", "overshoot"} = {} /\ "evalInLoop" \notin Programs
  <2>1. Programs \cap {"evalInLoop", "overshoot"} = {}
    OBVIOUS
  <2>2. QED
    BY <2>1, TypeStep
<1>2. /\ StackOf(stack) /\ StackOf(stack') /\ LevelInv
      /\ Len(stack) \in Nat /\ Len(stack) >= 1
      /\ Len(stack) >= 2 \/ (Len(stack) = 1 /\ Top = Unit)
      /\ Top \in Frames /\ Top.n \in Nat /\ Top.res \in {0, 1}
      /\ cur_loop_level \in Nat /\ req_break \in Nat /\ req_continue \in Nat
      /\ cur_loop_level' \in Nat
      /\ result \in {0, 1} /\ signal_received \in BOOLEAN /\ return_set \in BOOLEAN
      /\ cur_loop_level = 0 => Top.kind \notin LoopKinds
      /\ IsUnit(Top) => cur_loop_level = 0
  <2>1. cur_loop_level' \in Nat /\ StackOf(stack')
    BY <1>1, LevelBound DEF TypeInv, LevelInv, LevelCounts
  <2>2. QED
    BY <2>1, Basics
<1>3. /\ Within /\ OneRequest /\ Travels /\ Quiet /\ Fresh /\ Returns
      /\ Untested /\ Later /\ Jumps /\ ReturnsTo
  BY DEF PendInv
<1>4. Reach \in Nat /\ Leaving \in Int
  BY <1>2 DEF Reach, Leaving
<1>5. ~IsUnit(Top) => Len(stack) >= 2
  BY <1>2, NewFrames
\* A command is over.
<1>6. ASSUME Top.kind \in {"command", "break", "continue", "return"}
      PROVE  /\ IsCommand(Top) /\ ~IsUnit(Top) /\ Top.kind \notin LoopKinds /\ ~IsScope(Top) /\ Len(stack) >= 2
             /\ pc = "run" => ~return_set /\ (~signal_received => req_break = 0 /\ req_continue = 0)
             /\ pc = "run" /\ Top.kind # "command" /\ cur_loop_level # 0 => ~signal_received
             /\ stack' = Popped => Top'.kind \notin {"break", "continue", "return"}
  <2>1. IsCommand(Top) /\ ~IsUnit(Top) /\ Top.kind \notin LoopKinds /\ ~IsScope(Top) /\ Len(stack) >= 2
    BY <1>5, <1>6, KindFacts DEF IsScope
  <2>2. pc = "run" => ~return_set /\ (~signal_received => req_break = 0 /\ req_continue = 0)
    BY <1>3 DEF Quiet, Travels
  <2>3. pc = "run" /\ Top.kind # "command" /\ cur_loop_level # 0 => ~signal_received
    BY <1>3 DEF Quiet
  <2>4. stack' = Popped => Top'.kind \notin {"break", "continue", "return"}
    BY <1>2, <2>1, TopAfter, KindFacts
  <2>5. QED
    BY <2>1, <2>2, <2>3, <2>4
<1>7. CASE Run \/ CannotRun \/ OutsideLoop
  <2>1. /\ Top.kind \in {"command", "break", "continue", "return"} /\ pc = "run"
        /\ stack' = Popped /\ pc' = "ran"
        /\ UNCHANGED <<cur_loop_level, req_break, req_continue, signal_received, return_set>>
    BY <1>7 DEF Run, CannotRun, OutsideLoop, CommandDone, counters, flags
  <2>2. QED
    BY <1>1, <1>6, <2>1, GoesOn
<1>8. CASE Break \/ Continue
  <2>1. /\ Top.kind \in {"break", "continue"} /\ pc = "run" /\ cur_loop_level # 0
        /\ stack' = Popped /\ pc' = "ran" /\ result' = 1
        /\ UNCHANGED <<cur_loop_level, signal_received, return_set>>
        /\ IF Top.kind = "break" THEN req_break' = Top.n /\ UNCHANGED req_continue
                                 ELSE req_continue' = Top.n /\ UNCHANGED req_break
    BY <1>8 DEF Break, Continue, CommandDone, flags
  <2>2. Top.kind \in {"command", "break", "continue", "return"} /\ Top.kind # "command"
    BY <2>1
  <2>3. ~signal_received /\ ~return_set /\ req_break = 0 /\ req_continue = 0
        /\ Top'.kind \notin {"break", "continue", "return"}
    BY <1>6, <2>1, <2>2
  <2>4. Top.n \in 1 .. cur_loop_level
    BY <2>1 DEF TypeInv
  <2>5. NoTest(Popped, Top.n) /\ NotFirst(Popped, IF Top.kind = "break" THEN Top.n ELSE Top.n - 1)
    BY <1>3, <2>1 DEF Jumps
  <2>6. Reach' = Top.n /\ Leaving' = IF Top.kind = "break" THEN Top.n ELSE Top.n - 1
    BY <1>2, <2>1, <2>3, <2>4 DEF Reach, Leaving
  <2>7. Untested' /\ Later'
    BY <2>1, <2>5, <2>6 DEF Untested, Later
  <2>8. Within' /\ OneRequest'
    BY <1>2, <2>1, <2>3, <2>4 DEF Within, OneRequest
  <2>9. Travels' /\ Quiet' /\ Fresh' /\ Returns' /\ Jumps' /\ ReturnsTo'
    BY <2>1, <2>3 DEF Travels, Quiet, Fresh, Returns, Jumps, ReturnsTo
  <2>10. QED
    BY <2>7, <2>8, <2>9 DEF PendInv
<1>9. CASE Return
  <2>1. /\ Top.kind = "return" /\ pc = "run"
        /\ stack' = Popped /\ pc' = "ran" /\ return_set' = TRUE
        /\ UNCHANGED <<cur_loop_level, signal_received, req_break, req_continue>>
    BY <1>9 DEF Return, CommandDone, counters
  <2>2. /\ ~signal_received => req_break = 0 /\ req_continue = 0
        /\ Top'.kind \notin {"break", "continue", "return"} /\ Len(stack) >= 2
        /\ Top.kind \notin LoopKinds
    BY <1>6, <2>1
  <2>3. Outside(Popped)
    BY <1>3, <2>1 DEF ReturnsTo
  <2>4. Reach' = Reach /\ Leaving' = Leaving /\ Reach \in Int
    BY <1>4, <2>1 DEF Reach, Leaving
  <2>5. NoTest(stack', Reach) /\ (~signal_received => NotFirst(stack', Leaving))
    <3>1. InLoops(Top.kind) = 0 /\ \A k \in Int : k - 0 = k
      BY <2>2 DEF InLoops
    <3>2. /\ \A k \in Int : NoTest(stack, k) => NoTest(stack', k)
          /\ \A k \in Int : NotFirst(stack, k) => NotFirst(stack', k)
      BY <1>2, <2>1, <2>2, <3>1, FeltBelow DEF Top, Popped
    <3>3. QED
      BY <1>3, <1>4, <2>4, <3>2 DEF Untested, Later
  <2>6. Fresh'
    <3>1. (\E i \in 2 .. Len(stack') : IsUnit(stack'[i])) => (\E i \in 2 .. Len(stack) : IsUnit(stack[i]))
      BY <1>2, <2>1, <2>2, FeltBelow DEF Popped
    <3>2. QED
      BY <1>3, <2>1, <3>1 DEF Fresh
  <2>7. Untested' /\ Later'
    BY <2>1, <2>4, <2>5 DEF Untested, Later
  <2>8. Within' /\ OneRequest' /\ Travels'
    BY <1>3, <2>1, <2>2 DEF Within, OneRequest, Travels
  <2>9. Quiet' /\ Returns' /\ Jumps' /\ ReturnsTo'
    BY <2>1, <2>2, <2>3 DEF Quiet, Returns, Jumps, ReturnsTo
  <2>10. QED
    BY <2>6, <2>7, <2>8, <2>9 DEF PendInv
<1>10. CASE Interrupt
  <2>1. /\ pc = "run" /\ Top.kind = "command" /\ ~signal_received
        /\ Jumpable(LoopsOf(stack), Outermost(LoopsOf(stack)))
        /\ \A i \in 2..Len(stack) : ~IsUnit(stack[i])
        /\ signal_received' = TRUE /\ req_break' = cur_loop_level
        /\ UNCHANGED <<stack, pc, result, cur_loop_level, req_continue, return_set>>
    BY <1>10 DEF Interrupt
  <2>2. ~return_set /\ req_continue = 0
    BY <1>6, <2>1
  <2>3. NoTest(stack, cur_loop_level)
    <3>1. Programs \cap {"earlyExit", "exitInTest"} = {}
      OBVIOUS
    <3>2. QED
      BY <1>2, <2>1, <3>1, InterruptFelt
  <2>4. Reach' = cur_loop_level /\ stack' = stack
    BY <2>1 DEF Reach
  <2>5. Untested' /\ Later'
    BY <2>1, <2>3, <2>4 DEF Untested, Later
  <2>6. Within' /\ OneRequest' /\ Travels' /\ Fresh'
    BY <1>2, <2>1, <2>2 DEF Within, OneRequest, Travels, Fresh
  <2>7. Top' = Top
    BY <2>1 DEF Top
  <2>8. Quiet' /\ Returns' /\ Jumps' /\ ReturnsTo'
    BY <2>1, <2>2, <2>7 DEF Quiet, Returns, Jumps, ReturnsTo
  <2>9. QED
    BY <2>5, <2>6, <2>8 DEF PendInv
\* The list goes on or ends, or another item's list follows.
<1>11. ASSUME UNCHANGED <<stack, result, counters, flags>>,
              pc' = "run" => ~return_set /\ ~Requested
       PROVE  PendInv'
  <2>1. UNCHANGED <<stack, result, cur_loop_level, req_break, req_continue, return_set, signal_received>>
    BY <1>11 DEF counters, flags
  <2>2. Top' = Top /\ Popped' = Popped /\ Reach' = Reach /\ Leaving' = Leaving
    BY <2>1 DEF Top, Popped, Reach, Leaving
  <2>3. Within' /\ OneRequest' /\ Fresh' /\ Returns' /\ Untested' /\ Later' /\ Jumps' /\ ReturnsTo'
    BY <1>3, <2>1, <2>2 DEF Within, OneRequest, Fresh, Returns, Untested, Later, Jumps, ReturnsTo
  <2>4. Travels'
    <3> SUFFICES ASSUME ~signal_received, req_break # 0 \/ req_continue # 0
                 PROVE  result = 1 /\ ~return_set /\ pc' # "run"
      BY <2>1 DEF Travels
    <3>1. cur_loop_level # 0
      BY <1>2, <1>3 DEF Within
    <3>2. QED
      BY <1>3, <1>11, <3>1 DEF Travels, Requested
  <2>5. Quiet'
    <3> SUFFICES ASSUME pc' = "run", signal_received PROVE cur_loop_level = 0
      BY <1>11, <2>1 DEF Quiet
    <3>1. cur_loop_level = 0 \/ req_break = 0
      BY <1>11 DEF Requested
    <3>2. QED
      BY <1>2, <1>3, <3>1 DEF Within
  <2>6. QED
    BY <2>3, <2>4, <2>5 DEF PendInv
<1>12. CASE NextCommand \/ ListEnds \/ FallThrough
  <2>1. UNCHANGED <<stack, result, counters, flags>>
    BY <1>12 DEF NextCommand, ListEnds, FallThrough
  <2>2. pc' = "run" => ~return_set /\ ~Requested
    BY <1>12 DEF NextCommand, ListEnds, ListStops, FallThrough
  <2>3. QED
    BY <1>11, <2>1, <2>2
<1>13. CASE NextLine
  <2>1. UNCHANGED <<stack, result, counters, flags>> /\ IsUnit(Top) /\ ~return_set
    BY <1>13 DEF NextLine
  <2>2. ~Requested
    BY <1>2, <2>1 DEF Requested
  <2>3. QED
    BY <1>11, <2>1, <2>2
<1>14. CASE UNCHANGED vars
  <2>1. UNCHANGED <<stack, pc, result, cur_loop_level, req_break, req_continue, return_set, signal_received>>
    BY <1>14 DEF vars, counters, flags
  <2>2. Top' = Top /\ Popped' = Popped /\ Reach' = Reach /\ Leaving' = Leaving
    BY <2>1 DEF Top, Popped, Reach, Leaving
  <2>3. QED
    BY <1>3, <2>1, <2>2 DEF PendInv, Within, OneRequest, Travels, Quiet, Fresh, Returns, Untested, Later, Jumps, ReturnsTo
\* A compound command that is no loop is over.
<1>15. CASE LeaveGroup \/ LeaveCase
  <2>1. /\ Top.kind \in {"group", "list", "case"} /\ stack' = Popped /\ pc' = "ran"
        /\ result' = 1 \/ UNCHANGED result
        /\ UNCHANGED <<cur_loop_level, req_break, req_continue, signal_received, return_set>>
    BY <1>15 DEF LeaveGroup, LeaveCase, Leave, counters, flags
  <2>2. Top.kind \notin LoopKinds /\ ~IsUnit(Top) /\ ~IsScope(Top)
    BY <2>1, KindFacts DEF LoopKinds, IsScope
  <2>3. ~signal_received /\ (req_break # 0 \/ req_continue # 0) => result' = 1
    BY <1>3, <2>1 DEF Travels
  <2>4. QED
    BY <1>1, <1>5, <2>1, <2>2, <2>3, GoesOn
<1>16. CASE LeaveFunction
  <2>1. /\ Top.kind = "function" /\ stack' = Popped /\ pc' = "ran" /\ result' = 1 /\ ~return_set'
        /\ UNCHANGED <<cur_loop_level, req_break, req_continue, signal_received>>
    BY <1>16 DEF LeaveFunction, Leave, counters
  <2>2. Top.kind \notin LoopKinds /\ ~IsUnit(Top)
    BY <2>1, KindFacts DEF LoopKinds
  <2>3. QED
    BY <1>1, <1>5, <2>1, <2>2, GoesOn
\* A test is not left by what is under way.
<1>17. ASSUME Top.phase = "test", ~IsUnit(Top), Top.kind # "function"
       PROVE  /\ ~return_set
              /\ cur_loop_level # 0 => ~signal_received
              /\ ~signal_received => req_break = 0 /\ req_continue = 0
  <2>1. ~return_set
    BY <1>2, <1>3, <1>17, ScopeFelt DEF Returns, IsScope, Top
  <2>2. ~(Reach >= 1)
    BY <1>2, <1>3, <1>4, <1>17, FeltByTop DEF Untested, Top
  <2>3. Reach = 0
    BY <1>4, <2>2
  <2>4. QED
    BY <2>1, <2>3 DEF Reach
<1>18. CASE If
  <2>1. /\ Top.kind = "if" /\ pc = "left"
        /\ UNCHANGED <<cur_loop_level, req_break, req_continue, signal_received, return_set>>
    BY <1>18 DEF If, counters, flags
  <2>2. Top.kind \notin LoopKinds /\ ~IsUnit(Top) /\ ~IsScope(Top) /\ ~IsCommand(Top)
    BY <2>1, KindFacts DEF LoopKinds, IsScope
  <2>3. CASE stack' = Popped /\ pc' = "ran"
    <3>1. ~signal_received /\ (req_break # 0 \/ req_continue # 0) => result' = 1
      <4>1. result' = 1 \/ UNCHANGED result
        BY <1>18 DEF If, Leave
      <4>2. QED
        BY <1>3, <4>1 DEF Travels
    <3>2. QED
      BY <1>1, <1>5, <2>1, <2>2, <2>3, <3>1, GoesOn
  <2>4. CASE ~(stack' = Popped /\ pc' = "ran")
    <3>1. /\ Top.phase = "test" /\ pc' = "run" /\ UNCHANGED result
          /\ stack' = WithTop([Top EXCEPT !.phase = IF TestSays THEN "then" ELSE "else"])
      BY <1>18, <2>4 DEF If, Leave
    <3>2. [Top EXCEPT !.phase = IF TestSays THEN "then" ELSE "else"] \in Frames
      BY <1>2 DEF Frames
    <3>3. Top'.kind = "if"
      BY <1>2, <2>1, <3>1, <3>2, TopAfter DEF Frames
    <3>4. ~return_set /\ (cur_loop_level # 0 => ~signal_received) /\ (~signal_received => req_break = 0 /\ req_continue = 0)
      BY <1>17, <2>1, <2>2, <3>1
    <3>5. Within' /\ OneRequest' /\ Travels' /\ Quiet' /\ Returns' /\ Jumps' /\ ReturnsTo'
      BY <1>3, <2>1, <3>1, <3>3, <3>4 DEF Within, OneRequest, Travels, Quiet, Returns, Jumps, ReturnsTo
    <3>6. Untested' /\ Later'
      <4>1. Reach' = 0 /\ (~signal_received' => Leaving' = -1)
        BY <2>1, <3>4 DEF Reach, Leaving
      <4>2. NoTest(stack', 0) /\ NotFirst(stack', -1)
        BY <1>2, NothingFelt
      <4>3. QED
        BY <4>1, <4>2 DEF Untested, Later
    <3>7. Fresh'
      <4> SUFFICES ASSUME signal_received, NEW i \in 2 .. Len(stack'), IsUnit(stack'[i]) PROVE req_break = 0
        BY <2>1 DEF Fresh
      <4>1. /\ Len(stack') = Len(stack)
            /\ \A j \in 1 .. Len(stack) - 1 : stack'[j] = stack[j]
        BY <1>2, <3>1, <3>2, WithOther DEF WithTop, Popped, StackOf
      <4>2. stack'[Len(stack')].kind = "if"
        BY <3>3 DEF Top
      <4>3. i # Len(stack)
        BY <4>1, <4>2 DEF IsUnit
      <4>4. i \in 1 .. Len(stack) - 1 /\ i \in 2 .. Len(stack)
        BY <1>2, <4>1, <4>3
      <4>5. IsUnit(stack[i])
        BY <4>1, <4>4
      <4>6. QED
        BY <1>3, <4>4, <4>5 DEF Fresh
    <3>8. QED
      BY <3>5, <3>6, <3>7 DEF PendInv
  <2>5. QED
    BY <2>3, <2>4
\* Loops.
<1>19. ASSUME Top.kind \in LoopKinds
       PROVE  /\ cur_loop_level # 0 /\ cur_loop_level - 1 \in Nat /\ Len(stack) >= 2
              /\ ~IsUnit(Top) /\ ~IsCommand(Top) /\ Top.kind # "function"
  BY <1>2, <1>5, <1>19, KindFacts DEF LoopKinds
\* The next round starts.
<1>20. ASSUME Top.kind \in LoopKinds, NEW f \in Frames, f.kind = Top.kind, stack' = WithTop(f),
              req_break' = 0, req_continue' = 0, ~signal_received', ~return_set'
       PROVE  PendInv'
  <2>1. Top' = f
    BY <1>2, <1>20, TopAfter
  <2>2. ~IsCommand(f)
    BY <1>20, KindFacts
  <2>3. QED
    BY <1>1, <1>19, <1>20, <2>1, <2>2, Calm
<1>21. CASE LoopTest
  <2>1. /\ Top.kind \in LoopKinds /\ Top.phase = "test"
        /\ UNCHANGED <<req_break, req_continue, return_set, signal_received>>
    BY <1>21 DEF LoopTest, InLoop, flags
  <2>2. ~return_set /\ ~signal_received /\ req_break = 0 /\ req_continue = 0
    BY <1>17, <1>19, <2>1
  <2>3. CASE stack' = WithTop([Top EXCEPT !.phase = "body"])
    <3>1. [Top EXCEPT !.phase = "body"] \in Frames /\ [Top EXCEPT !.phase = "body"].kind = Top.kind
      BY <1>2 DEF Frames
    <3>2. QED
      BY <1>20, <2>1, <2>2, <2>3, <3>1
  <2>4. CASE stack' = Popped
    BY <1>1, <1>19, <2>1, <2>2, <2>4, Calm
  <2>5. QED
    BY <1>21, <2>3, <2>4 DEF LoopTest, LeaveLoop, Leave
<1>22. CASE BodyStops
  <2>1. /\ Top.kind \in LoopKinds /\ stack' = Popped /\ pc' = "ran"
        /\ cur_loop_level' = cur_loop_level - 1
        /\ UNCHANGED <<req_break, req_continue, return_set, signal_received>>
        /\ result = 0 \/ return_set \/ signal_received
    BY <1>22 DEF BodyStops, InLoop, LeaveLoop, Leave, flags
  <2>2. ~signal_received => req_break = 0 /\ req_continue = 0
    BY <1>3, <2>1 DEF Travels
  <2>3. QED
    BY <1>1, <1>2, <1>19, <2>1, <2>2, LeavesLoop
<1>23. ASSUME Top.kind \in LoopKinds, BodyEnds, Leaving >= 1
       PROVE  SoFar = 1
  <2>1. result = 1 /\ ~signal_received
    BY <1>23 DEF BodyEnds
  <2>2. NotFirst(stack, Leaving)
    BY <1>3, <2>1 DEF Later
  <2>3. Top.kind = "for" \/ Top.res # 0
    BY <1>2, <1>4, <1>23, <2>2, FeltByTop DEF Top
  <2>4. QED
    BY <1>2, <2>1, <2>3 DEF SoFar
<1>24. CASE BreakLoop
  <2>1. /\ Top.kind \in LoopKinds /\ BodyEnds /\ stack' = Popped /\ pc' = "ran"
        /\ cur_loop_level' = cur_loop_level - 1 /\ result' = SoFar
        /\ req_break # 0 /\ req_break' = req_break - 1
        /\ UNCHANGED <<req_continue, return_set, signal_received>>
    BY <1>24 DEF BreakLoop, BodyEnds, InLoop, LeaveLoop, Leave, flags
  <2>2. Leaving >= 1 /\ req_break' \in Nat
    BY <1>2, <2>1 DEF Leaving
  <2>3. ~signal_received
    BY <2>1 DEF BodyEnds
  <2>4. result' = 1
    BY <1>23, <2>1, <2>2
  <2>5. QED
    BY <1>1, <1>2, <1>19, <2>1, <2>2, <2>3, <2>4, LeavesLoop
<1>25. CASE ContinueOuter
  <2>1. /\ Top.kind \in LoopKinds /\ BodyEnds /\ stack' = Popped /\ pc' = "ran"
        /\ cur_loop_level' = cur_loop_level - 1 /\ result' = SoFar
        /\ req_break = 0 /\ req_continue > 1 /\ req_continue' = req_continue - 1
        /\ UNCHANGED <<req_break, return_set, signal_received>>
    BY <1>25 DEF ContinueOuter, BodyEnds, InLoop, LeaveLoop, Leave, flags
  <2>2. Leaving >= 1 /\ req_continue' \in Nat
    BY <1>2, <2>1 DEF Leaving
  <2>3. ~signal_received
    BY <2>1 DEF BodyEnds
  <2>4. result' = 1
    BY <1>23, <2>1, <2>2
  <2>5. QED
    BY <1>1, <1>2, <1>19, <2>1, <2>2, <2>3, <2>4, LeavesLoop
<1>26. CASE NextRound
  <2>1. /\ Top.kind \in LoopKinds /\ ~signal_received /\ ~return_set
        /\ req_break = 0 /\ req_continue' = 0
        /\ UNCHANGED <<req_break, return_set, signal_received>>
    BY <1>26 DEF NextRound, BodyEnds, InLoop, flags
  <2>2. CASE stack' = WithTop([Frame(Top.kind, 0) EXCEPT !.res = 1])
    <3>1. [Frame(Top.kind, 0) EXCEPT !.res = 1] \in Frames /\ [Frame(Top.kind, 0) EXCEPT !.res = 1].kind = Top.kind
      BY <1>2, TopFrame, EvaluatorAssumption DEF Frames, Frame
    <3>2. QED
      BY <1>20, <2>1, <2>2, <3>1
  <2>3. CASE stack' = Popped
    BY <1>1, <1>19, <2>1, <2>3, Calm
  <2>4. QED
    BY <1>26, <2>2, <2>3 DEF NextRound, LeaveLoop, Leave
\* Units.
<1>27. CASE LeaveUnit
  <2>1. /\ IsUnit(Top) /\ Len(stack) > 1 /\ stack' = Popped
        /\ ~return_set' /\ ~signal_received'
        /\ UNCHANGED <<req_break, req_continue>>
    BY <1>27 DEF LeaveUnit, Leave, counters
  <2>2. Len(stack) \in 2 .. Len(stack) /\ IsUnit(stack[Len(stack)]) /\ Len(stack) >= 2
    BY <1>2, <2>1 DEF Top
  <2>3. req_break = 0 /\ req_continue = 0
    <3>1. CASE signal_received
      BY <1>3, <2>2, <3>1 DEF Fresh, Within
    <3>2. CASE ~signal_received
      <4>1. cur_loop_level = 0
        BY <1>2, <2>1
      <4>2. QED
        BY <1>2, <1>3, <3>2, <4>1 DEF Within
    <3>3. QED
      BY <3>1, <3>2
  <2>4. ~IsCommand(Top)
    BY <2>1, KindFacts
  <2>5. QED
    BY <1>1, <2>1, <2>2, <2>3, <2>4, Calm
<1>28. CASE NewUnit
  <2>1. /\ Len(stack) = 1 /\ stack' = stack /\ req_break' = 0 /\ req_continue' = 0
        /\ ~return_set' /\ ~signal_received'
    BY <1>28 DEF NewUnit
  <2>2. ~IsCommand(Top)
    BY <1>2, <2>1, NewFrames
  <2>3. QED
    BY <1>1, <2>1, <2>2, Calm
\* Everything else pushes a frame.
<1>29. CASE \/ Simple \/ ReturnCommand
            \/ \E k \in {"break", "continue"}, n \in 1..MaxCount : Jump(k, n)
            \/ \E k \in Compound : Enter(k)
  <2>1. Pushed
    BY <1>1, <1>2, <1>29, Pushes
  <2>2. QED
    BY <1>1, <2>1, PendPushed
<1>30. QED
  BY <1>7, <1>8, <1>9, <1>10, <1>12, <1>13, <1>14, <1>15, <1>16, <1>18, <1>21, <1>22,
     <1>24, <1>25, <1>26, <1>27, <1>28, <1>29 DEF Next

LEMMA PendInit == ASSUME Init PROVE PendInv
<1>1. TypeInv /\ StackOf(stack)
  BY TypeInit DEF TypeInv, LevelInv
<1>2. Len(<<Unit>>) = 1 /\ <<Unit>>[1] = Unit
  OBVIOUS
<1>3. Top.kind = "source" /\ Len(stack) = 1
  BY <1>2, NewFrames DEF Init, Top
<1>4. NoTest(stack, 0) /\ NotFirst(stack, -1)
  BY <1>1, NothingFelt
<1>5. Untested /\ Later
  BY <1>4 DEF Untested, Later, Reach, Leaving, Init
<1>6. Within /\ OneRequest /\ Travels /\ Quiet /\ Fresh /\ Returns /\ Jumps /\ ReturnsTo
  BY <1>3 DEF Init, Within, OneRequest, Travels, Quiet, Fresh, Returns, Jumps, ReturnsTo
<1>7. QED
  BY <1>5, <1>6 DEF PendInv

(* No command runs inside a loop while a break or a continue is under way,  *)
(* and none runs in what return has left: every list stops until the loops  *)
(* that are left are left and the function that returns has returned        *)
(* (do_compound_list(), do_list(), do_for_loop() ... of src/backend).       *)
THEOREM NothingPending ==
  ASSUME Programs \subseteq {"returnInEval"}
  PROVE  Spec => []NothingRunsPending
<1>1. Init => TypeInv /\ PendInv
  BY TypeInit, PendInit
<1>2. TypeInv /\ PendInv /\ [Next]_vars => (TypeInv /\ PendInv)'
  <2>1. Programs \cap {"evalInLoop", "overshoot"} = {}
    OBVIOUS
  <2>2. QED
    BY <2>1, TypeStep, PendStep
<1>3. TypeInv /\ PendInv => NothingRunsPending
  <2> SUFFICES ASSUME TypeInv, PendInv, pc = "run", ~(IsCommand(Top) /\ signal_received)
               PROVE  ~Requested /\ ~return_set
    BY DEF NothingRunsPending
  <2>1. ~return_set /\ (signal_received => cur_loop_level = 0 \/ Top.kind = "command")
    BY DEF PendInv, Quiet
  <2>2. CASE signal_received
    BY <2>1, <2>2 DEF Requested, IsCommand
  <2>3. CASE ~signal_received
    BY <2>1, <2>3 DEF PendInv, Travels, Requested
  <2>4. QED
    BY <2>1, <2>2, <2>3
<1>4. QED
  BY <1>1, <1>2, <1>3, PTL DEF Spec

-----------------------------------------------------------------------------
(* What the manual promises, on the stack: where each request cuts it.       *)
Labels   == [kind : Kinds, n : 0 .. MaxCount]
Flat(s)  == [i \in DOMAIN s |-> [kind |-> s[i].kind, n |-> s[i].n]]
Below(s) == SubSeq(s, 1, Len(s) - 1)

LEMMA SameRange == ASSUME NEW a \in Nat, NEW b \in Nat, 1 .. a = 1 .. b PROVE a = b
<1>1. a < b => b \in 1 .. b /\ b \notin 1 .. a
  OBVIOUS
<1>2. b < a => a \in 1 .. a /\ a \notin 1 .. b
  OBVIOUS
<1>3. QED
  BY <1>1, <1>2

LEMMA FlatIs ==
  ASSUME NEW s \in Seq(Frames)
  PROVE  /\ Flat(s) \in Seq(Labels) /\ Len(Flat(s)) = Len(s)
         /\ Len(s) \in Nat /\ DOMAIN Flat(s) = 1 .. Len(s)
         /\ \A i \in 1 .. Len(s) : /\ Flat(s)[i] = [kind |-> s[i].kind, n |-> s[i].n]
                                   /\ Flat(s)[i].kind = s[i].kind /\ Flat(s)[i].n = s[i].n
<1>1. Len(s) \in Nat /\ DOMAIN s = 1 .. Len(s)
  BY LenProperties
<1> DEFINE e(i) == [kind |-> s[i].kind, n |-> s[i].n]
<1>2. \A i \in 1 .. Len(s) : e(i) \in Labels
  <2>1. \A i \in 1 .. Len(s) : s[i] \in Frames
    BY <1>1, ElementOfSeq
  <2>2. QED
    BY <2>1, NewFrames DEF Labels
<1>3. \A i \in 1 .. Len(s) : e(i).kind = s[i].kind /\ e(i).n = s[i].n
  OBVIOUS
<1>4. Flat(s) = [i \in 1 .. Len(s) |-> e(i)]
  BY <1>1 DEF Flat
<1> HIDE DEF e
<1>5. [i \in 1 .. Len(s) |-> e(i)] \in Seq(Labels)
  BY <1>1, <1>2, IsASeq
<1>6. DOMAIN Flat(s) = 1 .. Len(s) /\ \A i \in 1 .. Len(s) : Flat(s)[i] = e(i)
  BY <1>4
<1>7. Len(Flat(s)) = Len(s)
  <2>1. /\ Flat(s) \in Seq(Labels)
        /\ Len(Flat(s)) \in Nat /\ DOMAIN Flat(s) = 1 .. Len(Flat(s))
    BY <1>4, <1>5, LenProperties
  <2>2. 1 .. Len(Flat(s)) = 1 .. Len(s)
    BY <1>6, <2>1
  <2>3. QED
    BY <1>1, <2>1, <2>2, SameRange
<1>8. QED
  BY <1>1, <1>3, <1>4, <1>5, <1>6, <1>7 DEF e

\* Cuts of the stack.
LEMMA FlatCut ==
  ASSUME NEW s \in Seq(Frames), NEW m \in 0 .. Len(s)
  PROVE  LET c == SubSeq(Flat(s), 1, m) IN
         c \in Seq(Labels) /\ Len(c) = m /\ \A i \in 1 .. m : c[i] = Flat(s)[i]
<1>1. Len(s) \in Nat /\ m \in Int /\ m \in Nat /\ m - 1 + 1 = m /\ (1 <= m \/ m = 0)
  BY FlatIs
<1>2. \A i \in 1 .. m : Flat(s)[i] \in Labels
  <2>1. \A i \in 1 .. m : i \in 1 .. Len(Flat(s))
    BY <1>1, FlatIs
  <2>2. QED
    BY <2>1, FlatIs, ElementOfSeq
<1>3. /\ SubSeq(Flat(s), 1, m) \in Seq(Labels)
      /\ Len(SubSeq(Flat(s), 1, m)) = IF 1 <= m THEN m - 1 + 1 ELSE 0
      /\ \A i \in 1 .. m - 1 + 1 : SubSeq(Flat(s), 1, m)[i] = Flat(s)[1 + i - 1]
  BY <1>1, <1>2, SubSeqProperties
<1>4. \A i \in 1 .. m : i \in 1 .. m - 1 + 1 /\ 1 + i - 1 = i
  BY <1>1
<1> DEFINE c == SubSeq(Flat(s), 1, m)
<1> HIDE DEF c
<1>5. /\ c \in Seq(Labels) /\ Len(c) = IF 1 <= m THEN m - 1 + 1 ELSE 0
      /\ \A i \in 1 .. m - 1 + 1 : c[i] = Flat(s)[1 + i - 1]
  BY <1>3 DEF c
<1>6. Len(c) = m /\ \A i \in 1 .. m : c[i] = Flat(s)[i]
  BY <1>1, <1>4, <1>5
<1>7. QED
  BY <1>5, <1>6 DEF c

LEMMA FlatBelow ==
  ASSUME NEW s, StackOf(s), Len(s) >= 2
  PROVE  /\ SubSeq(Flat(s), 1, Len(s) - 1) = Flat(Below(s))
         /\ \A m \in 0 .. Len(s) - 1 : SubSeq(Flat(s), 1, m) = SubSeq(Flat(Below(s)), 1, m)
<1> DEFINE p == Below(s)
<1>1. /\ s \in Seq(Frames) /\ Len(s) \in Nat
      /\ p \in Seq(Frames) /\ Len(p) = Len(s) - 1 /\ \A i \in 1 .. Len(s) - 1 : p[i] = s[i]
  BY WithoutTop DEF StackOf, Below
<1> HIDE DEF p
<1>2. \A i \in 1 .. Len(p) : Flat(p)[i] = Flat(s)[i]
  <2>1. \A i \in 1 .. Len(p) : i \in 1 .. Len(s) /\ p[i] = s[i]
    BY <1>1
  <2>2. \A i \in 1 .. Len(p) : Flat(p)[i] = [kind |-> p[i].kind, n |-> p[i].n]
    BY <1>1, FlatIs
  <2>3. \A i \in 1 .. Len(s) : Flat(s)[i] = [kind |-> s[i].kind, n |-> s[i].n]
    BY <1>1, FlatIs
  <2>4. QED
    BY <2>1, <2>2, <2>3
<1>3. Len(s) - 1 \in 0 .. Len(s) /\ \A m \in 0 .. Len(s) - 1 : m \in 0 .. Len(s) /\ m \in 0 .. Len(p)
  BY <1>1
<1>4. SubSeq(Flat(s), 1, Len(s) - 1) = Flat(p)
  <2> DEFINE c == SubSeq(Flat(s), 1, Len(s) - 1)
  <2>1. /\ c \in Seq(Labels) /\ Len(c) = Len(s) - 1 /\ \A i \in 1 .. Len(s) - 1 : c[i] = Flat(s)[i]
    BY <1>1, <1>3, FlatCut
  <2>2. Flat(p) \in Seq(Labels) /\ Len(Flat(p)) = Len(p)
    BY <1>1, FlatIs
  <2> HIDE DEF c
  <2>3. Len(c) = Len(Flat(p)) /\ \A i \in 1 .. Len(c) : c[i] = Flat(p)[i]
    BY <1>1, <1>2, <2>1, <2>2
  <2>4. c = Flat(p)
    BY <2>1, <2>2, <2>3, SeqEqual
  <2>5. QED
    BY <2>4 DEF c
<1>5. ASSUME NEW m \in 0 .. Len(s) - 1
      PROVE  SubSeq(Flat(s), 1, m) = SubSeq(Flat(p), 1, m)
  <2> DEFINE c == SubSeq(Flat(s), 1, m)  d == SubSeq(Flat(p), 1, m)
  <2>1. c \in Seq(Labels) /\ Len(c) = m /\ \A i \in 1 .. m : c[i] = Flat(s)[i]
    BY <1>1, <1>3, FlatCut
  <2>2. d \in Seq(Labels) /\ Len(d) = m /\ \A i \in 1 .. m : d[i] = Flat(p)[i]
    BY <1>1, <1>3, FlatCut
  <2> HIDE DEF c, d
  <2>3. \A i \in 1 .. m : i \in 1 .. Len(p)
    BY <1>1
  <2>4. Len(c) = Len(d) /\ \A i \in 1 .. Len(c) : c[i] = d[i]
    BY <1>2, <2>1, <2>2, <2>3
  <2>5. c = d
    BY <2>1, <2>2, <2>4, SeqEqual
  <2>6. QED
    BY <2>5 DEF c, d
<1>6. QED
  BY <1>4, <1>5 DEF p

LEMMA FlatWhole ==
  ASSUME NEW s \in Seq(Frames)
  PROVE  SubSeq(Flat(s), 1, Len(s)) = Flat(s)
<1> DEFINE c == SubSeq(Flat(s), 1, Len(s))
<1>1. Len(s) \in 0 .. Len(s)
  BY FlatIs
<1>2. c \in Seq(Labels) /\ Len(c) = Len(s) /\ \A i \in 1 .. Len(s) : c[i] = Flat(s)[i]
  BY <1>1, FlatCut
<1> HIDE DEF c
<1>3. Len(c) = Len(Flat(s)) /\ \A i \in 1 .. Len(c) : c[i] = Flat(s)[i]
  BY <1>2, FlatIs
<1>4. c = Flat(s)
  BY <1>2, <1>3, FlatIs, SeqEqual
<1>5. QED
  BY <1>4 DEF c

LEMMA FlatPushed ==
  ASSUME NEW s \in Seq(Frames), NEW f \in Frames
  PROVE  Flat(Append(s, f)) = Append(Flat(s), [kind |-> f.kind, n |-> f.n])
<1> DEFINE a == Append(s, f)  g == [kind |-> f.kind, n |-> f.n]  b == Append(Flat(s), g)
<1>1. /\ Len(s) \in Nat /\ a \in Seq(Frames) /\ Len(a) = Len(s) + 1
      /\ \A i \in 1 .. Len(s) : a[i] = s[i]
      /\ a[Len(s) + 1] = f
  BY WithFrame
<1>2. g \in Labels
  BY NewFrames DEF Labels
<1>3. /\ b \in Seq(Labels) /\ Len(b) = Len(s) + 1
      /\ \A i \in 1 .. Len(s) : b[i] = Flat(s)[i]
      /\ b[Len(s) + 1] = g
  <2> HIDE DEF g
  <2>1. QED
    BY <1>2, FlatIs, AppendProperties
<1> HIDE DEF a, b
<1>4. /\ Flat(a) \in Seq(Labels) /\ Len(Flat(a)) = Len(a)
      /\ \A i \in 1 .. Len(a) : Flat(a)[i] = [kind |-> a[i].kind, n |-> a[i].n]
  BY <1>1, FlatIs
<1>5. ASSUME NEW i \in 1 .. Len(a) PROVE Flat(a)[i] = b[i]
  <2>1. CASE i = Len(s) + 1
    BY <1>1, <1>3, <1>4, <2>1
  <2>2. CASE i # Len(s) + 1
    <3>1. i \in 1 .. Len(s)
      BY <1>1, <2>2
    <3>2. b[i] = [kind |-> s[i].kind, n |-> s[i].n]
      BY <1>3, <3>1, FlatIs
    <3>3. a[i] = s[i]
      BY <1>1, <3>1
    <3>4. QED
      BY <1>4, <3>2, <3>3
  <2>3. QED
    BY <2>1, <2>2
<1>6. Len(Flat(a)) = Len(b) /\ \A i \in 1 .. Len(Flat(a)) : Flat(a)[i] = b[i]
  BY <1>1, <1>3, <1>4, <1>5
<1>7. Flat(a) = b
  BY <1>3, <1>4, <1>6, SeqEqual
<1>8. QED
  BY <1>7 DEF a, b

\* The rounds and branches of a command do not show.
LEMMA FlatAgain ==
  ASSUME NEW s, StackOf(s), NEW f \in Frames, f.kind = Last(s).kind, f.n = Last(s).n
  PROVE  Flat(Append(Below(s), f)) = Flat(s)
<1> DEFINE a == Append(Below(s), f)
<1>1. /\ s \in Seq(Frames) /\ Len(s) \in Nat /\ Len(s) >= 1
      /\ a \in Seq(Frames) /\ Len(a) = Len(s)
      /\ \A i \in 1 .. Len(s) - 1 : a[i] = s[i]
      /\ a[Len(s)] = f
  BY WithOther DEF StackOf, Below
<1> HIDE DEF a
<1>2. ASSUME NEW i \in 1 .. Len(s) PROVE a[i].kind = s[i].kind /\ a[i].n = s[i].n
  <2>1. CASE i = Len(s)
    BY <1>1, <2>1 DEF Last
  <2>2. CASE i # Len(s)
    <3>1. i \in 1 .. Len(s) - 1
      BY <1>1, <2>2
    <3>2. QED
      BY <1>1, <3>1
  <2>3. QED
    BY <2>1, <2>2
<1>3. /\ Flat(a) \in Seq(Labels) /\ Len(Flat(a)) = Len(s) /\ Flat(s) \in Seq(Labels) /\ Len(Flat(s)) = Len(s)
      /\ \A i \in 1 .. Len(s) : Flat(a)[i] = [kind |-> a[i].kind, n |-> a[i].n]
      /\ \A i \in 1 .. Len(s) : Flat(s)[i] = [kind |-> s[i].kind, n |-> s[i].n]
  BY <1>1, FlatIs
<1>4. \A i \in 1 .. Len(s) : Flat(a)[i] = Flat(s)[i]
  BY <1>2, <1>3
<1>5. Flat(a) = Flat(s)
  BY <1>3, <1>4, SeqEqual
<1>6. QED
  BY <1>5 DEF a

\* The innermost frame that is of some kind.
Nearest(s, K, i) ==
    /\ i \in 1 .. Len(s) /\ s[i].kind \in K
    /\ \A j \in (i + 1) .. Len(s) : s[j].kind \notin K

LEMMA NearestIs ==
  ASSUME NEW s, StackOf(s), NEW K, "source" \in K
  PROVE  /\ \E i \in 1 .. Len(s) : Nearest(s, K, i)
         /\ \A i, j : Nearest(s, K, i) /\ Nearest(s, K, j) => i = j
<1>1. Len(s) \in Nat /\ Len(s) >= 1 /\ s[1].kind = "source"
  BY WithoutTop, NewFrames DEF StackOf
<1> DEFINE S == {i \in 1 .. Len(s) : s[i].kind \in K}
<1>2. PICK m \in S : \A k \in S : k <= m
  <2>1. 1 \in S
    BY <1>1
  <2>2. QED
    BY <1>1, <2>1, LeastAndLargest
<1>3. Nearest(s, K, m)
  <2>1. \A j \in (m + 1) .. Len(s) : j \in 1 .. Len(s) /\ ~(j <= m)
    BY <1>1, <1>2
  <2>2. QED
    BY <1>2, <2>1 DEF Nearest
<1>4. ASSUME NEW i, NEW j, Nearest(s, K, i), Nearest(s, K, j) PROVE i = j
  <2>1. i \in 1 .. Len(s) /\ j \in 1 .. Len(s) /\ s[i].kind \in K /\ s[j].kind \in K
    BY <1>4 DEF Nearest
  <2>2. ~(i < j)
    <3>1. i < j => j \in (i + 1) .. Len(s)
      BY <1>1, <2>1
    <3>2. QED
      BY <1>4, <2>1, <3>1 DEF Nearest
  <2>3. ~(j < i)
    <3>1. j < i => i \in (j + 1) .. Len(s)
      BY <1>1, <2>1
    <3>2. QED
      BY <1>4, <2>1, <3>1 DEF Nearest
  <2>4. QED
    BY <1>1, <2>1, <2>2, <2>3
<1>5. QED
  BY <1>2, <1>3, <1>4

LEMMA NearestTop ==
  ASSUME NEW s, StackOf(s), NEW K, Last(s).kind \in K
  PROVE  Nearest(s, K, Len(s))
<1>1. Len(s) \in Nat /\ Len(s) >= 1
  BY WithoutTop DEF StackOf
<1>2. Len(s) \in 1 .. Len(s) /\ (Len(s) + 1) .. Len(s) = {}
  BY <1>1
<1>3. QED
  BY <1>2 DEF Nearest, Last

LEMMA NearestBelow ==
  ASSUME NEW s, StackOf(s), Len(s) >= 2, NEW K, Last(s).kind \notin K, NEW i, Nearest(s, K, i)
  PROVE  Nearest(Below(s), K, i) /\ i \in 1 .. Len(s) - 1
<1>1. /\ Len(s) \in Nat /\ Len(Below(s)) = Len(s) - 1
      /\ \A j \in 1 .. Len(s) - 1 : Below(s)[j] = s[j]
  BY WithoutTop DEF StackOf, Below
<1>2. i \in 1 .. Len(s) /\ s[i].kind \in K
  BY DEF Nearest
<1>3. i # Len(s)
  BY <1>2 DEF Last
<1>4. i \in 1 .. Len(s) - 1 /\ \A j \in (i + 1) .. Len(s) - 1 : j \in 1 .. Len(s) - 1 /\ j \in (i + 1) .. Len(s)
  BY <1>1, <1>2, <1>3
<1>5. \A j \in (i + 1) .. Len(s) - 1 : Below(s)[j].kind \notin K
  BY <1>1, <1>4 DEF Nearest
<1>6. QED
  BY <1>1, <1>2, <1>4, <1>5 DEF Nearest

Scripts == {"function", "source"}
Holders == {"function", "case", "source", "eval"}

AfterReturn(s)      == Promise!LeaveFunction(Flat(s))
AfterFailure(s)     == Promise!Abandon(Flat(s))
AfterInterrupt(s)   == Promise!AllLoops(Flat(s))
AfterBreak(s, n)    == Promise!LeaveLoops(Flat(s), n)
AfterContinue(s, n) == Promise!NextRoundOf(Flat(s), n)

\* What is nearest on the stack is nearest on the flat one.
LEMMA NearestFlat ==
  ASSUME NEW s, StackOf(s), NEW K, NEW i
  PROVE  /\ DOMAIN Flat(s) = 1 .. Len(s) /\ Len(Flat(s)) = Len(s)
         /\ Nearest(s, K, i) <=> /\ i \in DOMAIN Flat(s) /\ Flat(s)[i].kind \in K
                                 /\ \A j \in (i + 1) .. Len(Flat(s)) : Flat(s)[j].kind \notin K
<1>1. /\ Len(s) \in Nat /\ DOMAIN Flat(s) = 1 .. Len(s) /\ Len(Flat(s)) = Len(s)
      /\ \A j \in 1 .. Len(s) : Flat(s)[j].kind = s[j].kind
  BY FlatIs DEF StackOf
<1>2. i \in 1 .. Len(s) => \A j \in (i + 1) .. Len(s) : j \in 1 .. Len(s)
  BY <1>1
<1>3. QED
  BY <1>1, <1>2 DEF Nearest

LEMMA ScopeIs ==
  ASSUME NEW s, StackOf(s), NEW i, Nearest(s, Scripts, i)
  PROVE  Promise!Scope(Flat(s)) = i
<1> DEFINE P(x) == /\ Flat(s)[x].kind \in {"function", "source"}
                   /\ \A j \in (x + 1) .. Len(Flat(s)) : Flat(s)[j].kind \notin {"function", "source"}
<1>1. \A x : Nearest(s, Scripts, x) <=> x \in DOMAIN Flat(s) /\ P(x)
  BY NearestFlat DEF Scripts
<1>2. Promise!Scope(Flat(s)) = CHOOSE x \in DOMAIN Flat(s) : P(x)
  BY DEF Promise!Scope
<1> HIDE DEF P
<1>3. Nearest(s, Scripts, Promise!Scope(Flat(s)))
  BY <1>1, <1>2
<1>4. "source" \in Scripts
  BY DEF Scripts
<1>5. QED
  BY <1>3, <1>4, NearestIs

LEMMA ReturnCuts ==
  ASSUME NEW s, StackOf(s), NEW i, Nearest(s, Scripts, i)
  PROVE  AfterReturn(s) = SubSeq(Flat(s), 1, IF i = 1 THEN 1 ELSE i - 1)
  BY ScopeIs DEF AfterReturn, Promise!LeaveFunction, Promise!Upto

LEMMA FailureCuts ==
  ASSUME NEW s, StackOf(s), NEW i, Nearest(s, Holders, i)
  PROVE  AfterFailure(s) = SubSeq(Flat(s), 1, IF s[i].kind = "function" THEN i - 1 ELSE i)
<1> DEFINE P(x) == /\ Flat(s)[x].kind \in {"function", "case", "source", "eval"}
                   /\ \A j \in (x + 1) .. Len(Flat(s)) : ~(Flat(s)[j].kind \in {"function", "case", "source", "eval"})
           c    == CHOOSE x \in DOMAIN Flat(s) : P(x)
<1>1. \A x : Nearest(s, Holders, x) <=> x \in DOMAIN Flat(s) /\ P(x)
  BY NearestFlat DEF Holders
<1>2. AfterFailure(s) = SubSeq(Flat(s), 1, IF Flat(s)[c].kind = "function" THEN c - 1 ELSE c)
  BY DEF AfterFailure, Promise!Abandon, Promise!Upto
<1>3. c = i
  <2> HIDE DEF P
  <2>1. Nearest(s, Holders, c)
    BY <1>1
  <2>2. "source" \in Holders
    BY DEF Holders
  <2>3. QED
    BY <2>1, <2>2, NearestIs
<1> HIDE DEF c, P
<1>4. Flat(s)[i].kind = s[i].kind
  BY FlatIs DEF Nearest, StackOf
<1>5. QED
  BY <1>2, <1>3, <1>4

(* What return and a failure leave, with or without the top frame.           *)
LEMMA ReturnBelow ==
  ASSUME NEW s, StackOf(s), Len(s) >= 2
  PROVE  AfterReturn(s) = IF Last(s).kind \in Scripts THEN Flat(Below(s)) ELSE AfterReturn(Below(s))
<1>1. Len(s) \in Nat /\ StackOf(Below(s))
  BY StackLeft, WithoutTop DEF StackOf, Below
<1>2. PICK i \in 1 .. Len(s) : Nearest(s, Scripts, i)
  BY NearestIs DEF Scripts
<1>3. AfterReturn(s) = SubSeq(Flat(s), 1, IF i = 1 THEN 1 ELSE i - 1)
  BY <1>2, ReturnCuts
<1>4. CASE Last(s).kind \in Scripts
  <2>1. i = Len(s) /\ i # 1
    BY <1>1, <1>2, <1>4, NearestTop, NearestIs DEF Scripts
  <2>2. QED
    BY <1>3, <1>4, <2>1, FlatBelow
<1>5. CASE Last(s).kind \notin Scripts
  <2> DEFINE m == IF i = 1 THEN 1 ELSE i - 1
  <2>1. Nearest(Below(s), Scripts, i) /\ i \in 1 .. Len(s) - 1
    BY <1>2, <1>5, NearestBelow
  <2>2. m \in 0 .. Len(s) - 1
    BY <1>1, <2>1
  <2>3. AfterReturn(Below(s)) = SubSeq(Flat(Below(s)), 1, m)
    BY <1>1, <2>1, ReturnCuts
  <2> HIDE DEF m
  <2>4. SubSeq(Flat(s), 1, m) = SubSeq(Flat(Below(s)), 1, m)
    BY <2>2, FlatBelow
  <2>5. QED
    BY <1>3, <1>5, <2>3, <2>4 DEF m
<1>6. QED
  BY <1>4, <1>5

LEMMA FailureBelow ==
  ASSUME NEW s, StackOf(s), Len(s) >= 2
  PROVE  AfterFailure(s) = IF Last(s).kind = "function" THEN Flat(Below(s))
                           ELSE IF Last(s).kind \in Holders THEN Flat(s)
                           ELSE AfterFailure(Below(s))
<1>1. Len(s) \in Nat /\ StackOf(Below(s)) /\ s \in Seq(Frames)
  BY StackLeft, WithoutTop DEF StackOf, Below
<1>2. PICK i \in 1 .. Len(s) : Nearest(s, Holders, i)
  BY NearestIs DEF Holders
<1>3. AfterFailure(s) = SubSeq(Flat(s), 1, IF s[i].kind = "function" THEN i - 1 ELSE i)
  BY <1>2, FailureCuts
<1>4. CASE Last(s).kind \in Holders
  <2>1. i = Len(s) /\ s[i] = Last(s)
    BY <1>1, <1>2, <1>4, NearestTop, NearestIs DEF Holders, Last
  <2>2. QED
    BY <1>1, <1>3, <1>4, <2>1, FlatBelow, FlatWhole
<1>5. CASE Last(s).kind \notin Holders
  <2> DEFINE m == IF s[i].kind = "function" THEN i - 1 ELSE i
  <2>1. Nearest(Below(s), Holders, i) /\ i \in 1 .. Len(s) - 1
    BY <1>2, <1>5, NearestBelow
  <2>2. m \in 0 .. Len(s) - 1 /\ Below(s)[i] = s[i]
    BY <1>1, <2>1, WithoutTop DEF StackOf, Below
  <2>3. AfterFailure(Below(s)) = SubSeq(Flat(Below(s)), 1, m)
    BY <1>1, <2>1, <2>2, FailureCuts
  <2> HIDE DEF m
  <2>4. SubSeq(Flat(s), 1, m) = SubSeq(Flat(Below(s)), 1, m)
    BY <2>2, FlatBelow
  <2>5. Last(s).kind # "function"
    BY <1>5 DEF Holders
  <2>6. QED
    BY <1>3, <1>5, <2>3, <2>4, <2>5 DEF m
<1>6. QED
  BY <1>4, <1>5

LEMMA AtBottom ==
  ASSUME NEW s, StackOf(s), Len(s) = 1
  PROVE  AfterReturn(s) = Flat(s) /\ AfterFailure(s) = Flat(s)
<1>1. Last(s).kind = "source" /\ s \in Seq(Frames)
  BY NewFrames DEF StackOf, Last
<1>2. Nearest(s, Scripts, 1) /\ Nearest(s, Holders, 1)
  BY <1>1, NearestTop DEF Scripts, Holders
<1>3. AfterReturn(s) = SubSeq(Flat(s), 1, 1) /\ AfterFailure(s) = SubSeq(Flat(s), 1, 1)
  BY <1>1, <1>2, ReturnCuts, FailureCuts DEF Last
<1>4. QED
  BY <1>1, <1>3, FlatWhole

\* The n-th loop from the top.
NthLoop(s, n, i) == i \in LoopsOf(s) /\ Above(s, i) = n - 1

LEMMA AboveNext ==
  ASSUME NEW s, StackOf(s), NEW i \in 2 .. Len(s)
  PROVE  Above(s, i - 1) = Above(s, i) + InLoops(s[i].kind)
<1> DEFINE a == {j \in LoopsOf(s) : j > i - 1}  b == {j \in LoopsOf(s) : j > i}
<1>1. Len(s) \in Nat /\ DOMAIN s = 1 .. Len(s) /\ LoopsOf(s) \subseteq 1 .. Len(s) /\ i \in Int
      /\ i \in 1 .. Len(s)
  BY LoopsFinite, WithoutTop, LenProperties DEF StackOf
<1>2. i \in LoopsOf(s) <=> s[i].kind \in LoopKinds
  BY <1>1 DEF LoopsOf
<1>3. IsFiniteSet(b) /\ Cardinality(b) \in Nat /\ i \notin b
  BY <1>1, AboveIsNat DEF Above
<1>4. \A j \in LoopsOf(s) : j > i - 1 <=> j > i \/ j = i
  BY <1>1
<1>5. CASE s[i].kind \in LoopKinds
  <2>1. a = b \cup {i}
    BY <1>2, <1>4, <1>5
  <2>2. Cardinality(a) = Cardinality(b) + 1
    BY <1>3, <2>1, FS_AddElement
  <2>3. QED
    BY <1>5, <2>2 DEF Above, InLoops
<1>6. CASE s[i].kind \notin LoopKinds
  <2>1. a = b
    BY <1>2, <1>4, <1>6
  <2>2. Cardinality(a) = Cardinality(b) + 0
    <3> HIDE DEF a, b
    <3>1. QED
      BY <1>3, <2>1
  <2>3. QED
    BY <1>6, <2>2 DEF Above, InLoops
<1>7. QED
  BY <1>5, <1>6

LEMMA AboveBottom == ASSUME NEW s, StackOf(s) PROVE Above(s, 1) = Cardinality(LoopsOf(s))
<1>1. Len(s) \in Nat /\ LoopsOf(s) \subseteq 2 .. Len(s)
  BY LoopsFinite, WithoutTop DEF StackOf
<1>2. {j \in LoopsOf(s) : j > 1} = LoopsOf(s)
  BY <1>1
<1>3. QED
  BY <1>2 DEF Above

LEMMA NthIs ==
  ASSUME NEW s, StackOf(s), NEW n \in 1 .. Cardinality(LoopsOf(s))
  PROVE  /\ \E i \in 2 .. Len(s) : NthLoop(s, n, i)
         /\ \A i, j : NthLoop(s, n, i) /\ NthLoop(s, n, j) => i = j
<1>1. /\ Len(s) \in Nat /\ Len(s) >= 1 /\ DOMAIN s = 1 .. Len(s) /\ LoopsOf(s) \subseteq 2 .. Len(s)
      /\ n \in Int /\ n - 1 >= 0 /\ Cardinality(LoopsOf(s)) \in Nat /\ n <= Cardinality(LoopsOf(s))
      /\ \A i \in 1 .. Len(s) : Above(s, i) \in Nat
  <2>1. Len(s) \in Nat /\ Len(s) >= 1 /\ DOMAIN s = 1 .. Len(s)
    BY WithoutTop, LenProperties DEF StackOf
  <2>2. LoopsOf(s) \subseteq 2 .. Len(s) /\ Cardinality(LoopsOf(s)) \in Nat
    BY LoopsFinite, FS_CardinalityType
  <2>3. ASSUME NEW i \in 1 .. Len(s) PROVE Above(s, i) \in Nat
    <3>1. i \in Int
      BY <2>1
    <3>2. QED
      BY <3>1, AboveIsNat
  <2>4. QED
    BY <2>1, <2>2, <2>3
<1> DEFINE S == {i \in 1 .. Len(s) : Above(s, i) <= n - 1}
<1>2. Len(s) \in S
  BY <1>1, AboveTop
<1>3. PICK m \in S : \A k \in S : m <= k
  BY <1>1, <1>2, LeastAndLargest
<1>4. m # 1
  <2>1. ~(Cardinality(LoopsOf(s)) <= n - 1)
    BY <1>1
  <2>2. QED
    BY <1>3, <2>1, AboveBottom
<1>5. m \in 2 .. Len(s) /\ m - 1 \in 1 .. Len(s) /\ ~(m <= m - 1)
  BY <1>1, <1>3, <1>4
<1>6. ~(Above(s, m - 1) <= n - 1)
  BY <1>3, <1>5
<1>7. Above(s, m - 1) = Above(s, m) + InLoops(s[m].kind)
  BY <1>5, AboveNext
<1>8. s[m].kind \in LoopKinds /\ Above(s, m) = n - 1
  <2> DEFINE a == Above(s, m)  b == Above(s, m - 1)  d == InLoops(s[m].kind)
  <2>1. a \in Nat /\ b \in Nat /\ a <= n - 1 /\ b = a + d /\ ~(b <= n - 1) /\ d \in {0, 1}
    BY <1>1, <1>3, <1>5, <1>6, <1>7 DEF InLoops
  <2> HIDE DEF a, b, d
  <2>2. d = 1 /\ a = n - 1
    BY <1>1, <2>1
  <2>3. QED
    BY <2>2 DEF a, d, InLoops
<1>9. NthLoop(s, n, m)
  BY <1>1, <1>5, <1>8 DEF NthLoop, LoopsOf
<1>10. ASSUME NEW i, NEW j, NthLoop(s, n, i), NthLoop(s, n, j) PROVE ~(i < j)
  <2> SUFFICES ASSUME i < j PROVE FALSE
    OBVIOUS
  <2>1. i \in LoopsOf(s) /\ j \in LoopsOf(s) /\ i \in Int /\ j \in Int
    BY <1>1, <1>10 DEF NthLoop
  <2> DEFINE a == {k \in LoopsOf(s) : k > j}  b == {k \in LoopsOf(s) : k > i}
  <2>2. IsFiniteSet(a) /\ IsFiniteSet(b)
    BY <2>1, AboveIsNat
  <2>3. a \subseteq b /\ j \in b /\ j \notin a
    BY <1>1, <2>1
  <2>4. Cardinality(a) = n - 1 /\ Cardinality(b) = n - 1
    BY <1>10 DEF NthLoop, Above
  <2> HIDE DEF a, b
  <2>5. a # b
    BY <2>3
  <2>6. QED
    BY <2>2, <2>3, <2>4, <2>5, FS_Subset
<1>11. ASSUME NEW i, NEW j, NthLoop(s, n, i), NthLoop(s, n, j) PROVE i = j
  <2>1. i \in Int /\ j \in Int
    BY <1>1, <1>11 DEF NthLoop
  <2>2. ~(i < j) /\ ~(j < i)
    BY <1>10, <1>11
  <2>3. QED
    BY <2>1, <2>2
<1>12. QED
  BY <1>5, <1>9, <1>11

LEMMA SameCardinality == \A S : Promise!Cardinality(S) = Cardinality(S)
  BY DEF Promise!Cardinality, Cardinality

LEMMA EnclosingIs ==
  ASSUME NEW s, StackOf(s), NEW n \in 1 .. Cardinality(LoopsOf(s)), NEW i, NthLoop(s, n, i)
  PROVE  Promise!Enclosing(Flat(s), n) = i
<1>1. /\ Len(s) \in Nat /\ DOMAIN s = 1 .. Len(s) /\ DOMAIN Flat(s) = 1 .. Len(s)
      /\ \A j \in 1 .. Len(s) : Flat(s)[j].kind = s[j].kind
  BY WithoutTop, LenProperties, FlatIs DEF StackOf
<1>2. Promise!LoopsOf(Flat(s)) = LoopsOf(s)
  BY <1>1 DEF Promise!LoopsOf, Promise!Loops, LoopsOf, LoopKinds
<1>3. /\ LoopsOf(s) \subseteq 2 .. Len(s) /\ IsFiniteSet(LoopsOf(s)) /\ Cardinality(LoopsOf(s)) \in Nat
      /\ n \in Int /\ n <= Cardinality(LoopsOf(s))
  <2>1. LoopsOf(s) \subseteq 2 .. Len(s) /\ IsFiniteSet(LoopsOf(s)) /\ Cardinality(LoopsOf(s)) \in Nat
    BY LoopsFinite, FS_CardinalityType
  <2>2. QED
    BY <2>1
<1> DEFINE P(x) == Cardinality({j \in LoopsOf(s) : j >= x}) = n
           c    == CHOOSE x \in LoopsOf(s) : P(x)
<1>4. ASSUME NEW x \in LoopsOf(s) PROVE P(x) <=> NthLoop(s, n, x)
  <2> DEFINE a == {j \in LoopsOf(s) : j >= x}  b == {j \in LoopsOf(s) : j > x}
  <2>1. x \in Int /\ \A j \in LoopsOf(s) : j >= x <=> j > x \/ j = x
    BY <1>1, <1>3
  <2>2. IsFiniteSet(b) /\ x \notin b /\ Cardinality(b) \in Nat
    BY <2>1, AboveIsNat DEF Above
  <2>3. a = b \cup {x}
    BY <2>1
  <2>4. Cardinality(a) = Cardinality(b) + 1
    BY <2>2, <2>3, FS_AddElement
  <2>5. P(x) <=> Cardinality(a) = n
    OBVIOUS
  <2>6. NthLoop(s, n, x) <=> Cardinality(b) = n - 1
    BY DEF NthLoop, Above
  <2> HIDE DEF a, b, P
  <2>7. QED
    BY <1>3, <2>2, <2>4, <2>5, <2>6
<1>5. Promise!Enclosing(Flat(s), n) = c
  <2>1. Promise!Least(n, Cardinality(LoopsOf(s))) = n
    BY <1>3 DEF Promise!Least
  <2>2. QED
    BY <1>2, <2>1, SameCardinality DEF Promise!Enclosing
<1>6. NthLoop(s, n, c)
  <2> HIDE DEF P
  <2>1. i \in LoopsOf(s) /\ P(i)
    BY <1>4 DEF NthLoop
  <2>2. c \in LoopsOf(s) /\ P(c)
    BY <2>1
  <2>3. QED
    BY <1>4, <2>2
<1> HIDE DEF c
<1>7. QED
  BY <1>5, <1>6, NthIs

\* The n-th loop without the top frame.
LEMMA NthBelow ==
  ASSUME NEW s, StackOf(s), Len(s) >= 2, NEW n \in 1 .. Cardinality(LoopsOf(s)), NEW i, NthLoop(s, n, i)
  PROVE  LET p == Below(s) IN
         /\ Cardinality(LoopsOf(p)) = Cardinality(LoopsOf(s)) - InLoops(Last(s).kind)
         /\ Last(s).kind \notin LoopKinds => NthLoop(p, n, i)
         /\ Last(s).kind \in LoopKinds => IF n = 1 THEN i = Len(s) ELSE NthLoop(p, n - 1, i)
<1> DEFINE p == Below(s)  t == Last(s)  d == InLoops(t.kind)
<1>1. StackOf(p) /\ s = Append(p, t) /\ t \in Frames
  BY StackLeft DEF Below, Last
<1>2. /\ Len(s) \in Nat /\ Len(p) = Len(s) - 1 /\ p \in Seq(Frames) /\ LoopsOf(p) \subseteq 2 .. Len(p)
      /\ Cardinality(LoopsOf(p)) \in Nat /\ n \in Int
      /\ \A k \in 2 .. Len(p) : k \in 1 .. Len(p) /\ k \in Int
  <2>1. Len(s) \in Nat /\ Len(p) = Len(s) - 1 /\ p \in Seq(Frames)
    BY WithoutTop DEF StackOf, Below
  <2>2. LoopsOf(p) \subseteq 2 .. Len(p) /\ Cardinality(LoopsOf(p)) \in Nat
    BY <1>1, LoopsFinite, FS_CardinalityType
  <2> HIDE DEF p
  <2>3. \A k \in 2 .. Len(p) : k \in 1 .. Len(p) /\ k \in Int
    BY <2>1
  <2>4. QED
    BY <2>1, <2>2, <2>3
<1> HIDE DEF p, t
<1>3. Cardinality(LoopsOf(s)) = Cardinality(LoopsOf(p)) + d /\ d \in {0, 1}
  BY <1>1, CountPushed DEF InLoops
<1>4. LoopsOf(s) = LoopsOf(p) \cup (IF t.kind \in LoopKinds THEN {Len(p) + 1} ELSE {})
  BY <1>1, <1>2, LoopsPushed
<1>5. \A k \in LoopsOf(p) : Above(s, k) = Above(p, k) + d /\ Above(p, k) \in Nat
  <2>1. \A k \in LoopsOf(p) : k \in 1 .. Len(p) /\ k \in Int
    BY <1>2
  <2>2. \A k \in 1 .. Len(p) : Above(Append(p, t), k) = Above(p, k) + d
    BY <1>1, AbovePushed
  <2>3. QED
    BY <1>1, <2>1, <2>2, AboveIsNat
<1>6. i \in LoopsOf(s) /\ Above(s, i) = n - 1
  BY DEF NthLoop
<1>7. Cardinality(LoopsOf(p)) = Cardinality(LoopsOf(s)) - d
  <2> DEFINE a == Cardinality(LoopsOf(p))  b == Cardinality(LoopsOf(s))
  <2>1. a \in Nat /\ b = a + d /\ d \in {0, 1}
    BY <1>2, <1>3
  <2> HIDE DEF a, b, d
  <2>2. a = b - d
    BY <2>1
  <2>3. QED
    BY <2>2 DEF a, b
<1>8. ASSUME t.kind \notin LoopKinds PROVE NthLoop(p, n, i)
  <2>1. i \in LoopsOf(p) /\ d = 0
    BY <1>4, <1>6, <1>8 DEF InLoops
  <2>2. Above(p, i) = n - 1
    BY <1>5, <1>6, <2>1
  <2>3. QED
    BY <2>1, <2>2 DEF NthLoop
<1>9. ASSUME t.kind \in LoopKinds PROVE IF n = 1 THEN i = Len(s) ELSE NthLoop(p, n - 1, i)
  <2>1. d = 1 /\ (i \in LoopsOf(p) \/ i = Len(s))
    BY <1>2, <1>4, <1>6, <1>9 DEF InLoops
  <2>2. ASSUME i \in LoopsOf(p) PROVE n # 1 /\ NthLoop(p, n - 1, i)
    <3> DEFINE a == Above(p, i)
    <3>1. a \in Nat /\ a + 1 = n - 1
      BY <1>5, <1>6, <2>1, <2>2
    <3> HIDE DEF a
    <3>2. n # 1 /\ a = n - 1 - 1
      BY <1>2, <3>1
    <3>3. QED
      BY <2>2, <3>2 DEF NthLoop, a
  <2>3. ASSUME i = Len(s) PROVE n = 1
    <3>1. n - 1 = 0
      BY <1>6, <2>3, AboveTop
    <3>2. QED
      BY <1>2, <3>1
  <2>4. QED
    BY <2>1, <2>2, <2>3
<1>10. QED
  BY <1>7, <1>8, <1>9 DEF p, t

(* What break n, continue n and SIGINT leave, with or without the top frame. *)
LEMMA JumpsCut ==
  ASSUME NEW s, StackOf(s), NEW n \in 1 .. Cardinality(LoopsOf(s)), NEW i, NthLoop(s, n, i)
  PROVE  /\ AfterBreak(s, n) = SubSeq(Flat(s), 1, i - 1)
         /\ AfterContinue(s, n) = SubSeq(Flat(s), 1, i)
  BY EnclosingIs DEF AfterBreak, AfterContinue, Promise!LeaveLoops, Promise!NextRoundOf, Promise!Upto

LEMMA BreakBelow ==
  ASSUME NEW s, StackOf(s), Len(s) >= 2, NEW n \in 1 .. Cardinality(LoopsOf(s))
  PROVE  /\ AfterBreak(s, n) = IF Last(s).kind \notin LoopKinds THEN AfterBreak(Below(s), n)
                               ELSE IF n = 1 THEN Flat(Below(s)) ELSE AfterBreak(Below(s), n - 1)
         /\ AfterContinue(s, n) = IF Last(s).kind \notin LoopKinds THEN AfterContinue(Below(s), n)
                                  ELSE IF n = 1 THEN Flat(s) ELSE AfterContinue(Below(s), n - 1)
<1> DEFINE p == Below(s)  k == IF Last(s).kind \in LoopKinds THEN n - 1 ELSE n
<1>1. /\ Len(s) \in Nat /\ s \in Seq(Frames) /\ StackOf(p) /\ Len(p) = Len(s) - 1
      /\ Cardinality(LoopsOf(s)) \in Nat /\ n \in Nat /\ n >= 1 /\ n <= Cardinality(LoopsOf(s))
  <2>1. Len(s) \in Nat /\ s \in Seq(Frames) /\ StackOf(p) /\ Len(p) = Len(s) - 1
    BY StackLeft, WithoutTop DEF StackOf, Below
  <2>2. Cardinality(LoopsOf(s)) \in Nat
    BY LoopsFinite, FS_CardinalityType
  <2>3. QED
    BY <2>1, <2>2
<1>2. PICK i \in 2 .. Len(s) : NthLoop(s, n, i)
  BY NthIs
<1>3. AfterBreak(s, n) = SubSeq(Flat(s), 1, i - 1) /\ AfterContinue(s, n) = SubSeq(Flat(s), 1, i)
  BY <1>2, JumpsCut
<1>4. CASE Last(s).kind \in LoopKinds /\ n = 1
  <2>1. i = Len(s)
    BY <1>2, <1>4, NthBelow
  <2>2. QED
    BY <1>1, <1>3, <1>4, <2>1, FlatBelow, FlatWhole
<1>5. CASE ~(Last(s).kind \in LoopKinds /\ n = 1)
  <2>1. NthLoop(p, k, i) /\ k \in 1 .. Cardinality(LoopsOf(p))
    <3> DEFINE a == Cardinality(LoopsOf(p))  b == Cardinality(LoopsOf(s))
    <3>1. NthLoop(p, k, i) /\ a = b - InLoops(Last(s).kind)
      BY <1>2, <1>5, NthBelow
    <3>2. b \in Nat /\ n <= b
      BY <1>1
    <3> HIDE DEF a, b
    <3>3. k \in 1 .. a
      BY <1>1, <1>5, <3>1, <3>2 DEF InLoops
    <3>4. QED
      BY <3>1, <3>3 DEF a
  <2>2. i \in LoopsOf(p) /\ LoopsOf(p) \subseteq 2 .. Len(p)
    BY <1>1, <2>1, LoopsFinite DEF NthLoop
  <2>3. i - 1 \in 0 .. Len(s) - 1 /\ i \in 0 .. Len(s) - 1
    BY <1>1, <2>2
  <2>4. AfterBreak(p, k) = SubSeq(Flat(p), 1, i - 1) /\ AfterContinue(p, k) = SubSeq(Flat(p), 1, i)
    BY <1>1, <2>1, JumpsCut
  <2>5. SubSeq(Flat(s), 1, i - 1) = SubSeq(Flat(p), 1, i - 1) /\ SubSeq(Flat(s), 1, i) = SubSeq(Flat(p), 1, i)
    BY <2>3, FlatBelow
  <2>6. AfterBreak(s, n) = AfterBreak(p, k) /\ AfterContinue(s, n) = AfterContinue(p, k)
    BY <1>3, <2>4, <2>5
  <2>7. QED
    BY <1>5, <2>6
<1>6. QED
  BY <1>4, <1>5

LEMMA InterruptIs ==
  ASSUME NEW s, StackOf(s)
  PROVE  AfterInterrupt(s) = IF LoopsOf(s) = {} THEN Flat(s) ELSE AfterBreak(s, Cardinality(LoopsOf(s)))
<1>1. /\ Len(s) \in Nat /\ DOMAIN s = 1 .. Len(s) /\ DOMAIN Flat(s) = 1 .. Len(s)
      /\ \A j \in 1 .. Len(s) : Flat(s)[j].kind = s[j].kind
  BY WithoutTop, LenProperties, FlatIs DEF StackOf
<1>2. Promise!LoopsOf(Flat(s)) = LoopsOf(s)
  BY <1>1 DEF Promise!LoopsOf, Promise!Loops, LoopsOf, LoopKinds
<1>3. QED
  BY <1>2, SameCardinality DEF AfterInterrupt, AfterBreak, Promise!AllLoops

LEMMA InterruptBelow ==
  ASSUME NEW s, StackOf(s), Len(s) >= 2, LoopsOf(s) # {}
  PROVE  AfterInterrupt(s) = AfterInterrupt(Below(s))
<1> DEFINE p == Below(s)  b == Cardinality(LoopsOf(s))  a == Cardinality(LoopsOf(p))
<1>1. /\ StackOf(p) /\ b \in Nat /\ b # 0
      /\ a \in Nat /\ (a = 0 <=> LoopsOf(p) = {})
  <2>1. StackOf(p)
    BY StackLeft DEF Below
  <2>2. QED
    BY <2>1, LevelBound
<1>2. b \in 1 .. b
  BY <1>1
<1>3. a = b - InLoops(Last(s).kind)
  <2>1. PICK i : NthLoop(s, b, i)
    BY <1>2, NthIs
  <2>2. QED
    BY <1>2, <2>1, NthBelow
<1>4. AfterInterrupt(s) = AfterBreak(s, b)
  BY InterruptIs
<1>5. AfterInterrupt(p) = IF LoopsOf(p) = {} THEN Flat(p) ELSE AfterBreak(p, a)
  BY <1>1, InterruptIs
<1>6. AfterBreak(s, b) = IF Last(s).kind \notin LoopKinds THEN AfterBreak(p, b)
                         ELSE IF b = 1 THEN Flat(p) ELSE AfterBreak(p, b - 1)
  BY <1>2, BreakBelow
<1> HIDE DEF a, b
<1>7. CASE Last(s).kind \notin LoopKinds
  <2>1. a = b
    BY <1>1, <1>3, <1>7 DEF InLoops
  <2>2. QED
    BY <1>1, <1>4, <1>5, <1>6, <1>7, <2>1
<1>8. CASE Last(s).kind \in LoopKinds
  <2>1. a = b - 1 /\ (b = 1 <=> a = 0)
    BY <1>1, <1>3, <1>8 DEF InLoops
  <2>2. QED
    BY <1>1, <1>4, <1>5, <1>6, <1>8, <2>1
<1>9. QED
  BY <1>7, <1>8

-----------------------------------------------------------------------------
(* What else the steps keep, if programs have no habits: only break and      *)
(* continue have a number, SIGINT finds no loop in its first round, and      *)
(* return does not leave an eval.                                            *)
Scopes == {"function", "source", "eval"}
ScopeOf(s) == CHOOSE i \in DOMAIN s :
                 /\ IsUnit(s[i]) \/ s[i].kind = "function"
                 /\ \A j \in (i + 1) .. Len(s) : ~IsUnit(s[j]) /\ s[j].kind # "function"

LEMMA ScopeOfIs ==
  ASSUME NEW s, StackOf(s), NEW i, Nearest(s, Scopes, i)
  PROVE  ScopeOf(s) = i
<1> DEFINE P(x) == /\ IsUnit(s[x]) \/ s[x].kind = "function"
                   /\ \A j \in (x + 1) .. Len(s) : ~IsUnit(s[j]) /\ s[j].kind # "function"
<1>1. DOMAIN s = 1 .. Len(s)
  BY LenProperties DEF StackOf
<1>2. \A x : Nearest(s, Scopes, x) <=> x \in DOMAIN s /\ P(x)
  BY <1>1 DEF Nearest, Scopes, IsUnit
<1>3. ScopeOf(s) = CHOOSE x \in DOMAIN s : P(x)
  BY DEF ScopeOf
<1> HIDE DEF P
<1>4. Nearest(s, Scopes, ScopeOf(s))
  BY <1>2, <1>3
<1>5. "source" \in Scopes
  BY DEF Scopes
<1>6. QED
  BY <1>4, <1>5, NearestIs

\* The kind of the frame that return leaves.
ScopeKind(s) == s[ScopeOf(s)].kind

LEMMA ScopeBelow ==
  ASSUME NEW s, StackOf(s), Len(s) >= 2, ~IsScope(Last(s))
  PROVE  ScopeKind(s) = ScopeKind(Below(s))
<1>1. PICK i \in 1 .. Len(s) : Nearest(s, Scopes, i)
  BY NearestIs DEF Scopes
<1>2. Last(s).kind \notin Scopes
  BY DEF IsScope, IsUnit, Scopes
<1>3. Nearest(Below(s), Scopes, i) /\ i \in 1 .. Len(s) - 1
  BY <1>1, <1>2, NearestBelow
<1>4. StackOf(Below(s)) /\ Below(s)[i] = s[i]
  BY <1>3, StackLeft, WithoutTop DEF StackOf, Below
<1>5. QED
  BY <1>1, <1>3, <1>4, ScopeOfIs DEF ScopeKind

Marked(f, sig) ==
    /\ f.kind \notin {"break", "continue"} => f.n = 0
    /\ sig /\ f.kind \in LoopKinds => f.kind = "for" \/ f.res # 0
Script == return_set \/ Top.kind = "return" => ScopeKind(stack) # "eval"
HabitInv == (\A i \in 1 .. Len(stack) : Marked(stack[i], signal_received)) /\ Script

SameMore ==
    /\ stack' = stack /\ (return_set' => return_set)
    /\ signal_received' => signal_received \/ Jumpable(LoopsOf(stack), Outermost(LoopsOf(stack)))
PushedMore == \E f \in Frames :
    /\ stack' = Append(stack, f) /\ pc = "run" /\ UNCHANGED <<return_set, signal_received>>
    /\ f.kind \notin {"break", "continue"} => f.n = 0
    /\ f.kind \in LoopKinds => ~signal_received
    /\ f.kind = "return" => MayReturn
LeftMore ==
    /\ stack' = Popped /\ Len(stack) >= 2
    /\ signal_received' => signal_received
    /\ return_set' => Top.kind = "return" \/ (return_set /\ ~IsScope(Top))
AgainMore == \E f \in Frames :
    /\ stack' = WithTop(f) /\ f.kind = Top.kind /\ Top.kind \in LoopKinds \cup {"if"}
    /\ f.n = Top.n \/ f.n = 0
    /\ f.res = Top.res \/ f.res = 1
    /\ UNCHANGED <<return_set, signal_received>>

LEMMA MovesMore ==
  ASSUME Programs = {}, TypeInv, [Next]_vars
  PROVE  SameMore \/ PushedMore \/ LeftMore \/ AgainMore
<1>1. /\ StackOf(stack) /\ Top \in Frames
      /\ Len(stack) >= 2 \/ (Len(stack) = 1 /\ Top = Unit)
      /\ ~IsUnit(Top) => Len(stack) >= 2
  BY Basics, NewFrames
<1>2. CASE Simple
  <2>1. Frame("command", 0) \in Frames /\ Frame("command", 0).kind = "command" /\ Frame("command", 0).n = 0
    BY NewFrames, KindFacts, EvaluatorAssumption
  <2>2. QED
    BY <1>2, <2>1, KindFacts DEF Simple, Begin, flags, PushedMore, LoopKinds
<1>3. CASE ReturnCommand
  <2>1. Frame("return", 0) \in Frames /\ Frame("return", 0).kind = "return" /\ Frame("return", 0).n = 0
    BY NewFrames, KindFacts, EvaluatorAssumption
  <2>2. QED
    BY <1>3, <2>1, KindFacts DEF ReturnCommand, Begin, flags, PushedMore, LoopKinds
<1>4. ASSUME NEW k \in {"break", "continue"}, NEW n \in 1 .. MaxCount, Jump(k, n) PROVE PushedMore
  <2>1. n \in 0 .. MaxCount
    BY EvaluatorAssumption
  <2>2. Frame(k, n) \in Frames /\ Frame(k, n).kind = k
    BY <2>1, NewFrames, KindFacts, EvaluatorAssumption
  <2>3. QED
    BY <1>4, <2>2, KindFacts DEF Jump, Begin, flags, PushedMore, LoopKinds
<1>5. ASSUME NEW k \in Compound, Enter(k) PROVE PushedMore
  <2>1. Frame(k, 0) \in Frames /\ Frame(k, 0).kind = k /\ Frame(k, 0).n = 0 /\ k # "return"
    BY NewFrames, KindFacts, EvaluatorAssumption
  <2>2. k \in LoopKinds => ~signal_received
    BY <1>5 DEF Enter, MayEnter
  <2>3. stack' = Append(stack, Frame(k, 0)) /\ pc = "run" /\ UNCHANGED <<return_set, signal_received>>
    BY <1>5 DEF Enter, Begin, flags
  <2> DEFINE f == Frame(k, 0)
  <2> HIDE DEF f
  <2>4. f \in Frames /\ f.kind = k /\ f.n = 0 /\ stack' = Append(stack, f)
    BY <2>1, <2>3 DEF f
  <2>5. QED
    BY <2>1, <2>2, <2>3, <2>4 DEF PushedMore
<1>6. CASE Run \/ CannotRun \/ OutsideLoop \/ Break \/ Continue \/ Return
  <2>1. /\ Top.kind = "command" \/ Top.kind = "break" \/ Top.kind = "continue" \/ Top.kind = "return"
        /\ stack' = Popped /\ UNCHANGED signal_received
        /\ UNCHANGED return_set \/ Top.kind = "return"
    BY <1>6 DEF Run, CannotRun, OutsideLoop, Break, Continue, Return, CommandDone, flags
  <2>2. ~IsUnit(Top) /\ ~IsScope(Top)
    BY <2>1, KindFacts DEF IsScope
  <2>3. QED
    BY <1>1, <2>1, <2>2 DEF LeftMore
<1>7. CASE \/ Interrupt \/ NextCommand \/ ListEnds \/ FallThrough \/ NextLine \/ NewUnit
           \/ UNCHANGED vars
  BY <1>7 DEF Interrupt, NextCommand, ListEnds, FallThrough, NextLine, NewUnit, vars, flags, SameMore
<1>8. CASE LeaveGroup \/ LeaveCase \/ LeaveFunction
  <2>1. /\ Top.kind \in {"group", "list", "case", "function"}
        /\ stack' = Popped /\ UNCHANGED signal_received
        /\ return_set' => return_set /\ Top.kind # "function"
    BY <1>8 DEF LeaveGroup, LeaveCase, LeaveFunction, Leave, flags
  <2>2. ~IsUnit(Top) /\ (IsScope(Top) => Top.kind = "function")
    BY <2>1, KindFacts DEF IsScope
  <2>3. QED
    BY <1>1, <2>1, <2>2 DEF LeftMore
<1>9. CASE LeaveUnit
  <2>1. stack' = Popped /\ Len(stack) >= 2 /\ ~signal_received' /\ ~return_set'
    BY <1>1, <1>9 DEF LeaveUnit, Leave
  <2>2. QED
    BY <2>1 DEF LeftMore
<1>10. CASE If
  <2>1. Top.kind = "if" /\ UNCHANGED <<return_set, signal_received>>
    BY <1>10 DEF If, flags
  <2>2. ~IsUnit(Top) /\ ~IsScope(Top)
    BY <2>1, KindFacts DEF IsScope
  <2>3. CASE stack' = Popped
    BY <1>1, <2>1, <2>2, <2>3 DEF LeftMore
  <2>4. CASE stack' = WithTop([Top EXCEPT !.phase = IF TestSays THEN "then" ELSE "else"])
    <3> DEFINE f == [Top EXCEPT !.phase = IF TestSays THEN "then" ELSE "else"]
    <3>1. f \in Frames /\ f.kind = Top.kind /\ f.n = Top.n /\ f.res = Top.res
      BY <1>1 DEF Frames
    <3> HIDE DEF f
    <3>2. stack' = WithTop(f)
      BY <2>4 DEF f
    <3>3. QED
      BY <2>1, <3>1, <3>2 DEF AgainMore
  <2>5. QED
    BY <1>10, <2>3, <2>4 DEF If, Leave
<1>11. CASE LoopTest \/ BodyStops \/ BreakLoop \/ ContinueOuter \/ NextRound
  <2>1. Top.kind \in LoopKinds /\ UNCHANGED <<return_set, signal_received>>
    BY <1>11 DEF LoopTest, BodyStops, BreakLoop, ContinueOuter, NextRound, BodyEnds, InLoop, flags
  <2>2. ~IsUnit(Top) /\ ~IsScope(Top)
    BY <2>1, KindFacts DEF IsScope, LoopKinds
  <2>3. CASE stack' = Popped
    BY <1>1, <2>1, <2>2, <2>3 DEF LeftMore
  <2>4. CASE stack' = WithTop([Top EXCEPT !.phase = "body"])
    <3> DEFINE f == [Top EXCEPT !.phase = "body"]
    <3>1. f \in Frames /\ f.kind = Top.kind /\ f.n = Top.n /\ f.res = Top.res
      BY <1>1 DEF Frames
    <3> HIDE DEF f
    <3>2. stack' = WithTop(f)
      BY <2>4 DEF f
    <3>3. QED
      BY <2>1, <3>1, <3>2 DEF AgainMore
  <2>5. CASE stack' = WithTop([Frame(Top.kind, 0) EXCEPT !.res = 1])
    <3> DEFINE f == [Frame(Top.kind, 0) EXCEPT !.res = 1]
    <3>1. f \in Frames /\ f.kind = Top.kind /\ f.n = 0 /\ f.res = 1
      BY <1>1, EvaluatorAssumption DEF Frames, Frame
    <3> HIDE DEF f
    <3>2. stack' = WithTop(f)
      BY <2>5 DEF f
    <3>3. QED
      BY <2>1, <3>1, <3>2 DEF AgainMore
  <2>6. QED
    BY <1>11, <2>3, <2>4, <2>5 DEF LoopTest, BodyStops, BreakLoop, ContinueOuter, NextRound, LeaveLoop, Leave
<1>12. QED
  BY <1>2, <1>3, <1>4, <1>5, <1>6, <1>7, <1>8, <1>9, <1>10, <1>11 DEF Next

LEMMA OtherIn ==
  \A l \in Nat : \A i \in 1 .. l : i # l => i \in 1 .. l - 1
  OBVIOUS

LEMMA HabitStep ==
  ASSUME Programs = {}, TypeInv, TypeInv', PendInv, HabitInv, [Next]_vars
  PROVE  HabitInv'
<1>1. /\ StackOf(stack) /\ StackOf(stack') /\ stack \in Seq(Frames) /\ stack # <<>>
      /\ Len(stack) \in Nat /\ Len(stack) >= 1 /\ Top \in Frames
      /\ Top = Last(stack) /\ Top' = Last(stack') /\ Popped = Below(stack)
      /\ DOMAIN stack = 1 .. Len(stack) /\ Len(stack) \in 1 .. Len(stack)
  BY Basics, LenProperties DEF TypeInv, LevelInv, StackOf, Top, Last, Popped, Below
<1> DEFINE sig  == signal_received
           sig2 == signal_received'
<1>2. /\ \A i \in 1 .. Len(stack) : Marked(stack[i], sig)
      /\ return_set \/ Top.kind = "return" => ScopeKind(stack) # "eval"
  BY DEF HabitInv, Script
<1>3. SUFFICES /\ \A i \in 1 .. Len(stack') : Marked(stack'[i], sig2)
               /\ return_set' \/ Top'.kind = "return" => ScopeKind(stack') # "eval"
  BY DEF HabitInv, Script
<1> HIDE DEF sig, sig2
<1>4. CASE SameMore
  <2>1. stack' = stack /\ Top' = Top /\ (return_set' => return_set)
    BY <1>4 DEF SameMore, Top
  <2>2. CASE sig2 => sig
    <3>1. \A i \in 1 .. Len(stack) : Marked(stack[i], sig2)
      BY <1>2, <2>2 DEF Marked
    <3>2. QED
      BY <1>2, <2>1, <3>1
  <2>3. CASE ~(sig2 => sig)
    <3>1. Jumpable(LoopsOf(stack), Outermost(LoopsOf(stack)))
      BY <1>4, <2>3 DEF SameMore, sig, sig2
    <3>2. \A i \in LoopsOf(stack) : ~FirstRound(i)
      BY <3>1 DEF Jumpable
    <3>3. \A i \in 1 .. Len(stack) : Marked(stack[i], sig2)
      BY <1>1, <1>2, <3>2 DEF Marked, LoopsOf, FirstRound
    <3>4. QED
      BY <1>2, <2>1, <3>3
  <2>4. QED
    BY <2>2, <2>3
<1>5. CASE PushedMore
  <2>1. PICK f \in Frames :
           /\ stack' = Append(stack, f) /\ pc = "run" /\ UNCHANGED <<return_set, signal_received>>
           /\ f.kind \notin {"break", "continue"} => f.n = 0
           /\ f.kind \in LoopKinds => ~signal_received
           /\ f.kind = "return" => MayReturn
    BY <1>5 DEF PushedMore
  <2>2. /\ Len(stack') = Len(stack) + 1 /\ stack'[Len(stack) + 1] = f
        /\ \A i \in 1 .. Len(stack) : stack'[i] = stack[i]
    BY <1>1, <2>1, WithFrame
  <2>3. sig2 = sig /\ (f.kind \in LoopKinds => ~sig)
    BY <2>1 DEF sig, sig2
  <2>4. ASSUME NEW i \in 1 .. Len(stack') PROVE Marked(stack'[i], sig2)
    <3>1. CASE i = Len(stack) + 1
      BY <2>1, <2>2, <2>3, <3>1 DEF Marked
    <3>2. CASE i # Len(stack) + 1
      <4>1. i \in 1 .. Len(stack)
        BY <1>1, <2>2, <3>2
      <4>2. QED
        BY <1>2, <2>2, <2>3, <4>1
    <3>3. QED
      BY <3>1, <3>2
  <2>5. ~return_set' /\ Last(stack') = f /\ Below(stack') = stack /\ Len(stack') >= 2
    <3>1. ~return_set
      BY <2>1 DEF PendInv, Quiet
    <3>2. Top' = f /\ Popped' = stack
      BY <1>1, <2>1, TopAfter
    <3>3. Popped' = Below(stack')
      BY DEF Popped, Below
    <3>4. ~return_set'
      BY <2>1, <3>1
    <3>5. Len(stack') >= 2
      BY <1>1, <2>2
    <3>6. QED
      BY <1>1, <3>2, <3>3, <3>4, <3>5
  <2>6. ASSUME f.kind = "return" PROVE ScopeKind(stack') # "eval"
    <3>1. ScopeKind(stack) # "eval"
      BY <2>1, <2>6 DEF MayReturn, Scope, ScopeKind, ScopeOf
    <3>2. ~IsScope(f)
      BY <2>6, KindFacts DEF IsScope
    <3>3. QED
      BY <1>1, <2>5, <3>1, <3>2, ScopeBelow
  <2>7. QED
    BY <1>1, <2>4, <2>5, <2>6
<1>6. CASE LeftMore
  <2>1. /\ stack' = Below(stack) /\ Len(stack) >= 2 /\ (sig2 => sig)
        /\ return_set' => Top.kind = "return" \/ (return_set /\ ~IsScope(Top))
    BY <1>1, <1>6 DEF LeftMore, sig, sig2
  <2>2. Len(stack') = Len(stack) - 1 /\ \A i \in 1 .. Len(stack) - 1 : stack'[i] = stack[i]
    BY <1>1, <2>1, WithoutTop DEF Below
  <2>3. ASSUME NEW i \in 1 .. Len(stack') PROVE Marked(stack'[i], sig2)
    <3>1. i \in 1 .. Len(stack) - 1 /\ i \in 1 .. Len(stack)
      BY <1>1, <2>2
    <3>2. Marked(stack[i], sig)
      BY <1>2, <3>1
    <3>3. QED
      BY <2>1, <2>2, <3>1, <3>2 DEF Marked
  <2>4. Top'.kind # "return"
    BY <1>1, <1>6, TopAfter, KindFacts DEF LeftMore
  <2>5. ASSUME return_set' PROVE ScopeKind(stack') # "eval"
    <3>1. ~IsScope(Last(stack)) /\ ScopeKind(stack) # "eval"
      BY <1>1, <1>2, <2>1, <2>5, KindFacts DEF IsScope
    <3>2. QED
      BY <1>1, <2>1, <3>1, ScopeBelow
  <2>6. QED
    BY <2>3, <2>4, <2>5
<1>7. CASE AgainMore
  <2>1. PICK f \in Frames :
           /\ stack' = WithTop(f) /\ f.kind = Top.kind /\ Top.kind \in LoopKinds \cup {"if"}
           /\ f.n = Top.n \/ f.n = 0
           /\ f.res = Top.res \/ f.res = 1
           /\ UNCHANGED <<return_set, signal_received>>
    BY <1>7 DEF AgainMore
  <2>2. /\ Len(stack') = Len(stack) /\ stack'[Len(stack)] = f
        /\ \A i \in 1 .. Len(stack) - 1 : stack'[i] = stack[i]
    BY <1>1, <2>1, WithOther DEF WithTop, Popped
  <2>3. Marked(f, sig)
    <3>1. Marked(Top, sig)
      BY <1>1, <1>2 DEF Top
    <3>2. QED
      BY <2>1, <3>1 DEF Marked
  <2>4. ASSUME NEW i \in 1 .. Len(stack') PROVE Marked(stack'[i], sig2)
    <3>1. sig2 = sig
      BY <2>1 DEF sig, sig2
    <3>2. CASE i = Len(stack)
      BY <2>2, <2>3, <3>1, <3>2
    <3>3. CASE i # Len(stack)
      <4>0. i \in 1 .. Len(stack)
        BY <2>2
      <4>1. i \in 1 .. Len(stack) - 1 /\ i \in 1 .. Len(stack)
        BY <1>1, <3>3, <4>0, OtherIn
      <4>2. QED
        BY <1>2, <2>2, <3>1, <4>1
    <3>4. QED
      BY <3>2, <3>3
  <2>5. Top' = f /\ Popped' = Popped
    BY <1>1, <2>1, TopAfter
  <2>6. f.kind # "return" /\ ~IsScope(f) /\ ~IsScope(Top)
    BY <2>1, KindFacts DEF IsScope, LoopKinds
  <2>7. Len(stack) >= 2
    BY <1>1, <2>1, Basics, NewFrames, KindFacts DEF LoopKinds
  <2>8. ScopeKind(stack') = ScopeKind(stack)
    <3>1. Last(stack') = f /\ Below(stack') = Popped
      BY <1>1, <2>5 DEF Popped, Below
    <3>2. ScopeKind(stack) = ScopeKind(Popped)
      BY <1>1, <2>6, <2>7, ScopeBelow
    <3>3. ScopeKind(stack') = ScopeKind(Popped)
      BY <1>1, <2>2, <2>6, <2>7, <3>1, ScopeBelow
    <3>4. QED
      BY <3>2, <3>3
  <2>9. QED
    BY <1>2, <2>1, <2>4, <2>5, <2>6, <2>8
<1>8. QED
  BY <1>4, <1>5, <1>6, <1>7, MovesMore

LEMMA HabitInit == ASSUME Init PROVE HabitInv
<1>1. stack = <<Unit>> /\ ~return_set /\ ~signal_received
  BY DEF Init
<1>2. Len(stack) = 1 /\ stack[1] = Unit /\ Top = Unit
  BY <1>1 DEF Top
<1>3. Unit.kind = "source" /\ Unit.n = 0
  BY DEF Unit, Frame
<1>4. QED
  BY <1>1, <1>2, <1>3 DEF HabitInv, Script, Marked

-----------------------------------------------------------------------------
(* Where the stack is going, and whether the interruption is still felt.     *)
Course(s, p, rs, r, sig, rb, rc) ==
    IF p = "run"    THEN Flat(s)
    ELSE IF rs      THEN AfterReturn(s)
    ELSE IF r = 0   THEN AfterFailure(s)
    ELSE IF sig     THEN AfterInterrupt(s)
    ELSE IF rb # 0  THEN AfterBreak(s, rb)
    ELSE IF rc # 0  THEN AfterContinue(s, rc)
    ELSE Flat(s)
Felt(s, p, rs, sig) == sig /\ (p = "run" \/ ~rs \/ ScopeKind(s) # "source")

\* What the counters say of the loops of s.
Count(s, sig, rb, rc) ==
    LET l == Cardinality(LoopsOf(s)) IN
    /\ rb \in Nat /\ rc \in Nat /\ (rb = 0 \/ rc = 0)
    /\ IF sig THEN rb >= l /\ rc = 0 ELSE rb <= l /\ rc <= l

LEMMA Counted ==
  ASSUME TypeInv, PendInv
  PROVE  Count(stack, signal_received, req_break, req_continue)
  BY Basics DEF PendInv, Within, OneRequest, Count, LevelInv, LevelCounts

LEMMA CountedNext ==
  ASSUME TypeInv', PendInv'
  PROVE  Count(stack', signal_received', req_break', req_continue')
<1>1. /\ req_break' \in Nat /\ req_continue' \in Nat
      /\ cur_loop_level' = Cardinality(LoopsOf(stack'))
  BY EvaluatorAssumption DEF TypeInv, LevelInv, LevelCounts
<1>2. QED
  BY <1>1 DEF PendInv, Within, OneRequest, Count

\* As Settled has it, with a level l: a request outside all loops is none.
Way(s, p, rs, r, sig, rb, rc, l) ==
    LET rq == l # 0 /\ (rb # 0 \/ rc # 0) IN
    IF p = "run"           THEN Flat(s)
    ELSE IF rs             THEN AfterReturn(s)
    ELSE IF r = 0          THEN AfterFailure(s)
    ELSE IF rq /\ sig      THEN AfterInterrupt(s)
    ELSE IF rq /\ rb # 0   THEN AfterBreak(s, rb)
    ELSE IF rq             THEN AfterContinue(s, rc)
    ELSE Flat(s)

LEMMA CourseIs ==
  ASSUME NEW s, StackOf(s), NEW p, NEW rs, NEW r, NEW sig \in BOOLEAN, NEW rb, NEW rc, Count(s, sig, rb, rc)
  PROVE  Course(s, p, rs, r, sig, rb, rc) = Way(s, p, rs, r, sig, rb, rc, Cardinality(LoopsOf(s)))
<1> DEFINE l == Cardinality(LoopsOf(s))
<1>1. l \in Nat /\ (l = 0 <=> LoopsOf(s) = {})
  BY LevelBound
<1>2. l = 0 => AfterInterrupt(s) = Flat(s)
  BY <1>1, InterruptIs
<1>3. /\ rb \in Nat /\ rc \in Nat /\ (rb = 0 \/ rc = 0)
      /\ IF sig THEN rb >= l /\ rc = 0 ELSE rb <= l /\ rc <= l
  BY DEF Count
<1> HIDE DEF l
<1>4. /\ sig => (rb = 0 => l = 0) /\ rc = 0
      /\ ~sig => (rb # 0 => l # 0) /\ (rc # 0 => l # 0)
  BY <1>1, <1>3
<1>5. QED
  BY <1>2, <1>4 DEF Course, Way, l

LEMMA SettledIs ==
  ASSUME TypeInv, PendInv
  PROVE  /\ Settled = Course(stack, pc, return_set, result, signal_received, req_break, req_continue)
         /\ Interrupted = Felt(stack, pc, return_set, signal_received)
<1>1. StackOf(stack) /\ signal_received \in BOOLEAN /\ cur_loop_level = Cardinality(LoopsOf(stack))
  BY DEF TypeInv, LevelInv, LevelCounts
<1>2. Settled = Way(stack, pc, return_set, result, signal_received, req_break, req_continue, cur_loop_level)
  BY DEF Settled, Shape, Flat, AfterReturn, AfterFailure, AfterInterrupt, AfterBreak, AfterContinue, Requested, Way
<1>4. Settled = Course(stack, pc, return_set, result, signal_received, req_break, req_continue)
  BY <1>1, <1>2, Counted, CourseIs
<1>5. Interrupted = Felt(stack, pc, return_set, signal_received)
  BY DEF Interrupted, Felt, Scope, ScopeKind, ScopeOf
<1>6. QED
  BY <1>4, <1>5

LEMMA SettledNext ==
  ASSUME TypeInv', PendInv'
  PROVE  /\ Settled' = Course(stack', pc', return_set', result', signal_received', req_break', req_continue')
         /\ Interrupted' = Felt(stack', pc', return_set', signal_received')
<1>1. StackOf(stack') /\ signal_received' \in BOOLEAN /\ cur_loop_level' = Cardinality(LoopsOf(stack'))
  BY DEF TypeInv, LevelInv, LevelCounts
<1>2. Settled' = Way(stack', pc', return_set', result', signal_received', req_break', req_continue', cur_loop_level')
  BY DEF Settled, Shape, Flat, AfterReturn, AfterFailure, AfterInterrupt, AfterBreak, AfterContinue, Requested, Way
<1>4. Settled' = Course(stack', pc', return_set', result', signal_received', req_break', req_continue')
  BY <1>1, <1>2, CountedNext, CourseIs
<1>5. Interrupted' = Felt(stack', pc', return_set', signal_received')
  BY DEF Interrupted, Felt, Scope, ScopeKind, ScopeOf
<1>6. QED
  BY <1>4, <1>5

(* The steps of Unwinding, on the stack that is left.                        *)
LEMMA PromiseIs ==
  ASSUME StackOf(stack), Settled = Flat(stack)
  PROVE  /\ Len(Settled) = Len(stack) /\ U!Top.kind = Top.kind /\ U!Top.n = Top.n
         /\ U!LoopsOf(Settled) = LoopsOf(stack)
         /\ U!Simple <=> IsCommand(Top)
<1>1. /\ Len(stack) \in Nat /\ Len(stack) >= 1 /\ DOMAIN stack = 1 .. Len(stack)
      /\ DOMAIN Flat(stack) = 1 .. Len(stack) /\ Len(Flat(stack)) = Len(stack)
      /\ \A i \in 1 .. Len(stack) : Flat(stack)[i].kind = stack[i].kind /\ Flat(stack)[i].n = stack[i].n
  BY WithoutTop, LenProperties, FlatIs DEF StackOf
<1>2. Len(stack) \in 1 .. Len(stack)
  BY <1>1
<1>3. U!Top.kind = Top.kind /\ U!Top.n = Top.n
  BY <1>1, <1>2 DEF U!Top, Top
<1>4. U!LoopsOf(Settled) = LoopsOf(stack)
  BY <1>1 DEF U!LoopsOf, U!Loops, LoopsOf, LoopKinds
<1>5. U!Simple <=> IsCommand(Top)
  BY <1>3 DEF U!Simple, U!Jumps, IsCommand
<1>6. QED
  BY <1>1, <1>3, <1>4, <1>5

LEMMA Begun ==
  ASSUME StackOf(stack), Settled = Flat(stack), ~IsCommand(Top),
         Interrupted => LoopsOf(stack) = {}, Interrupted' = Interrupted,
         NEW k, NEW n, Settled' = Append(Flat(stack), [kind |-> k, n |-> n])
  PROVE  U!Begin(k, n)
  BY PromiseIs DEF U!Begin, U!MayRun, U!Frame

LEMMA Completed ==
  ASSUME StackOf(stack), Len(stack) >= 2, Settled = Flat(stack), Settled' = Flat(Below(stack)),
         Top.kind \notin {"break", "continue", "return"},
         Interrupted' = Interrupted \/ (IsUnit(Top) /\ Interrupted' = FALSE)
  PROVE  U!Next
<1>1. SubSeq(Settled, 1, Len(Settled) - 1) = Flat(Below(stack))
  BY FlatBelow, PromiseIs
<1>2. Len(Settled) > 1
  BY PromiseIs, WithoutTop DEF StackOf
<1>3. U!Complete
  BY <1>1, <1>2, PromiseIs DEF U!Complete, U!Upto, U!Jumps, IsUnit
<1>4. QED
  BY <1>3 DEF U!Next

LEMMA Failed ==
  ASSUME StackOf(stack), Settled = Flat(stack), Settled' = AfterFailure(stack), IsCommand(Top),
         Top.kind \in {"break", "continue"} => LoopsOf(stack) = {}, Interrupted' = Interrupted
  PROVE  U!Next
<1>1. U!Abandon(Settled) = AfterFailure(stack)
  <2>1. \A f : U!Abandon(f) = Promise!Abandon(f)
    BY DEF U!Abandon, U!Upto, Promise!Abandon, Promise!Upto
  <2>2. QED
    BY <2>1 DEF AfterFailure
<1>2. U!Fail
  BY <1>1, PromiseIs DEF U!Fail, U!Jumps
<1>3. QED
  BY <1>2 DEF U!Next

LEMMA SameCounts == \A S : U!Cardinality(S) = Promise!Cardinality(S)
  BY DEF U!Cardinality, Promise!Cardinality

LEMMA Jumped ==
  ASSUME StackOf(stack), Settled = Flat(stack), LoopsOf(stack) # {}, Interrupted' = Interrupted,
         \/ Top.kind = "break" /\ Settled' = AfterBreak(stack, Top.n)
         \/ Top.kind = "continue" /\ Settled' = AfterContinue(stack, Top.n)
  PROVE  U!Next
<1>1. \A s, n : U!Enclosing(s, n) = Promise!Enclosing(s, n)
  BY SameCounts DEF U!Enclosing, U!LoopsOf, U!Loops, U!Least, Promise!Enclosing, Promise!LoopsOf, Promise!Loops, Promise!Least
<1>2. /\ U!LeaveLoops(Settled, Top.n) = AfterBreak(stack, Top.n)
      /\ U!NextRoundOf(Settled, Top.n) = AfterContinue(stack, Top.n)
  BY <1>1 DEF U!LeaveLoops, U!NextRoundOf, U!Upto, AfterBreak, AfterContinue,
              Promise!LeaveLoops, Promise!NextRoundOf, Promise!Upto
<1>3. U!Break \/ U!Continue
  BY <1>2, PromiseIs DEF U!Break, U!Continue
<1>4. QED
  BY <1>3 DEF U!Next

LEMMA Returned ==
  ASSUME StackOf(stack), Settled = Flat(stack), Settled' = AfterReturn(stack), Top.kind = "return",
         Interrupted' = Interrupted \/ (ScopeKind(stack) = "source" /\ Interrupted' = FALSE)
  PROVE  U!Next
<1>1. U!LeaveFunction(Settled) = AfterReturn(stack)
  BY DEF U!LeaveFunction, U!Scope, U!Upto, AfterReturn, Promise!LeaveFunction, Promise!Scope, Promise!Upto
<1>2. ScopeKind(stack) = "source" => Settled[U!Scope(Settled)].kind = "source"
  <2> SUFFICES ASSUME ScopeKind(stack) = "source" PROVE Settled[U!Scope(Settled)].kind = "source"
    OBVIOUS
  <2>1. PICK i \in 1 .. Len(stack) : Nearest(stack, Scopes, i)
    BY NearestIs DEF Scopes
  <2>2. stack[i].kind = "source"
    BY <2>1, ScopeOfIs DEF ScopeKind
  <2>3. Nearest(stack, Scripts, i)
    BY <2>1, <2>2 DEF Nearest, Scopes, Scripts
  <2>4. Promise!Scope(Flat(stack)) = i
    BY <2>3, ScopeIs
  <2>5. U!Scope(Settled) = i
    BY <2>4 DEF U!Scope, Promise!Scope
  <2>6. Settled[i].kind = "source"
    BY <2>2, FlatIs DEF StackOf
  <2>7. QED
    BY <2>5, <2>6
<1>3. U!Return
  BY <1>1, <1>2, PromiseIs DEF U!Return
<1>4. QED
  BY <1>3 DEF U!Next

\* The interruption leaves the loops of s, which is what is left of the stack.
LEMMA LeftInterrupted ==
  ASSUME NEW s, Settled = Flat(s), Settled' = AfterInterrupt(s), Interrupted, Interrupted' = Interrupted
  PROVE  U!Next
<1>1. \A f, n : U!LeaveLoops(f, n) = Promise!LeaveLoops(f, n)
  BY SameCounts DEF U!LeaveLoops, U!Upto, U!Enclosing, U!LoopsOf, U!Loops, U!Least,
         Promise!LeaveLoops, Promise!Upto, Promise!Enclosing, Promise!LoopsOf, Promise!Loops, Promise!Least
<1>2. \A f : U!LoopsOf(f) = Promise!LoopsOf(f)
  BY DEF U!LoopsOf, U!Loops, Promise!LoopsOf, Promise!Loops
<1>3. U!AllLoops(Settled) = AfterInterrupt(s)
  BY <1>1, <1>2, SameCounts DEF U!AllLoops, AfterInterrupt, Promise!AllLoops
<1>4. U!LeaveInterrupted
  BY <1>3 DEF U!LeaveInterrupted
<1>5. QED
  BY <1>4 DEF U!Next

(* A step of the evaluator does what a step of Unwinding does, or nothing    *)
(* that shows.                                                               *)
Sound    == TypeInv /\ PendInv /\ HabitInv
Promised == U!Next \/ UNCHANGED <<Settled, Interrupted>>

\* SIGINT, with or without the top frame.
LEMMA InterruptGoes ==
  ASSUME NEW s, StackOf(s), Len(s) >= 2
  PROVE  \/ AfterInterrupt(s) = AfterInterrupt(Below(s))
         \/ LoopsOf(s) = {} /\ AfterInterrupt(s) = Flat(s) /\ AfterInterrupt(Below(s)) = Flat(Below(s))
<1>1. CASE LoopsOf(s) = {}
  <2>1. StackOf(Below(s)) /\ s = Append(Below(s), Last(s)) /\ Last(s) \in Frames
    BY StackLeft DEF Below, Last
  <2>2. LoopsOf(s) = LoopsOf(Below(s)) \cup (IF Last(s).kind \in LoopKinds THEN {Len(Below(s)) + 1} ELSE {})
    BY <2>1, LoopsPushed DEF StackOf
  <2>3. LoopsOf(Below(s)) = {}
    BY <1>1, <2>2
  <2>4. QED
    BY <1>1, <2>1, <2>3, InterruptIs
<1>2. CASE LoopsOf(s) # {}
  BY <1>2, InterruptBelow
<1>3. QED
  BY <1>1, <1>2

LEMMA CoursePops ==
  ASSUME NEW s, StackOf(s), Len(s) >= 2, Last(s).kind \notin LoopKinds \cup Holders, NEW p, p # "run",
         NEW rs, NEW r, NEW sig \in BOOLEAN, NEW rb, NEW rc, Count(s, sig, rb, rc)
  PROVE  LET a == Course(s, p, rs, r, sig, rb, rc)  b == Course(Below(s), "ran", rs, r, sig, rb, rc) IN
         a = b \/ (a = Flat(s) /\ b = Flat(Below(s)))
<1> DEFINE a == Course(s, p, rs, r, sig, rb, rc)  b == Course(Below(s), "ran", rs, r, sig, rb, rc)
<1>1. /\ Last(s).kind \notin LoopKinds /\ Last(s).kind \notin Scripts /\ Last(s).kind \notin Holders
      /\ ~IsUnit(Last(s)) /\ Last(s).kind # "function"
  BY DEF Scripts, Holders, IsUnit
<1>2. AfterReturn(s) = AfterReturn(Below(s)) /\ AfterFailure(s) = AfterFailure(Below(s))
  BY <1>1, ReturnBelow, FailureBelow
<1>3. CASE rs \/ r = 0 \/ sig
  BY <1>2, <1>3, InterruptGoes DEF Course
<1>4. CASE ~rs /\ r # 0 /\ ~sig
  <2>1. /\ rb # 0 => rb \in 1 .. Cardinality(LoopsOf(s))
        /\ rc # 0 => rc \in 1 .. Cardinality(LoopsOf(s))
    <3>1. Cardinality(LoopsOf(s)) \in Nat
      BY LevelBound
    <3>2. QED
      BY <1>4, <3>1 DEF Count
  <2>2. /\ rb # 0 => AfterBreak(s, rb) = AfterBreak(Below(s), rb)
        /\ rc # 0 => AfterContinue(s, rc) = AfterContinue(Below(s), rc)
    BY <1>1, <2>1, BreakBelow
  <2>3. QED
    BY <1>4, <2>2 DEF Course
<1>5. QED
  BY <1>3, <1>4

\* A frame that neither runs commands in a loop nor holds failures up is left.
LEMMA Onward ==
  ASSUME Sound, Sound', Len(stack) >= 2, stack' = Popped, pc # "run", pc' = "ran",
         Top.kind \notin LoopKinds \cup Holders, ~IsCommand(Top),
         UNCHANGED <<return_set, result, signal_received, req_break, req_continue>>
  PROVE  Promised
<1>1. TypeInv /\ PendInv /\ TypeInv' /\ PendInv'
  BY DEF Sound
<1>2. StackOf(stack) /\ stack' = Below(stack) /\ Last(stack) = Top /\ signal_received \in BOOLEAN
  BY <1>1, Basics DEF Below, Popped, Last, Top
<1> DEFINE a == Course(stack, pc, return_set, result, signal_received, req_break, req_continue)
           b == Course(Below(stack), "ran", return_set, result, signal_received, req_break, req_continue)
<1>3. Settled = a /\ Settled' = b
  BY <1>1, <1>2, SettledIs, SettledNext
<1>4. Interrupted' = Interrupted
  <2>1. ~IsScope(Last(stack))
    BY <1>2 DEF IsScope, IsUnit, Holders
  <2>2. ScopeKind(stack') = ScopeKind(stack)
    BY <1>2, <2>1, ScopeBelow
  <2>3. QED
    BY <1>1, <2>2, SettledIs, SettledNext DEF Felt
<1>5. a = b \/ (a = Flat(stack) /\ b = Flat(Below(stack)))
  BY <1>1, <1>2, Counted, CoursePops
<1> HIDE DEF a, b
<1>6. CASE a = b
  BY <1>3, <1>4, <1>6 DEF Promised
<1>7. CASE a = Flat(stack) /\ b = Flat(Below(stack))
  <2>1. Top.kind \notin {"break", "continue", "return"}
    BY DEF IsCommand
  <2>2. U!Next
    BY <1>2, <1>3, <1>4, <1>7, <2>1, Completed
  <2>3. QED
    BY <2>2 DEF Promised
<1>8. QED
  BY <1>5, <1>6, <1>7

\* A frame that held something up is left: only SIGINT goes on.
LEMMA Absorbed ==
  ASSUME Sound, Sound', Len(stack) >= 2, stack' = Popped, pc' = "ran", result' = 1, ~return_set',
         Settled = Flat(Below(stack)), Interrupted = signal_received,
         ~signal_received' => req_break' = 0 /\ req_continue' = 0, UNCHANGED signal_received
  PROVE  Promised
<1>1. TypeInv' /\ PendInv' /\ stack' = Below(stack) /\ signal_received \in BOOLEAN
  BY DEF Sound, TypeInv, Below, Popped
<1>2. Interrupted' = Interrupted
  BY <1>1, SettledNext DEF Felt
<1>3. Settled' = IF signal_received THEN AfterInterrupt(Below(stack)) ELSE Flat(Below(stack))
  BY <1>1, SettledNext DEF Course
<1>4. CASE signal_received
  <2>1. U!Next
    BY <1>2, <1>3, <1>4, LeftInterrupted
  <2>2. QED
    BY <2>1 DEF Promised
<1>5. CASE ~signal_received
  BY <1>2, <1>3, <1>5 DEF Promised
<1>6. QED
  BY <1>1, <1>4, <1>5

LEMMA Running ==
  ASSUME Sound, pc = "run"
  PROVE  /\ Settled = Flat(stack) /\ Interrupted = signal_received /\ ~return_set
         /\ signal_received => LoopsOf(stack) = {} \/ Top.kind = "command"
         /\ ~signal_received => req_break = 0 /\ req_continue = 0
<1>1. TypeInv /\ PendInv /\ signal_received \in BOOLEAN
  BY DEF Sound, TypeInv
<1>2. Settled = Flat(stack) /\ Interrupted = signal_received
  BY <1>1, SettledIs DEF Course, Felt
<1>3. cur_loop_level = 0 <=> LoopsOf(stack) = {}
  BY <1>1, LevelIsNat DEF TypeInv
<1>4. QED
  BY <1>1, <1>2, <1>3 DEF PendInv, Quiet, Travels

\* A function is called, or a command is run.
LEMMA PromisedPush ==
  ASSUME Sound, Sound', NEW k, NEW n, k \in Kinds, n \in 0 .. MaxCount,
         stack' = Append(stack, Frame(k, n)), ~IsCommand(Top), pc = "run", pc' = pc, UNCHANGED signal_received
  PROVE  U!Begin(k, n)
<1>1. StackOf(stack) /\ stack \in Seq(Frames) /\ TypeInv' /\ PendInv' /\ signal_received \in BOOLEAN
  BY Basics DEF Sound, StackOf, TypeInv
<1>2. Settled = Flat(stack) /\ Interrupted = signal_received /\ (signal_received => LoopsOf(stack) = {})
  BY Running DEF IsCommand
<1>3. Settled' = Flat(stack') /\ Interrupted' = signal_received
  BY <1>1, SettledNext DEF Course, Felt
<1> DEFINE f == Frame(k, n)
<1>4. f \in Frames /\ f.kind = k /\ f.n = n
  BY NewFrames
<1> HIDE DEF f
<1>5. stack' = Append(stack, f)
  BY DEF f
<1>6. Flat(stack') = Append(Flat(stack), [kind |-> f.kind, n |-> f.n])
  BY <1>1, <1>4, <1>5, FlatPushed
<1>7. Settled' = Append(Flat(stack), [kind |-> k, n |-> n])
  BY <1>3, <1>4, <1>6
<1>8. QED
  BY <1>1, <1>2, <1>3, <1>7, Begun

LEMMA PromisedPushes ==
  ASSUME Sound, Sound',
         \/ Simple \/ ReturnCommand
         \/ \E k \in {"break", "continue"}, n \in 1..MaxCount : Jump(k, n)
         \/ \E k \in Compound : Enter(k)
  PROVE  U!Next
<1>0. 0 \in 0 .. MaxCount /\ \A n \in 1 .. MaxCount : n \in 0 .. MaxCount
  BY EvaluatorAssumption
<1>1. CASE Simple
  <2>1. U!Begin("command", 0)
    BY <1>0, <1>1, KindFacts, PromisedPush DEF Simple, Begin, flags
  <2>2. QED
    BY <2>1 DEF U!Next
<1>2. CASE ReturnCommand
  <2>1. U!Begin("return", 0)
    BY <1>0, <1>2, KindFacts, PromisedPush DEF ReturnCommand, Begin, flags
  <2>2. QED
    BY <2>1 DEF U!Next
<1>3. ASSUME NEW k \in {"break", "continue"}, NEW n \in 1..MaxCount, Jump(k, n) PROVE U!Next
  <2>1. U!Begin(k, n)
    BY <1>0, <1>3, KindFacts, PromisedPush DEF Jump, Begin, flags
  <2>2. QED
    BY <2>1 DEF U!Next, U!Jumps
<1>4. ASSUME NEW k \in Compound, Enter(k) PROVE U!Next
  <2>1. U!Begin(k, 0)
    BY <1>0, <1>4, KindFacts, PromisedPush DEF Enter, Begin, flags
  <2>2. QED
    BY <2>1 DEF U!Next
<1>5. QED
  BY <1>1, <1>2, <1>3, <1>4

\* A command is over, or SIGINT arrives while it runs.
LEMMA PromisedCommand ==
  ASSUME Programs = {}, Sound, Sound',
         Run \/ CannotRun \/ OutsideLoop \/ Break \/ Continue \/ Return \/ Interrupt
  PROVE  Promised
<1>1. /\ StackOf(stack) /\ cur_loop_level \in Nat /\ Top = Last(stack) /\ Popped = Below(stack)
      /\ (cur_loop_level = 0 <=> LoopsOf(stack) = {}) /\ cur_loop_level = Cardinality(LoopsOf(stack))
      /\ signal_received \in BOOLEAN /\ TypeInv /\ PendInv /\ TypeInv' /\ PendInv'
      /\ ~IsUnit(Top) => Len(stack) >= 2
  <2>1. TypeInv /\ PendInv /\ TypeInv' /\ PendInv'
    BY DEF Sound
  <2>2. ~IsUnit(Top) => Len(stack) >= 2
    BY <2>1, Basics, NewFrames
  <2>3. QED
    BY <2>1, <2>2, Basics, LevelIsNat DEF LevelInv, LevelCounts, Top, Last, Popped, Below
<1>2. pc = "run"
  BY DEF Run, CannotRun, OutsideLoop, Break, Continue, Return, Interrupt, CommandDone
<1>3. /\ Settled = Flat(stack) /\ Interrupted = signal_received /\ ~return_set
      /\ signal_received => LoopsOf(stack) = {} \/ Top.kind = "command"
      /\ ~signal_received => req_break = 0 /\ req_continue = 0
  BY <1>2, Running
<1>4. ASSUME IsCommand(Top)
      PROVE  /\ Top.kind \notin LoopKinds /\ Top.kind \notin Holders /\ Top.kind \notin Scripts
             /\ ~IsUnit(Top) /\ ~IsScope(Top) /\ Len(stack) >= 2
             /\ AfterReturn(Below(stack)) = AfterReturn(stack)
             /\ AfterFailure(Below(stack)) = AfterFailure(stack)
  <2>1. Top.kind \in {"command", "break", "continue", "return"}
    BY <1>4 DEF IsCommand
  <2>2. /\ Top.kind \notin LoopKinds /\ Top.kind \notin Holders /\ Top.kind \notin Scripts
        /\ ~IsUnit(Top) /\ ~IsScope(Top) /\ Top.kind # "function"
    BY <2>1 DEF LoopKinds, Holders, Scripts, IsUnit, IsScope
  <2>3. Last(stack).kind # "function"
    BY <2>2 DEF Top, Last
  <2>4. QED
    BY <1>1, <2>2, <2>3, ReturnBelow, FailureBelow
<1>5. CASE Run
  <2>1. /\ Top.kind = "command" /\ stack' = Below(stack) /\ pc' = "ran" /\ result' = 1
        /\ UNCHANGED <<req_break, req_continue, return_set, signal_received>>
    BY <1>1, <1>5 DEF Run, CommandDone, counters, flags
  <2>2. IsCommand(Top)
    BY <2>1 DEF IsCommand
  <2>3. /\ Settled' = IF signal_received THEN AfterInterrupt(Below(stack)) ELSE Flat(Below(stack))
        /\ Interrupted' = Interrupted
    BY <1>1, <1>3, <2>1, SettledNext DEF Course, Felt
  <2>4. CASE signal_received /\ AfterInterrupt(Below(stack)) = AfterInterrupt(stack)
    <3>1. U!Next
      BY <1>3, <2>3, <2>4, LeftInterrupted
    <3>2. QED
      BY <3>1 DEF Promised
  <2>5. CASE ~(signal_received /\ AfterInterrupt(Below(stack)) = AfterInterrupt(stack))
    <3>1. Settled' = Flat(Below(stack))
      BY <1>1, <1>4, <2>2, <2>3, <2>5, InterruptGoes
    <3>2. U!Next
      BY <1>1, <1>3, <1>4, <2>1, <2>2, <2>3, <3>1, Completed
    <3>3. QED
      BY <3>2 DEF Promised
  <2>6. QED
    BY <2>4, <2>5
<1>6. CASE CannotRun \/ OutsideLoop
  <2>1. /\ IsCommand(Top) /\ stack' = Below(stack) /\ pc' = "ran" /\ result' = 0
        /\ Top.kind \in {"break", "continue"} => LoopsOf(stack) = {}
        /\ UNCHANGED <<return_set, signal_received>>
    BY <1>1, <1>6 DEF CannotRun, OutsideLoop, CommandDone, counters, flags, IsCommand
  <2>2. Settled' = AfterFailure(stack) /\ Interrupted' = Interrupted
    BY <1>1, <1>3, <1>4, <2>1, SettledNext DEF Course, Felt
  <2>3. U!Next
    BY <1>1, <1>3, <2>1, <2>2, Failed
  <2>4. QED
    BY <2>3 DEF Promised
<1>7. CASE Break \/ Continue
  <2>1. /\ Top.kind \in {"break", "continue"} /\ cur_loop_level # 0
        /\ stack' = Below(stack) /\ pc' = "ran" /\ result' = 1
        /\ UNCHANGED <<return_set, signal_received>>
        /\ IF Top.kind = "break" THEN req_break' = Top.n /\ UNCHANGED req_continue
                                 ELSE req_continue' = Top.n /\ UNCHANGED req_break
    BY <1>1, <1>7 DEF Break, Continue, CommandDone, flags
  <2>2. IsCommand(Top) /\ ~signal_received /\ Top.n \in 1 .. Cardinality(LoopsOf(stack)) /\ Top.n # 0
    BY <1>1, <1>3, <2>1 DEF IsCommand, TypeInv
  <2>3. Interrupted' = Interrupted
    BY <1>1, <1>3, <2>1, <2>2, SettledNext DEF Felt
  <2>4. /\ AfterBreak(Below(stack), Top.n) = AfterBreak(stack, Top.n)
        /\ AfterContinue(Below(stack), Top.n) = AfterContinue(stack, Top.n)
    BY <1>1, <1>4, <2>2, BreakBelow
  <2>5. Settled' = IF Top.kind = "break" THEN AfterBreak(stack, Top.n) ELSE AfterContinue(stack, Top.n)
    BY <1>1, <1>3, <2>1, <2>2, <2>4, SettledNext DEF Course
  <2>6. U!Next
    BY <1>1, <1>3, <2>1, <2>3, <2>5, Jumped
  <2>7. QED
    BY <2>6 DEF Promised
<1>8. CASE Return
  <2>1. /\ Top.kind = "return" /\ stack' = Below(stack) /\ pc' = "ran" /\ return_set' = TRUE
        /\ UNCHANGED signal_received
    BY <1>1, <1>8 DEF Return, CommandDone
  <2>2. IsCommand(Top)
    BY <2>1 DEF IsCommand
  <2>3. ScopeKind(stack') = ScopeKind(stack)
    BY <1>1, <1>4, <2>1, <2>2, ScopeBelow
  <2>4. Settled' = AfterReturn(stack) /\ Interrupted' = (signal_received /\ ScopeKind(stack) # "source")
    BY <1>1, <1>4, <2>1, <2>2, <2>3, SettledNext DEF Course, Felt
  <2>5. Interrupted' = Interrupted \/ (ScopeKind(stack) = "source" /\ Interrupted' = FALSE)
    BY <1>1, <1>3, <2>4
  <2>6. U!Next
    BY <1>1, <1>3, <2>1, <2>4, <2>5, Returned
  <2>7. QED
    BY <2>6 DEF Promised
<1>9. CASE Interrupt
  <2>1. stack' = stack /\ pc' = "run" /\ signal_received' = TRUE
    BY <1>9 DEF Interrupt
  <2>2. Settled' = Settled /\ Interrupted' = TRUE
    BY <1>1, <1>3, <2>1, SettledNext DEF Course, Felt
  <2>3. QED
    BY <2>2 DEF Promised, U!Next, U!Interrupt
<1>10. QED
  BY <1>5, <1>6, <1>7, <1>8, <1>9

\* What every step from a list, a loop or a unit needs.
LEMMA Ground ==
  ASSUME Sound, Sound'
  PROVE  /\ StackOf(stack) /\ Top = Last(stack) /\ Popped = Below(stack) /\ Top \in Frames
         /\ cur_loop_level \in Nat /\ (cur_loop_level = 0 <=> LoopsOf(stack) = {})
         /\ cur_loop_level = 0 => AfterInterrupt(stack) = Flat(stack)
         /\ signal_received \in BOOLEAN /\ return_set \in BOOLEAN /\ result \in {0, 1}
         /\ req_break \in Nat /\ req_continue \in Nat
         /\ TypeInv /\ PendInv /\ TypeInv' /\ PendInv'
         /\ ~IsUnit(Top) => Len(stack) >= 2
         /\ Count(stack, signal_received, req_break, req_continue)
<1>1. TypeInv /\ PendInv /\ TypeInv' /\ PendInv'
  BY DEF Sound
<1>2. ~IsUnit(Top) => Len(stack) >= 2
  BY <1>1, Basics, NewFrames
<1>3. StackOf(stack) /\ (cur_loop_level = 0 <=> LoopsOf(stack) = {})
  BY <1>1, LevelIsNat, Basics DEF LevelInv
<1>4. cur_loop_level = 0 => AfterInterrupt(stack) = Flat(stack)
  BY <1>3, InterruptIs
<1>5. QED
  BY <1>1, <1>2, <1>3, <1>4, Basics, Counted DEF Top, Last, Popped, Below

\* The list or the unit goes on, the list ends, or another item's list follows.
LEMMA PromisedNext ==
  ASSUME Programs = {}, Sound, Sound', NextCommand \/ ListEnds \/ FallThrough \/ NextLine
  PROVE  Promised
<1>1. /\ StackOf(stack) /\ signal_received \in BOOLEAN /\ result \in {0, 1}
      /\ req_break \in Nat /\ req_continue \in Nat /\ cur_loop_level \in Nat
      /\ cur_loop_level = 0 => AfterInterrupt(stack) = Flat(stack)
      /\ TypeInv /\ PendInv /\ TypeInv' /\ PendInv'
  BY Ground
<1>2. UNCHANGED <<stack, result, req_break, req_continue, return_set, signal_received>> /\ pc # "run"
  BY DEF NextCommand, ListEnds, FallThrough, NextLine, counters, flags
<1>3. CASE pc' = "left"
  <2>1. Settled' = Settled /\ Interrupted' = Interrupted
    BY <1>1, <1>2, <1>3, SettledIs, SettledNext DEF Course, Felt
  <2>2. QED
    BY <2>1 DEF Promised
<1>4. CASE pc' = "run"
  <2>1. ~return_set /\ ~Requested /\ (result = 1 \/ IsUnit(Top) \/ Top.kind = "case")
    <3>4. CASE FallThrough
      BY <3>4 DEF FallThrough
    <3>1. CASE NextCommand
      BY <1>1, <3>1 DEF NextCommand, ListStops
    <3>2. CASE NextLine
      <4>1. IsUnit(Top) /\ ~return_set /\ cur_loop_level = 0
        BY <1>1, <3>2, Basics DEF NextLine
      <4>2. QED
        BY <4>1 DEF Requested
    <3>3. QED
      BY <1>4, <3>1, <3>2, <3>4 DEF ListEnds
  <2>2. result = 0 => AfterFailure(stack) = Flat(stack)
    <3>1. IsUnit(Top) /\ Top = Last(stack) => AfterFailure(stack) = Flat(stack)
      <4>1. CASE Len(stack) >= 2
        BY <1>1, <4>1, FailureBelow DEF IsUnit, Holders
      <4>2. CASE Len(stack) = 1
        BY <1>1, <4>2, AtBottom
      <4>3. QED
        BY <1>1, <4>1, <4>2, Basics
    <3>3. Top.kind = "case" /\ Top = Last(stack) /\ Len(stack) >= 2 => AfterFailure(stack) = Flat(stack)
      BY <1>1, FailureBelow DEF Holders
    <3>2. QED
      BY <2>1, <3>1, <3>3, Ground DEF IsUnit
  <2>3. /\ signal_received => cur_loop_level = 0
        /\ ~signal_received => req_break = 0 /\ req_continue = 0
    <3>1. cur_loop_level = 0 \/ (req_break = 0 /\ req_continue = 0)
      BY <2>1 DEF Requested
    <3>2. QED
      BY <1>1, <3>1 DEF PendInv, Within
  <2>4. Settled = Flat(stack) /\ Interrupted = signal_received
    BY <1>1, <1>2, <2>1, <2>2, <2>3, SettledIs DEF Course, Felt
  <2>5. Settled' = Flat(stack) /\ Interrupted' = signal_received
    BY <1>1, <1>2, <1>4, SettledNext DEF Course, Felt
  <2>6. QED
    BY <2>4, <2>5 DEF Promised
<1>5. QED
  BY <1>3, <1>4 DEF NextCommand, ListEnds, FallThrough, NextLine

\* A compound command that is no loop is over.
LEMMA PromisedCompound ==
  ASSUME Programs = {}, Sound, Sound', LeaveGroup \/ LeaveCase \/ LeaveFunction
  PROVE  Promised
<1>1. /\ StackOf(stack) /\ Top = Last(stack) /\ Popped = Below(stack)
      /\ signal_received \in BOOLEAN /\ return_set \in BOOLEAN /\ result \in {0, 1}
      /\ TypeInv /\ PendInv /\ TypeInv' /\ PendInv'
      /\ ~IsUnit(Top) => Len(stack) >= 2
      /\ Count(stack, signal_received, req_break, req_continue)
  BY Ground
<1>2. /\ pc = "left" /\ stack' = Popped /\ pc' = "ran"
      /\ Top.kind \in {"group", "list", "case", "function"}
      /\ UNCHANGED <<req_break, req_continue, signal_received>>
      /\ Top.kind = "function" => return_set' = FALSE
      /\ Top.kind # "function" => UNCHANGED return_set
      /\ IF Top.kind \in {"case", "function"} THEN result' = 1 ELSE UNCHANGED result
  BY DEF LeaveGroup, LeaveCase, LeaveFunction, Leave, counters, flags
<1>3. ~IsUnit(Top) /\ ~IsCommand(Top) /\ Top.kind \notin LoopKinds /\ Len(stack) >= 2
  BY <1>1, <1>2, KindFacts DEF LoopKinds
<1>4. CASE Top.kind \in {"group", "list"}
  <2>1. Top.kind \notin LoopKinds \cup Holders
    BY <1>4 DEF LoopKinds, Holders
  <2>2. QED
    BY <1>2, <1>3, <1>4, <2>1, Onward
<1>5. CASE return_set /\ Top.kind = "case"
  <2>1. Last(stack).kind \notin Scripts /\ ~IsScope(Last(stack)) /\ return_set'
    BY <1>1, <1>2, <1>3, <1>5 DEF Scripts, IsScope
  <2>2. AfterReturn(stack) = AfterReturn(Below(stack)) /\ ScopeKind(stack) = ScopeKind(Below(stack))
    BY <1>1, <1>3, <2>1, ReturnBelow, ScopeBelow
  <2>3. Settled' = Settled /\ Interrupted' = Interrupted
    BY <1>1, <1>2, <1>5, <2>1, <2>2, SettledIs, SettledNext DEF Course, Felt
  <2>4. QED
    BY <2>3 DEF Promised
\* A failure stays in the case item, and the case clause is over.
<1>9. CASE Top.kind = "case" /\ ~return_set /\ result = 0
  <2>1. AfterFailure(stack) = Flat(stack)
    BY <1>1, <1>3, <1>9, FailureBelow DEF Holders
  <2>2. Settled = Flat(stack) /\ Interrupted = signal_received
    BY <1>1, <1>2, <1>9, <2>1, SettledIs DEF Course, Felt
  <2>3. ~signal_received => req_break = 0 /\ req_continue = 0
    BY <1>1, <1>2, <1>9 DEF PendInv, Travels
  <2>4. /\ Interrupted' = Interrupted
        /\ Settled' = IF signal_received THEN AfterInterrupt(Below(stack)) ELSE Flat(Below(stack))
    BY <1>1, <1>2, <1>9, <2>2, <2>3, SettledNext DEF Course, Felt
  <2>5. Top.kind \notin {"break", "continue", "return"}
    BY <1>9
  <2>6. CASE Settled' = Flat(Below(stack))
    <3>1. U!Next
      BY <1>1, <1>3, <2>2, <2>4, <2>5, <2>6, Completed
    <3>2. QED
      BY <3>1 DEF Promised
  <2>7. CASE signal_received /\ Settled' = AfterInterrupt(stack)
    <3>1. U!Next
      BY <2>2, <2>4, <2>7, LeftInterrupted
    <3>2. QED
      BY <3>1 DEF Promised
  <2>8. QED
    BY <1>1, <1>3, <2>4, <2>6, <2>7, InterruptGoes
<1>6. CASE Top.kind = "function" /\ (return_set \/ result = 0)
  <2>1. Top.kind \in Holders /\ (Top.kind = "function" => Top.kind \in Scripts)
    BY <1>6 DEF Holders, Scripts
  <2>2. Settled = Flat(Below(stack))
    BY <1>1, <1>2, <1>3, <1>6, <2>1, SettledIs, ReturnBelow, FailureBelow DEF Course
  <2>3. ~signal_received => req_break = 0 /\ req_continue = 0
    BY <1>1, <1>2, <1>6 DEF PendInv, Travels
  <2>4. Interrupted = signal_received
    <3>1. return_set => ScopeKind(stack) = "function"
      <4> SUFFICES ASSUME return_set PROVE ScopeKind(stack) = "function"
        OBVIOUS
      <4>1. Last(stack).kind = "function" /\ Last(stack).kind \in Scopes
        BY <1>1, <1>6 DEF Scopes
      <4>2. Nearest(stack, Scopes, Len(stack))
        BY <1>1, <4>1, NearestTop
      <4>3. QED
        BY <1>1, <4>1, <4>2, ScopeOfIs DEF ScopeKind, Last
    <3>2. QED
      BY <1>1, <3>1, SettledIs DEF Felt
  <2>5. result' = 1 /\ ~return_set'
    BY <1>2, <1>6
  <2>6. QED
    BY <1>1, <1>2, <1>3, <2>2, <2>3, <2>4, <2>5, Absorbed
\* Nothing was held up.
<1>7. CASE Top.kind \in {"case", "function"} /\ ~return_set /\ result = 1
  <2>1. ~return_set' /\ result' = 1 /\ Interrupted' = Interrupted
    BY <1>1, <1>2, <1>7, SettledIs, SettledNext DEF Felt
  <2> DEFINE a == Course(stack, "left", return_set, 1, signal_received, req_break, req_continue)
             b == Course(Below(stack), "ran", return_set, 1, signal_received, req_break, req_continue)
  <2>2. Settled = a /\ Settled' = b
    BY <1>1, <1>2, <1>7, <2>1, SettledIs, SettledNext DEF Course
  <2>3. a = b \/ (a = Flat(stack) /\ b = Flat(Below(stack)))
    <3>1. CASE signal_received
      BY <1>1, <1>3, <1>7, <3>1, InterruptGoes DEF Course
    <3>2. CASE ~signal_received
      <4>1. /\ req_break # 0 => req_break \in 1 .. Cardinality(LoopsOf(stack))
            /\ req_continue # 0 => req_continue \in 1 .. Cardinality(LoopsOf(stack))
        <5>1. Cardinality(LoopsOf(stack)) \in Nat
          BY <1>1, LevelBound
        <5>2. QED
          BY <1>1, <3>2, <5>1 DEF Count
      <4>2. /\ req_break # 0 => AfterBreak(stack, req_break) = AfterBreak(Below(stack), req_break)
            /\ req_continue # 0 => AfterContinue(stack, req_continue) = AfterContinue(Below(stack), req_continue)
        BY <1>1, <1>3, <4>1, BreakBelow
      <4>3. QED
        BY <1>7, <3>2, <4>2 DEF Course
    <3>3. QED
      BY <3>1, <3>2
  <2> HIDE DEF a, b
  <2>4. CASE a = b
    BY <2>1, <2>2, <2>4 DEF Promised
  <2>5. CASE a = Flat(stack) /\ b = Flat(Below(stack))
    <3>1. Top.kind \notin {"break", "continue", "return"}
      BY <1>3 DEF IsCommand
    <3>2. U!Next
      BY <1>1, <1>3, <2>1, <2>2, <2>5, <3>1, Completed
    <3>3. QED
      BY <3>2 DEF Promised
  <2>6. QED
    BY <2>3, <2>4, <2>5
<1>8. QED
  BY <1>1, <1>2, <1>4, <1>5, <1>6, <1>7, <1>9

\* A test is not left by what is under way.
LEMMA InTest ==
  ASSUME TypeInv, PendInv, Top.phase = "test", ~IsUnit(Top), Top.kind # "function"
  PROVE  /\ ~return_set /\ (cur_loop_level # 0 => ~signal_received)
         /\ ~signal_received => req_break = 0 /\ req_continue = 0
<1>1. /\ StackOf(stack) /\ cur_loop_level \in Nat /\ req_break \in Nat /\ req_continue \in Nat
      /\ signal_received \in BOOLEAN
  BY Basics
<1>2. ~return_set
  BY <1>1, ScopeFelt DEF PendInv, Returns, IsScope, Top
<1>3. Reach \in Nat
  BY <1>1 DEF Reach
<1>4. ~(Reach >= 1)
  BY <1>1, <1>3, FeltByTop DEF PendInv, Untested, Top
<1>5. Reach = 0
  BY <1>3, <1>4
<1>6. QED
  BY <1>2, <1>5 DEF Reach

\* A loop that break or continue passes returns 1.
LEMMA SoFarIsOne ==
  ASSUME TypeInv, PendInv, Top.kind \in LoopKinds, BodyEnds, Leaving >= 1
  PROVE  SoFar = 1
<1>1. /\ StackOf(stack) /\ req_break \in Nat /\ req_continue \in Nat /\ Top.res \in {0, 1}
      /\ result = 1 /\ ~signal_received
  BY Basics DEF BodyEnds
<1>2. Leaving \in Int
  BY <1>1 DEF Leaving
<1>3. Top.kind = "for" \/ Top.res # 0
  BY <1>1, <1>2, FeltByTop DEF PendInv, Later, Top
<1>4. QED
  BY <1>1, <1>3 DEF SoFar

\* The top command goes on, with another round or branch.
LEMMA PromisedAgain ==
  ASSUME Sound, Sound', NEW f \in Frames, f.kind = Top.kind, f.n = Top.n, stack' = WithTop(f), pc' = "run",
         UNCHANGED signal_received, ~return_set, Settled = Flat(stack)
  PROVE  Promised
<1>1. Flat(stack') = Flat(stack)
  BY Ground, FlatAgain DEF WithTop
<1>2. Settled' = Settled /\ Interrupted' = Interrupted
  BY <1>1, Ground, SettledIs, SettledNext DEF Course, Felt
<1>3. QED
  BY <1>2 DEF Promised

LEMMA PromisedIf ==
  ASSUME Programs = {}, Sound, Sound', If
  PROVE  Promised
<1>1. /\ Top.kind = "if" /\ pc = "left"
      /\ UNCHANGED <<req_break, req_continue, return_set, signal_received>>
  BY DEF If, counters, flags
<1>2. ~IsUnit(Top) /\ ~IsCommand(Top) /\ Top.kind \notin LoopKinds \cup Holders /\ Top.kind # "function"
  BY <1>1, KindFacts DEF LoopKinds, Holders
<1>3. CASE stack' = Popped /\ pc' = "ran"
  <2>1. UNCHANGED result
    BY <1>1, <1>3 DEF If, Leave
  <2>2. Len(stack) >= 2
    BY <1>2, Ground
  <2>3. QED
    BY <1>1, <1>2, <1>3, <2>1, <2>2, Onward
<1>4. CASE ~(stack' = Popped /\ pc' = "ran")
  <2> DEFINE f == [Top EXCEPT !.phase = IF TestSays THEN "then" ELSE "else"]
  <2>1. /\ Top.phase = "test" /\ pc' = "run" /\ result = 1
        /\ stack' = WithTop(f)
    BY <1>4 DEF If, Leave
  <2>2. f \in Frames /\ f.kind = Top.kind /\ f.n = Top.n
    BY Ground DEF Frames
  <2> HIDE DEF f
  <2>3. /\ ~return_set /\ (cur_loop_level # 0 => ~signal_received)
        /\ ~signal_received => req_break = 0 /\ req_continue = 0
    BY <1>2, <2>1, Ground, InTest
  <2>4. Settled = Flat(stack)
    BY <1>1, <2>1, <2>3, Ground, SettledIs DEF Course
  <2>5. QED
    BY <1>1, <2>1, <2>2, <2>3, <2>4, PromisedAgain
<1>5. QED
  BY <1>3, <1>4

\* A loop ends, goes on, or is left.
LEMMA PromisedLoop ==
  ASSUME Programs = {}, Sound, Sound', LoopTest \/ BodyStops \/ BreakLoop \/ ContinueOuter \/ NextRound
  PROVE  Promised
<1>1. /\ StackOf(stack) /\ Top = Last(stack) /\ Popped = Below(stack) /\ Top \in Frames
      /\ cur_loop_level \in Nat /\ (cur_loop_level = 0 <=> LoopsOf(stack) = {})
      /\ signal_received \in BOOLEAN /\ return_set \in BOOLEAN /\ result \in {0, 1}
      /\ req_break \in Nat /\ req_continue \in Nat
      /\ TypeInv /\ PendInv /\ TypeInv' /\ PendInv'
      /\ ~IsUnit(Top) => Len(stack) >= 2
      /\ Count(stack, signal_received, req_break, req_continue)
  BY Ground
<1>2. /\ Top.kind \in LoopKinds /\ pc = "left" /\ UNCHANGED <<return_set, signal_received>>
  BY DEF LoopTest, BodyStops, BreakLoop, ContinueOuter, NextRound, BodyEnds, InLoop, flags
<1>3. /\ ~IsUnit(Top) /\ ~IsCommand(Top) /\ Top.kind \notin Holders /\ Top.kind \notin Scripts
      /\ ~IsScope(Top) /\ Top.kind # "function" /\ Len(stack) >= 2 /\ cur_loop_level # 0
  <2>1. ~IsUnit(Top) /\ ~IsCommand(Top)
    BY <1>2, KindFacts
  <2>2. Top.kind \notin Holders /\ Top.kind \notin Scripts /\ ~IsScope(Top) /\ Top.kind # "function"
    BY <1>2, <2>1 DEF LoopKinds, Holders, Scripts, IsScope
  <2>3. QED
    BY <1>1, <1>2, <2>1, <2>2, Basics
<1>4. /\ AfterReturn(stack) = AfterReturn(Below(stack)) /\ AfterFailure(stack) = AfterFailure(Below(stack))
      /\ AfterInterrupt(stack) = AfterInterrupt(Below(stack))
      /\ ScopeKind(stack) = ScopeKind(Below(stack))
  BY <1>1, <1>3, ReturnBelow, FailureBelow, InterruptBelow, ScopeBelow
<1>5. /\ req_break # 0 /\ ~signal_received => req_break \in 1 .. Cardinality(LoopsOf(stack))
      /\ req_continue # 0 /\ ~signal_received => req_continue \in 1 .. Cardinality(LoopsOf(stack))
  <2>1. Cardinality(LoopsOf(stack)) \in Nat
    BY <1>1, LevelBound
  <2>2. QED
    BY <1>1, <2>1 DEF Count
<1>6. Top.kind \notin {"break", "continue", "return"}
  BY <1>3 DEF IsCommand
\* The loop is left and the interruption is felt as before.
<1>7. stack' = Popped /\ pc' = "ran" => Interrupted' = Interrupted
  BY <1>1, <1>2, <1>4, SettledIs, SettledNext DEF Felt
<1>8. ASSUME stack' = Popped, pc' = "ran", Settled = Flat(stack), Settled' = Flat(Below(stack))
      PROVE  Promised
  <2>1. U!Next
    BY <1>1, <1>3, <1>6, <1>7, <1>8, Completed
  <2>2. QED
    BY <2>1 DEF Promised
<1>9. CASE LoopTest
  <2>1. /\ Top.phase = "test" /\ UNCHANGED <<req_break, req_continue>>
    BY <1>9 DEF LoopTest, InLoop
  <2>2. ~return_set /\ ~signal_received /\ req_break = 0 /\ req_continue = 0
    BY <1>1, <1>3, <2>1, InTest
  <2>3. CASE result = 1 /\ stack' = WithTop([Top EXCEPT !.phase = "body"]) /\ pc' = "run"
    <3> DEFINE f == [Top EXCEPT !.phase = "body"]
    <3>1. f \in Frames /\ f.kind = Top.kind /\ f.n = Top.n
      BY <1>1 DEF Frames
    <3> HIDE DEF f
    <3>2. Settled = Flat(stack)
      BY <1>1, <1>2, <2>2, <2>3, SettledIs DEF Course
    <3>3. QED
      BY <1>2, <2>2, <2>3, <3>1, <3>2, PromisedAgain DEF f
  <2>4. CASE result = 1 /\ stack' = Popped /\ pc' = "ran" /\ result' = 1
    <3>1. Settled = Flat(stack) /\ Settled' = Flat(Below(stack))
      BY <1>1, <1>2, <2>1, <2>2, <2>4, SettledIs, SettledNext DEF Course
    <3>2. QED
      BY <1>8, <2>4, <3>1
  <2>5. CASE result = 0 /\ stack' = Popped /\ pc' = "ran" /\ result' = 0
    <3>1. Settled' = Settled
      BY <1>1, <1>2, <1>4, <2>1, <2>2, <2>5, SettledIs, SettledNext DEF Course
    <3>2. QED
      BY <1>7, <2>5, <3>1 DEF Promised
  <2>6. QED
    BY <1>9, <2>3, <2>4, <2>5 DEF LoopTest, LeaveLoop, Leave
<1>10. CASE BodyStops
  <2>1. /\ stack' = Popped /\ pc' = "ran" /\ UNCHANGED <<req_break, req_continue>>
        /\ result = 0 \/ return_set \/ signal_received
        /\ result' = IF result = 0 THEN 0 ELSE SoFar
    BY <1>10 DEF BodyStops, LeaveLoop, Leave
  <2>2. result = 1 /\ signal_received => SoFar = 1
    <3>1. Marked(Top, signal_received)
      <4>1. Len(stack) \in 1 .. Len(stack)
        BY <1>1, WithoutTop DEF StackOf
      <4>2. QED
        BY <4>1 DEF Sound, HabitInv, Top
    <3>2. Top.res \in {0, 1}
      BY <1>1, NewFrames
    <3>3. QED
      BY <1>2, <3>1, <3>2 DEF Marked, SoFar
  <2>3. Settled' = Settled
    <3>1. CASE return_set
      BY <1>1, <1>2, <1>4, <2>1, <3>1, SettledIs, SettledNext DEF Course
    <3>2. CASE ~return_set /\ result = 0
      BY <1>1, <1>2, <1>4, <2>1, <3>2, SettledIs, SettledNext DEF Course
    <3>3. CASE ~return_set /\ result = 1 /\ signal_received
      BY <1>1, <1>2, <1>4, <2>1, <2>2, <3>3, SettledIs, SettledNext DEF Course
    <3>4. QED
      BY <1>1, <2>1, <3>1, <3>2, <3>3
  <2>4. QED
    BY <1>7, <2>1, <2>3 DEF Promised
<1>11. CASE BreakLoop
  <2>1. /\ stack' = Popped /\ pc' = "ran" /\ BodyEnds /\ result' = SoFar
        /\ req_break # 0 /\ req_break' = req_break - 1 /\ UNCHANGED req_continue
        /\ ~signal_received /\ ~return_set /\ result = 1
    BY <1>11 DEF BreakLoop, LeaveLoop, Leave, BodyEnds
  <2>2. req_continue = 0 /\ Leaving >= 1
    BY <1>1, <2>1 DEF PendInv, OneRequest, Leaving
  <2>3. result' = 1
    BY <1>1, <1>2, <2>1, <2>2, SoFarIsOne
  <2>4. AfterBreak(stack, req_break) = IF req_break = 1 THEN Flat(Below(stack)) ELSE AfterBreak(Below(stack), req_break - 1)
    BY <1>1, <1>2, <1>3, <1>5, <2>1, BreakBelow
  <2>5. Settled = AfterBreak(stack, req_break)
    BY <1>1, <1>2, <2>1, SettledIs DEF Course
  <2>6. Settled' = IF req_break - 1 # 0 THEN AfterBreak(Below(stack), req_break - 1) ELSE Flat(Below(stack))
    BY <1>1, <1>2, <2>1, <2>2, <2>3, SettledNext DEF Course
  <2>7. Settled' = Settled
    BY <1>1, <2>4, <2>5, <2>6
  <2>8. QED
    BY <1>7, <2>1, <2>7 DEF Promised
<1>12. CASE ContinueOuter
  <2>1. /\ stack' = Popped /\ pc' = "ran" /\ BodyEnds /\ result' = SoFar
        /\ req_break = 0 /\ UNCHANGED req_break /\ req_continue > 1 /\ req_continue' = req_continue - 1
        /\ ~signal_received /\ ~return_set /\ result = 1
    BY <1>12 DEF ContinueOuter, LeaveLoop, Leave, BodyEnds
  <2>2. Leaving >= 1 /\ req_continue # 0 /\ req_continue # 1 /\ req_continue - 1 # 0
    BY <1>1, <2>1 DEF Leaving
  <2>3. result' = 1
    BY <1>1, <1>2, <2>1, <2>2, SoFarIsOne
  <2>4. AfterContinue(stack, req_continue) = AfterContinue(Below(stack), req_continue - 1)
    BY <1>1, <1>2, <1>3, <1>5, <2>1, <2>2, BreakBelow
  <2>5. Settled = AfterContinue(stack, req_continue)
    BY <1>1, <1>2, <2>1, <2>2, SettledIs DEF Course
  <2>6. Settled' = AfterContinue(Below(stack), req_continue - 1)
    BY <1>1, <1>2, <2>1, <2>2, <2>3, SettledNext DEF Course
  <2>7. QED
    BY <1>7, <2>1, <2>4, <2>5, <2>6 DEF Promised
<1>13. CASE NextRound
  <2>1. /\ ~signal_received /\ ~return_set /\ result = 1
        /\ req_break = 0 /\ UNCHANGED req_break /\ req_continue <= 1 /\ req_continue' = 0
    BY <1>13 DEF NextRound, BodyEnds
  <2>2. Settled = Flat(stack)
    <3>1. req_continue = 0 \/ req_continue = 1
      BY <1>1, <2>1
    <3>2. req_continue = 1 => AfterContinue(stack, req_continue) = Flat(stack)
      BY <1>1, <1>2, <1>3, <1>5, <2>1, BreakBelow
    <3>3. QED
      BY <1>1, <1>2, <2>1, <3>1, <3>2, SettledIs DEF Course
  <2>3. CASE stack' = WithTop([Frame(Top.kind, 0) EXCEPT !.res = 1]) /\ pc' = "run"
    <3> DEFINE f == [Frame(Top.kind, 0) EXCEPT !.res = 1]
    <3>1. f \in Frames /\ f.kind = Top.kind /\ f.n = 0
      BY <1>1, EvaluatorAssumption DEF Frames, Frame
    <3> HIDE DEF f
    <3>2. Top.n = 0
      <4>1. Len(stack) \in 1 .. Len(stack)
        BY <1>1, WithoutTop DEF StackOf
      <4>2. QED
        BY <1>6, <4>1 DEF Sound, HabitInv, Marked, Top
    <3>3. f.n = Top.n
      BY <3>1, <3>2
    <3>4. QED
      BY <1>2, <2>1, <2>2, <2>3, <3>1, <3>3, PromisedAgain DEF f
  <2>4. CASE stack' = Popped /\ pc' = "ran" /\ result' = 1
    <3>1. Settled' = Flat(Below(stack))
      BY <1>1, <1>2, <2>1, <2>4, SettledNext DEF Course
    <3>2. QED
      BY <1>8, <2>2, <2>4, <3>1
  <2>5. QED
    BY <1>13, <2>3, <2>4 DEF NextRound, LeaveLoop, Leave
<1>14. QED
  BY <1>9, <1>10, <1>11, <1>12, <1>13

\* A unit ends; the shell reads another one.
LEMMA PromisedUnit ==
  ASSUME Programs = {}, Sound, Sound', LeaveUnit \/ NewUnit
  PROVE  Promised
<1>1. /\ StackOf(stack) /\ Top = Last(stack) /\ Popped = Below(stack) /\ Len(stack) \in Nat
      /\ cur_loop_level \in Nat /\ (cur_loop_level = 0 => AfterInterrupt(stack) = Flat(stack))
      /\ signal_received \in BOOLEAN /\ return_set \in BOOLEAN /\ result \in {0, 1}
      /\ req_break \in Nat /\ req_continue \in Nat
      /\ TypeInv /\ PendInv /\ TypeInv' /\ PendInv'
      /\ IsUnit(Top) => cur_loop_level = 0
      /\ Len(stack) = 1 => IsUnit(Top)
  <2>1. TypeInv
    BY DEF Sound
  <2>2. /\ Len(stack) \in Nat /\ (IsUnit(Top) => cur_loop_level = 0) /\ (Len(stack) = 1 => IsUnit(Top))
    <3>1. Len(stack) >= 2 => Len(stack) # 1
      OBVIOUS
    <3>2. QED
      BY <2>1, <3>1, Basics, NewFrames
  <2>3. QED
    BY <2>2, Ground
<1>2. pc = "ran" /\ IsUnit(Top) /\ cur_loop_level = 0
  BY <1>1 DEF LeaveUnit, NewUnit
<1>3. ~signal_received => req_break = 0 /\ req_continue = 0
  BY <1>1, <1>2 DEF PendInv, Within
<1>4. CASE LeaveUnit
  <2>1. /\ Len(stack) >= 2 /\ stack' = Popped /\ pc' = "ran" /\ result' = 1
        /\ ~return_set' /\ ~signal_received' /\ UNCHANGED <<req_break, req_continue>>
    BY <1>1, <1>4 DEF LeaveUnit, Leave, counters
  <2>2. req_break = 0 /\ req_continue = 0
    <3>1. Len(stack) \in 2 .. Len(stack) /\ IsUnit(stack[Len(stack)])
      BY <1>1, <1>2, <2>1 DEF Top
    <3>2. CASE signal_received
      BY <1>1, <3>1, <3>2 DEF PendInv, Fresh, Within
    <3>3. QED
      BY <1>3, <3>2
  <2>3. Settled' = Flat(Below(stack)) /\ Interrupted' = FALSE
    <3>1. TypeInv' /\ PendInv'
      BY <1>1
    <3>2. Settled' = Flat(stack')
      BY <2>1, <2>2, <3>1, SettledNext DEF Course
    <3>3. Interrupted' = FALSE
      BY <2>1, <3>1, SettledNext DEF Felt
    <3>4. stack' = Below(stack)
      BY <1>1, <2>1
    <3>5. QED
      BY <3>2, <3>3, <3>4
  <2>4. CASE return_set
    <3>1. ScopeKind(stack) = Top.kind
      <4>1. Last(stack).kind \in Scopes
        BY <1>1, <1>2 DEF IsUnit, Scopes
      <4>2. Nearest(stack, Scopes, Len(stack))
        BY <1>1, <4>1, NearestTop
      <4>3. QED
        BY <1>1, <4>2, ScopeOfIs DEF ScopeKind, Last
    <3>2. Top.kind = "source"
      BY <1>2, <2>4, <3>1 DEF Sound, HabitInv, Script, IsUnit
    <3>3. Settled = Flat(Below(stack)) /\ Interrupted = FALSE
      <4>1. AfterReturn(stack) = Flat(Below(stack))
        BY <1>1, <2>1, <3>2, ReturnBelow DEF Scripts
      <4>2. QED
        BY <1>1, <1>2, <2>4, <3>1, <3>2, <4>1, SettledIs DEF Course, Felt
    <3>4. QED
      BY <2>3, <3>3 DEF Promised
  <2>5. CASE ~return_set
    <3>1. AfterFailure(stack) = Flat(stack)
      BY <1>1, <1>2, <2>1, FailureBelow DEF IsUnit, Holders
    <3>2. Settled = Flat(stack)
      BY <1>1, <1>2, <2>2, <2>5, <3>1, SettledIs DEF Course
    <3>3. Top.kind \notin {"break", "continue", "return"}
      BY <1>2 DEF IsUnit
    <3>4. U!Next
      BY <1>1, <1>2, <2>1, <2>3, <3>2, <3>3, Completed
    <3>5. QED
      BY <3>4 DEF Promised
  <2>6. QED
    BY <2>4, <2>5
<1>5. CASE NewUnit
  <2>1. Len(stack) = 1 /\ stack' = stack /\ pc' = "run" /\ ~signal_received'
    BY <1>5 DEF NewUnit
  <2>2. AfterReturn(stack) = Flat(stack) /\ AfterFailure(stack) = Flat(stack)
    BY <1>1, <2>1, AtBottom
  <2>3. Settled = Flat(stack)
    BY <1>1, <1>2, <1>3, <2>2, SettledIs DEF Course
  <2>4. Settled' = Settled /\ Interrupted' = FALSE
    BY <1>1, <2>1, <2>3, SettledNext DEF Course, Felt
  <2>5. Flat(stack) = <<[kind |-> "source", n |-> 0]>>
    <3>1. stack[1] = Unit /\ DOMAIN stack = 1 .. 1
      BY <1>1, <2>1, LenProperties DEF StackOf
    <3>2. Unit.kind = "source" /\ Unit.n = 0
      BY DEF Unit, Frame
    <3>3. \A i \in 1 .. 1 : [kind |-> stack[i].kind, n |-> stack[i].n] = [kind |-> "source", n |-> 0]
      BY <3>1, <3>2
    <3>4. QED
      BY <3>1, <3>3 DEF Flat
  <2>6. U!NewUnit
    BY <2>3, <2>4, <2>5 DEF U!NewUnit, U!Bottom, U!Frame
  <2>7. QED
    BY <2>6 DEF Promised, U!Next
<1>6. QED
  BY <1>4, <1>5

LEMMA SoundStep ==
  ASSUME Programs = {}, Sound, [Next]_vars
  PROVE  Sound'
<1>1. Programs \cap {"evalInLoop", "overshoot"} = {} /\ Programs \subseteq {"returnInEval"}
  OBVIOUS
<1>2. TypeInv' /\ PendInv'
  BY <1>1, TypeStep, PendStep DEF Sound
<1>3. HabitInv'
  BY <1>2, HabitStep DEF Sound
<1>4. QED
  BY <1>2, <1>3 DEF Sound

LEMMA PromisedStep ==
  ASSUME Programs = {}, Sound, Sound', [Next]_vars
  PROVE  Promised
<1>1. CASE \/ Simple \/ ReturnCommand
           \/ \E k \in {"break", "continue"}, n \in 1..MaxCount : Jump(k, n)
           \/ \E k \in Compound : Enter(k)
  BY <1>1, PromisedPushes DEF Promised
<1>2. CASE UNCHANGED vars
  <2>1. UNCHANGED <<stack, pc, result, req_break, req_continue, return_set, signal_received>>
    BY <1>2 DEF vars, counters, flags
  <2>2. Settled' = Settled /\ Interrupted' = Interrupted
    BY <2>1, SettledIs, SettledNext DEF Sound
  <2>3. QED
    BY <2>2 DEF Promised
<1>3. QED
  BY <1>1, <1>2, PromisedCommand, PromisedNext, PromisedCompound, PromisedIf, PromisedLoop, PromisedUnit DEF Next

LEMMA PromisedInit == ASSUME Init PROVE U!Init
<1>1. stack = <<Unit>> /\ pc = "run" /\ ~signal_received
  BY DEF Init
<1>2. Len(stack) = 1 /\ stack[1] = Unit /\ DOMAIN stack = 1 .. 1
  BY <1>1
<1>3. Unit.kind = "source" /\ Unit.n = 0
  BY DEF Unit, Frame
<1>4. \A i \in 1 .. 1 : [kind |-> stack[i].kind, n |-> stack[i].n] = [kind |-> "source", n |-> 0]
  BY <1>2, <1>3
<1>5. Settled = <<[kind |-> "source", n |-> 0]>>
  BY <1>1, <1>2, <1>4 DEF Settled, Shape
<1>6. Interrupted = FALSE
  BY <1>1 DEF Interrupted
<1>7. QED
  BY <1>5, <1>6 DEF U!Init, U!Bottom, U!Frame

(* break, continue, return, a failed command and SIGINT cut the stack of    *)
(* commands where the manual says (docs/man/man1/lsh.1:2069, 2113, 2512),   *)
(* whatever they are nested in: the flags and results that the do_*()       *)
(* functions pass on implement Unwinding, for programs without the habits.  *)
THEOREM JumpsUnwind == ASSUME Programs = {} PROVE Spec => Unwinds
<1>1. Init => Sound /\ U!Init
  BY TypeInit, PendInit, HabitInit, PromisedInit DEF Sound
<1>2. Sound /\ [Next]_vars => Sound'
  BY SoundStep
<1>3. Sound /\ Sound' /\ [Next]_vars => [U!Next]_<<Settled, Interrupted>>
  BY PromisedStep DEF Promised
<1>4. QED
  BY <1>1, <1>2, <1>3, PTL DEF Spec, Unwinds, U!Spec
=============================================================================
