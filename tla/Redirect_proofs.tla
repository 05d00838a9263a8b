--------------------------- MODULE Redirect_proofs ---------------------------
(***************************************************************************)
(* Proofs about Redirect in ShellState, for programs that do nothing       *)
(* reckless: what a list of redirections comes to, what nested commands    *)
(* keep, and what is left when they return.                                *)
(***************************************************************************)
EXTENDS ShellState, SequenceTheorems, FiniteSetTheorems, WellFoundedInduction, TLAPS

LEMMA Least == ASSUME NEW S, S \subseteq Nat, S # {} PROVE \E m \in S : \A k \in S : m <= k
<1>1. PICK m \in S : \A k \in S : ~(<<k, m>> \in OpToRel(<, Nat))
  BY WFMin, NatLessThanWellFounded
<1>2. \A k \in S : k \in Nat /\ m \in Nat /\ ~(k < m)
  BY <1>1 DEF OpToRel
<1>3. QED
  BY <1>2

LEMMA Induction ==
  ASSUME NEW S \in SUBSET Nat, 0 \in S, \A k \in Nat : k \in S => k + 1 \in S
  PROVE  S = Nat
<1> DEFINE Rest == Nat \ S
<1>1. SUFFICES ASSUME Rest # {} PROVE FALSE
  OBVIOUS
<1>2. PICK m \in Rest : \A k \in Rest : m <= k
  <2> HIDE DEF Rest
  <2>1. Rest \subseteq Nat
    BY DEF Rest
  <2>2. QED
    BY <1>1, <2>1, Least
<1>3. m # 0 /\ m - 1 \in Nat /\ m - 1 \notin S
  BY <1>2
<1>4. QED
  BY <1>2, <1>3

-----------------------------------------------------------------------------
(***************************************************************************)
(* The redirections of one command.                                        *)
(***************************************************************************)
Files == {"none", "here", Device} \cup Regular
FdTable == [Streams!Descriptors -> Files]
Slot == {0} \cup (Streams!Descriptors \ Streams!Std)
Stage == [fds : FdTable, saved : [Streams!Std -> Slot], ok : BOOLEAN, emptied : SUBSET Regular]

Lit(t) == \A s \in Streams!Std : t[s] # "none"

\* Four descriptors are free: a command's list and eval need no more at once.
Room(t) == \E p, q, c, d \in Streams!Free(t) :
             p # q /\ p # c /\ p # d /\ q # c /\ q # d /\ c # d

LEMMA Numbers ==
  /\ Streams!Std = {1, 2} /\ Streams!Descriptors = 1 .. MaxDescriptor
  /\ MaxDescriptor \in Nat /\ MaxDescriptor >= 10 /\ MaxFrames \in Nat
  /\ Streams!Descriptors \subseteq Nat \ {0} /\ Streams!Std \subseteq Streams!Descriptors
  /\ 3 \in Streams!Descriptors \ Streams!Std /\ 4 \in Streams!Descriptors \ Streams!Std
  BY ShellStateAssumption DEF Streams!Bounds, Streams!Std, Streams!Descriptors

LEMMA Kinds ==
  /\ Device \notin Regular /\ Device # "none" /\ Device # "here"
  /\ "none" \notin Regular /\ "here" \notin Regular
  /\ Device \notin {"closed", "dup", "move", "wrong", "missing"}
  /\ Regular \cap {"closed", "dup", "move", "wrong", "missing"} = {}
  BY ShellStateAssumption DEF Streams!Bounds, Streams!Kinds

LEMMA RedirIs ==
  ASSUME NEW r \in Redirs
  PROVE  /\ r \in [fd : Streams!Descriptors, of : Streams!Descriptors \cup {0},
                   to : Streams!Kinds \cup Regular \cup {Device}]
         /\ r.of = 0 <=> r.to \notin {"dup", "move"}
  BY ShellStateAssumption DEF Streams!Bounds, Streams!Redirection

LEMMA LowestIn ==
  ASSUME NEW S \in SUBSET Streams!Descriptors, S # {} PROVE Streams!Lowest(S) \in S
<1>1. \E m \in S : \A k \in S : m <= k
  BY Least, Numbers
<1>2. QED
  BY <1>1 DEF Streams!Lowest

\* What is open, and stays open, while a list is carried out: a stream that was
\* saved is in its slot, and whatever is not a slot is as it was in t.
Kept(t, f, sv, b) ==
  /\ f \in FdTable /\ sv \in [Streams!Std -> Slot]
  /\ Lit(f)
  /\ \A s \in Streams!Std : sv[s] = 0 => (b => f[s] = t[s])
  /\ \A s \in Streams!Std : sv[s] # 0 => b /\ t[sv[s]] = "none" /\ f[sv[s]] = t[s]
  /\ sv[1] # 0 => sv[1] # sv[2]
  /\ \A d \in Streams!Descriptors \ Streams!Std :
        (\A s \in Streams!Std : d # sv[s]) => f[d] = t[d]

LEMMA KeptStarts ==
  ASSUME NEW t \in FdTable, Lit(t), NEW b \in BOOLEAN
  PROVE  Kept(t, t, Streams!None, b)
  BY Numbers DEF Kept, Streams!None, Slot

LEMMA KeptSaves ==
  ASSUME NEW t \in FdTable, Lit(t), NEW f, NEW sv, Kept(t, f, sv, TRUE),
         NEW j \in Streams!Std, sv[j] = 0, NEW v \in Files \ {"none"},
         NEW a \in Streams!Free(f)
  PROVE  Kept(t, [f EXCEPT ![a] = f[j], ![j] = v], [sv EXCEPT ![j] = a], TRUE)
<1>1. /\ f \in FdTable /\ sv \in [Streams!Std -> Slot] /\ a \in Streams!Descriptors /\ f[a] = "none"
      /\ f[1] # "none" /\ f[2] # "none" /\ t[1] # "none" /\ t[2] # "none"
  BY Numbers DEF Kept, Streams!Free, Lit
<1>2. a \notin Streams!Std /\ a # 0
  BY <1>1, Numbers
<1>3. \A s \in Streams!Std : sv[s] # a
  <2>1. ASSUME NEW s \in Streams!Std, sv[s] = a PROVE FALSE
    BY <2>1, <1>1, <1>2, Numbers DEF Kept, Lit
  <2>2. QED
    BY <2>1
<1>4. t[a] = "none"
  BY <1>1, <1>2, <1>3 DEF Kept
<1>5. f[j] = t[j]
  BY DEF Kept
<1> DEFINE g == [f EXCEPT ![a] = f[j], ![j] = v]
           w == [sv EXCEPT ![j] = a]
<1>6. /\ g \in FdTable /\ g[j] = v /\ g[a] = t[j]
      /\ \A d \in Streams!Descriptors : d # a /\ d # j => g[d] = f[d]
  BY <1>1, <1>2, <1>5, Numbers DEF FdTable
<1>7. /\ w \in [Streams!Std -> Slot] /\ w[j] = a /\ \A s \in Streams!Std : s # j => w[s] = sv[s]
  BY <1>1, <1>2, Numbers DEF Slot
<1> HIDE DEF g, w
<1>8. Lit(g)
  BY <1>1, <1>2, <1>6, Numbers DEF Lit
<1>9. ASSUME NEW s \in Streams!Std PROVE w[s] = 0 => g[s] = t[s]
  BY <1>2, <1>6, <1>7, Numbers DEF Kept
<1>10. ASSUME NEW s \in Streams!Std, w[s] # 0 PROVE t[w[s]] = "none" /\ g[w[s]] = t[s]
  <2>1. CASE s = j
    BY <2>1, <1>4, <1>6, <1>7
  <2>2. CASE s # j
    <3>1. w[s] = sv[s] /\ sv[s] # a /\ sv[s] \in Streams!Descriptors \ Streams!Std
      BY <2>2, <1>1, <1>3, <1>7, <1>10 DEF Slot
    <3>2. t[sv[s]] = "none" /\ f[sv[s]] = t[s]
      BY <3>1, <1>10 DEF Kept
    <3>3. QED
      BY <3>1, <3>2, <1>6, Numbers
  <2>3. QED
    BY <2>1, <2>2
<1>11. w[1] # 0 => w[1] # w[2]
  BY <1>3, <1>7, Numbers DEF Kept
<1>12. ASSUME NEW d \in Streams!Descriptors \ Streams!Std, \A s \in Streams!Std : d # w[s]
       PROVE  g[d] = t[d]
  <2>1. d # a /\ d # j
    BY <1>12, <1>7
  <2>2. \A s \in Streams!Std : d # sv[s]
    BY <1>12, <1>7, <2>1, Numbers
  <2>3. QED
    BY <2>1, <2>2, <1>6 DEF Kept
<1>13. QED
  BY <1>6, <1>7, <1>8, <1>9, <1>10, <1>11, <1>12 DEF Kept, g, w

LEMMA KeptReplaces ==
  ASSUME NEW t \in FdTable, NEW f, NEW sv, Kept(t, f, sv, FALSE),
         NEW j \in Streams!Std, NEW v \in Files \ {"none"}
  PROVE  Kept(t, [f EXCEPT ![j] = v], sv, FALSE)
<1>1. f \in FdTable
  BY DEF Kept
<1> DEFINE g == [f EXCEPT ![j] = v]
<1>2. g \in FdTable /\ g[j] = v /\ \A d \in Streams!Descriptors : d # j => g[d] = f[d]
  BY <1>1, Numbers DEF FdTable
<1> HIDE DEF g
<1>3. Lit(g)
  BY <1>2, Numbers DEF Kept, Lit
<1>4. Kept(t, g, sv, FALSE)
  BY <1>2, <1>3, Numbers DEF Kept
<1>5. QED
  BY <1>4 DEF g

\* After a list has saved at most one stream two descriptors are still free.
LEMMA TwoLeft ==
  ASSUME NEW t \in FdTable, Lit(t), Room(t), NEW f, NEW sv,
         \A d \in Streams!Descriptors \ Streams!Std :
            (\A s \in Streams!Std : d # sv[s]) => f[d] = t[d]
  PROVE  \E x, y \in Streams!Free(f) : x # y
<1>1. PICK p, q, c, d \in Streams!Free(t) : p # q /\ p # c /\ p # d /\ q # c /\ q # d /\ c # d
  BY DEF Room
<1>2. ASSUME NEW e \in Streams!Free(t), \A s \in Streams!Std : e # sv[s] PROVE e \in Streams!Free(f)
  <2>1. e \in Streams!Descriptors \ Streams!Std /\ t[e] = "none"
    BY Numbers DEF Streams!Free, Lit
  <2>2. QED
    BY <1>2, <2>1 DEF Streams!Free
<1>3. ASSUME NEW e \in Streams!Free(t), e # sv[1], e # sv[2] PROVE e \in Streams!Free(f)
  BY <1>2, <1>3, Numbers
<1>4. QED
  BY <1>1, <1>3

LEMMA TwoFree ==
  ASSUME NEW t \in FdTable, Lit(t), Room(t), NEW f, NEW sv, NEW b, Kept(t, f, sv, b)
  PROVE  \E x, y \in Streams!Free(f) : x # y
<1>1. \A d \in Streams!Descriptors \ Streams!Std : (\A s \in Streams!Std : d # sv[s]) => f[d] = t[d]
  BY DEF Kept
<1>2. QED
  BY <1>1, TwoLeft

LEMMA SavedIs ==
  ASSUME NEW t \in FdTable, NEW s \in Streams!Std, Streams!Free(t) # {}
  PROVE  /\ Streams!Saved(t, s).at \in Streams!Free(t)
         /\ Streams!Saved(t, s).fds = [t EXCEPT ![Streams!Saved(t, s).at] = t[s]]
<1> DEFINE d == IF Streams!Free(t) = {} THEN 0 ELSE Streams!Lowest(Streams!Free(t))
<1>1. d \in Streams!Free(t)
  <2>1. Streams!Free(t) \subseteq Streams!Descriptors
    BY DEF Streams!Free
  <2>2. QED
    BY <2>1, LowestIn
<1>2. d # 0
  BY <1>1, Numbers DEF Streams!Free
<1>3. Streams!Saved(t, s) = [fds |-> [t EXCEPT ![d] = t[s]], at |-> d]
  BY <1>2 DEF Streams!Saved
<1> HIDE DEF d
<1>4. QED
  BY <1>1, <1>3

\* A stage of a list: what it has saved is Kept.
Good(t, st, b) == st \in Stage /\ Kept(t, st.fds, st.saved, b)

\* A redirection of a list that can be carried out by itself.
Plain(r) == /\ r \in Redirs /\ r.fd \in Streams!Std /\ r.to \notin {"here", "wrong", "move"}
            /\ r.of \in Streams!Std \cup {0}

\* One redirection leaves the other stream alone and does what it says.
Does(st, st2, r) ==
  /\ \A s \in Streams!Std : s # r.fd => st2.fds[s] = st.fds[s] /\ st2.saved[s] = st.saved[s]
  /\ st2.ok => st2.fds[r.fd] = Streams!Asked(st.fds, r)[r.fd]

\* The stream j goes to a free descriptor, if it is to be saved.
Saves(st, save, j, b) ==
  /\ save \in Stage /\ save.ok = st.ok /\ save.emptied = st.emptied
  /\ ~b => save = st
  /\ b => \E a \in Streams!Free(st.fds) :
             save.fds = [st.fds EXCEPT ![a] = st.fds[j]] /\ save.saved = [st.saved EXCEPT ![j] = a]

LEMMA SavesOrNot ==
  ASSUME NEW st \in Stage, NEW j \in Streams!Std, NEW b \in BOOLEAN, Streams!Free(st.fds) # {},
         Lit(st.fds)
  PROVE  Saves(st, Streams!SaveIfStd(st, j, b), j, b)
<1>1. CASE ~b
  BY <1>1 DEF Streams!SaveIfStd, Saves
<1>2. CASE b
  <2> DEFINE s == Streams!Saved(st.fds, j)
  <2>1. st.fds \in FdTable /\ st.saved \in [Streams!Std -> Slot]
    BY DEF Stage
  <2>2. s.at \in Streams!Free(st.fds) /\ s.fds = [st.fds EXCEPT ![s.at] = st.fds[j]]
    BY <2>1, SavedIs
  <2>3. Streams!SaveIfStd(st, j, b) = [st EXCEPT !.fds = s.fds, !.saved[j] = s.at]
    BY <1>2 DEF Streams!SaveIfStd
  <2> DEFINE f == s.fds
             a == s.at
             w == [st.saved EXCEPT ![j] = a]
             st2 == [st EXCEPT !.fds = f, !.saved = w]
  <2>4. Streams!SaveIfStd(st, j, b) = st2
    BY <2>3 DEF Stage
  <2> HIDE DEF s
  <2>5. a \in Slot \ {0}
    BY <2>1, <2>2, Numbers DEF Streams!Free, Slot, Lit
  <2>6. f \in FdTable
    BY <2>1, <2>2, Numbers DEF FdTable
  <2>7. w \in [Streams!Std -> Slot]
    BY <2>1, <2>5
  <2> HIDE DEF f, w
  <2>8. st2.fds = f /\ st2.saved = w /\ st2.ok = st.ok /\ st2.emptied = st.emptied /\ st2 \in Stage
    BY <2>6, <2>7 DEF Stage
  <2>9. QED
    BY <1>2, <2>2, <2>4, <2>8 DEF f, w, Saves
<1>3. QED
  BY <1>1, <1>2

\* What a redirection comes to: the stream is saved, if it is to be, and replaced.
Replaces(st, st2, j, v, b) ==
  /\ st2.ok \in BOOLEAN /\ st2.emptied \in SUBSET Regular
  /\ st2 = [fds |-> st2.fds, saved |-> st2.saved, ok |-> st2.ok, emptied |-> st2.emptied]
  /\ ~b => st2.fds = [st.fds EXCEPT ![j] = v] /\ st2.saved = st.saved
  /\ b => \E a \in Streams!Free(st.fds) :
             /\ st2.fds = [st.fds EXCEPT ![a] = st.fds[j], ![j] = v]
             /\ st2.saved = [st.saved EXCEPT ![j] = a]

LEMMA Replaced ==
  ASSUME NEW t \in FdTable, Lit(t), NEW st, NEW b \in BOOLEAN, Good(t, st, b),
         NEW j \in Streams!Std, st.saved[j] = 0, NEW v \in Files \ {"none"},
         NEW st2, Replaces(st, st2, j, v, b)
  PROVE  /\ Good(t, st2, b) /\ st2.fds[j] = v
         /\ \A s \in Streams!Std : s # j => st2.fds[s] = st.fds[s] /\ st2.saved[s] = st.saved[s]
<1> DEFINE f == st.fds
           w == st.saved
<1>1. /\ Kept(t, f, w, b) /\ f \in FdTable /\ w \in [Streams!Std -> Slot]
      /\ \A s \in Streams!Std : f[s] # "none"
  BY DEF Good, Kept, Lit
<1>2. Kept(t, st2.fds, st2.saved, b)
  <2>1. CASE b
    <3>1. PICK a \in Streams!Free(f) : /\ st2.fds = [f EXCEPT ![a] = f[j], ![j] = v]
                                      /\ st2.saved = [w EXCEPT ![j] = a]
      BY <2>1 DEF Replaces
    <3>2. Kept(t, f, w, TRUE) /\ w[j] = 0
      BY <1>1, <2>1
    <3>3. Kept(t, [f EXCEPT ![a] = f[j], ![j] = v], [w EXCEPT ![j] = a], TRUE)
      BY <3>2, KeptSaves
    <3>4. QED
      BY <3>1, <3>3, <2>1
  <2>2. CASE ~b
    <3>1. Kept(t, f, w, FALSE)
      BY <1>1, <2>2
    <3>2. Kept(t, [f EXCEPT ![j] = v], w, FALSE)
      BY <3>1, KeptReplaces
    <3>3. QED
      BY <3>2, <2>2 DEF Replaces
  <2>3. QED
    BY <2>1, <2>2
<1>3. st2 \in Stage
  BY <1>2 DEF Kept, Stage, Replaces
<1>4. st2.fds[j] = v /\ \A s \in Streams!Std : s # j => st2.fds[s] = f[s] /\ st2.saved[s] = w[s]
  <2>1. CASE b
    <3>1. PICK a \in Streams!Free(f) : /\ st2.fds = [f EXCEPT ![a] = f[j], ![j] = v]
                                      /\ st2.saved = [w EXCEPT ![j] = a]
      BY <2>1 DEF Replaces
    <3>2. a \notin Streams!Std
      BY <1>1 DEF Streams!Free
    <3> HIDE DEF f, w
    <3>3. QED
      BY <3>1, <3>2, <1>1, Numbers DEF FdTable
  <2>2. CASE ~b
    BY <2>2, <1>1, Numbers DEF FdTable, Replaces
  <2>3. QED
    BY <2>1, <2>2
<1>5. QED
  BY <1>2, <1>3, <1>4 DEF Good

LEMMA SaveReplaces ==
  ASSUME NEW st \in Stage, NEW j \in Streams!Std, NEW b \in BOOLEAN, Streams!Free(st.fds) # {},
         Lit(st.fds), NEW v, NEW save, save = Streams!SaveIfStd(st, j, b)
  PROVE  Replaces(st, [save EXCEPT !.fds[j] = v], j, v, b)
<1>1. Saves(st, save, j, b)
  BY SavesOrNot
<1> DEFINE f == [save.fds EXCEPT ![j] = v]
           st2 == [save EXCEPT !.fds = f]
<1>2. [save EXCEPT !.fds[j] = v] = st2
  BY <1>1 DEF Stage, Saves
<1> HIDE DEF f
<1>3. /\ st2.fds = f /\ st2.saved = save.saved /\ st2.ok = st.ok /\ st2.emptied = st.emptied
      /\ st2 = [fds |-> f, saved |-> save.saved, ok |-> st.ok, emptied |-> st.emptied]
      /\ st.ok \in BOOLEAN /\ st.emptied \in SUBSET Regular
  BY <1>1 DEF Stage, Saves
<1> HIDE DEF st2
<1>4. ASSUME ~b PROVE st2.fds = [st.fds EXCEPT ![j] = v] /\ st2.saved = st.saved
  BY <1>1, <1>3, <1>4 DEF f, Saves
<1>5. ASSUME b
      PROVE  \E a \in Streams!Free(st.fds) : /\ st2.fds = [st.fds EXCEPT ![a] = st.fds[j], ![j] = v]
                                             /\ st2.saved = [st.saved EXCEPT ![j] = a]
  <2>1. PICK a \in Streams!Free(st.fds) :
          save.fds = [st.fds EXCEPT ![a] = st.fds[j]] /\ save.saved = [st.saved EXCEPT ![j] = a]
    BY <1>1, <1>5 DEF Saves
  <2>2. st2.fds = [st.fds EXCEPT ![a] = st.fds[j], ![j] = v]
    BY <2>1, <1>3 DEF f
  <2>3. QED
    BY <2>1, <2>2, <1>3
<1>6. Replaces(st, st2, j, v, b)
  BY <1>3, <1>4, <1>5 DEF Replaces
<1>7. QED
  BY <1>2, <1>6

LEMMA ClosesIs ==
  ASSUME NEW t \in FdTable, Lit(t), Room(t), NEW st, NEW b \in BOOLEAN, Good(t, st, b),
         NEW r, Plain(r), st.saved[r.fd] = 0, r.to = "closed"
  PROVE  Good(t, Streams!Closes(st, r, b), b) /\ Does(st, Streams!Closes(st, r, b), r)
<1> DEFINE j == r.fd
           save == Streams!SaveIfStd(st, j, b)
           st2 == [save EXCEPT !.fds[j] = Device]
<1>1. j \in Streams!Std /\ st \in Stage /\ st.fds \in FdTable /\ Lit(st.fds) /\ Streams!Free(st.fds) # {}
  BY TwoFree DEF Good, Kept, Plain, Stage
<1>2. Replaces(st, st2, j, Device, b)
  BY <1>1, SaveReplaces
<1>3. Streams!Closes(st, r, b) = st2
  BY <1>1 DEF Streams!Closes
<1>4. Device \in Files \ {"none"} /\ Device = Streams!Asked(st.fds, r)[r.fd]
  <2>1. Streams!Asked(st.fds, r) = [st.fds EXCEPT ![r.fd] = Device]
    BY DEF Streams!Asked
  <2>2. QED
    BY <2>1, <1>1, Kinds, Numbers DEF Files, FdTable
<1> HIDE DEF st2
<1>5. /\ Good(t, st2, b) /\ st2.fds[j] = Device
      /\ \A s \in Streams!Std : s # j => st2.fds[s] = st.fds[s] /\ st2.saved[s] = st.saved[s]
  BY <1>1, <1>2, <1>4, Replaced
<1>6. QED
  BY <1>3, <1>4, <1>5 DEF Does

LEMMA DuplicatesIs ==
  ASSUME NEW t \in FdTable, Lit(t), Room(t), NEW st, NEW b \in BOOLEAN, Good(t, st, b),
         NEW r, Plain(r), st.saved[r.fd] = 0, r.to = "dup"
  PROVE  Good(t, Streams!Duplicates(st, r, b), b) /\ Does(st, Streams!Duplicates(st, r, b), r)
<1> DEFINE j == r.fd
           v == st.fds[r.of]
           save == Streams!SaveIfStd(st, j, b)
           st2 == [save EXCEPT !.fds[j] = v]
<1>1. j \in Streams!Std /\ st \in Stage /\ st.fds \in FdTable /\ Lit(st.fds) /\ Streams!Free(st.fds) # {}
  BY TwoFree DEF Good, Kept, Plain, Stage
<1>2. r.of \in Streams!Std
  BY RedirIs DEF Plain
<1>3. Replaces(st, st2, j, v, b)
  BY <1>1, SaveReplaces
<1>4. save.fds[r.of] = v
  <2>1. Saves(st, save, j, b)
    BY <1>1, SavesOrNot
  <2>2. \A a \in Streams!Free(st.fds) : a # r.of
    BY <1>1, <1>2 DEF Streams!Free, Lit
  <2> HIDE DEF save
  <2>3. QED
    BY <2>1, <2>2, <1>1, <1>2, Numbers DEF FdTable, Saves
<1>5. v \in Files \ {"none"}
  BY <1>1, <1>2, Numbers DEF Lit, FdTable
<1>6. Streams!Duplicates(st, r, b) = st2
  BY <1>4, <1>5 DEF Streams!Duplicates
<1>7. v = Streams!Asked(st.fds, r)[r.fd]
  <2>1. Streams!Asked(st.fds, r) = [st.fds EXCEPT ![r.fd] = st.fds[r.of]]
    BY DEF Streams!Asked
  <2>2. QED
    BY <2>1, <1>1, Numbers DEF FdTable
<1> HIDE DEF st2, v
<1>8. /\ Good(t, st2, b) /\ st2.fds[j] = v
      /\ \A s \in Streams!Std : s # j => st2.fds[s] = st.fds[s] /\ st2.saved[s] = st.saved[s]
  BY <1>1, <1>3, <1>5, Replaced
<1>9. QED
  BY <1>6, <1>7, <1>8 DEF Does

LEMMA OpensIs ==
  ASSUME NEW t \in FdTable, Lit(t), Room(t), NEW st, NEW b \in BOOLEAN, Good(t, st, b),
         NEW r, Plain(r), st.saved[r.fd] = 0, r.to \notin {"closed", "dup"}
  PROVE  Good(t, Streams!Opens(st, r, b), b) /\ Does(st, Streams!Opens(st, r, b), r)
<1> DEFINE j == r.fd
           v == r.to
<1>1. j \in Streams!Std /\ st \in Stage /\ st.fds \in FdTable /\ Lit(st.fds)
  BY DEF Good, Kept, Plain, Stage
<1>2. PICK x, y \in Streams!Free(st.fds) : x # y
  BY TwoFree DEF Good
<1>3. CASE r.to = "missing"
  <2> DEFINE st2 == [st EXCEPT !.ok = FALSE]
  <2>1. Streams!Opens(st, r, b) = st2
    BY <1>3 DEF Streams!Opens
  <2>2. st2 \in Stage /\ st2.fds = st.fds /\ st2.saved = st.saved /\ st2.ok = FALSE
    BY <1>1 DEF Stage
  <2> HIDE DEF st2
  <2>3. QED
    BY <2>1, <2>2 DEF Good, Does
<1>4. CASE r.to # "missing"
  <2>1. v \in Regular \cup {Device} /\ v \in Files \ {"none"}
    BY <1>4, RedirIs, Kinds DEF Plain, Streams!Kinds, Files
  <2> DEFINE d == Streams!Lowest(Streams!Free(st.fds))
             f == [st.fds EXCEPT ![d] = v]
             open == [st EXCEPT !.fds = f, !.emptied = @ \cup ({v} \cap Regular)]
             save == Streams!SaveIfStd(open, j, b)
             g == [save.fds EXCEPT ![j] = v, ![d] = "none"]
             st2 == [save EXCEPT !.fds = g]
  <2>2. d \in Streams!Free(st.fds)
    BY <1>2, LowestIn DEF Streams!Free
  <2>3. d \in Streams!Descriptors /\ d \notin Streams!Std /\ st.fds[d] = "none" /\ d # j
    BY <2>2, <1>1 DEF Streams!Free, Lit
  <2>4. Streams!Opens(st, r, b) = st2
    <3>1. [st EXCEPT !.fds[d] = v, !.emptied = @ \cup ({v} \cap Regular)] = open
      BY <1>1 DEF Stage
    <3>2. Streams!Opens(st, r, b) = [save EXCEPT !.fds = [@ EXCEPT ![j] = v, ![d] = "none"]]
      <4> HIDE DEF d, save, open
      <4>1. ~(r.to = "missing" \/ Streams!Free(st.fds) = {})
        BY <1>4, <1>2
      <4>2. d # r.fd
        BY <2>3
      <4>3. QED
        BY <4>1, <4>2, <3>1 DEF Streams!Opens, d, save
    <3> HIDE DEF save
    <3>3. [save EXCEPT !.fds = [@ EXCEPT ![j] = v, ![d] = "none"]] = [save EXCEPT !.fds = g]
      OBVIOUS
    <3>4. QED
      BY <3>2, <3>3
  <2> HIDE DEF d
  <2>5. /\ f \in FdTable /\ f[d] = v /\ \A e \in Streams!Descriptors : e # d => f[e] = st.fds[e]
    BY <2>1, <2>3, <1>1 DEF FdTable
  <2> HIDE DEF f
  <2>6. /\ open \in Stage /\ open.fds = f /\ open.saved = st.saved /\ open.ok = st.ok
    BY <2>5, <1>1 DEF Stage
  <2> HIDE DEF open
  <2>7. Lit(f)
    BY <2>3, <2>5, <1>1, Numbers DEF Lit
  <2>8. \A a \in Streams!Free(f) : a \in Streams!Free(st.fds) /\ a # d /\ a # j
    BY <2>1, <2>5, <2>7, <1>1, Numbers DEF Streams!Free, Lit
  <2>9. Streams!Free(f) # {}
    <3>1. \A e \in Streams!Free(st.fds) : e # d => e \in Streams!Free(f)
      BY <2>5 DEF Streams!Free
    <3>2. QED
      BY <3>1, <1>2
  <2>10. Saves(open, save, j, b)
    BY <2>6, <2>7, <2>9, <1>1, SavesOrNot
  <2> HIDE DEF save
  <2>11. save.fds \in FdTable /\ st2.fds = g /\ st2.saved = save.saved /\ st2.ok = st.ok
         /\ st2.emptied = save.emptied /\ save.emptied \in SUBSET Regular /\ st.ok \in BOOLEAN
         /\ st2 = [fds |-> g, saved |-> save.saved, ok |-> st.ok, emptied |-> save.emptied]
    BY <2>6, <2>10, <1>1 DEF Stage, Saves
  <2> HIDE DEF st2
  <2>12. ASSUME ~b PROVE g = [st.fds EXCEPT ![j] = v] /\ save.saved = st.saved
    <3>1. save.fds = f /\ save.saved = st.saved
      BY <2>12, <2>10, <2>6 DEF Saves
    <3>2. \A e \in Streams!Descriptors : g[e] = [st.fds EXCEPT ![j] = v][e]
      BY <3>1, <2>5, <2>3, <1>1, Numbers DEF FdTable
    <3>3. QED
      BY <3>1, <3>2, <2>11, <1>1 DEF FdTable
  <2>13. ASSUME b
         PROVE  \E a \in Streams!Free(st.fds) : /\ g = [st.fds EXCEPT ![a] = st.fds[j], ![j] = v]
                                                /\ save.saved = [st.saved EXCEPT ![j] = a]
    <3>1. PICK a \in Streams!Free(f) :
            save.fds = [f EXCEPT ![a] = f[j]] /\ save.saved = [st.saved EXCEPT ![j] = a]
      BY <2>6, <2>10, <2>13 DEF Saves
    <3>2. a \in Streams!Free(st.fds) /\ a # d /\ a # j /\ a \in Streams!Descriptors
      BY <2>8 DEF Streams!Free
    <3> DEFINE h == [st.fds EXCEPT ![a] = st.fds[j], ![j] = v]
    <3>3. f[j] = st.fds[j]
      BY <2>3, <2>5, <1>1, Numbers
    <3>4. \A e \in Streams!Descriptors : g[e] = h[e]
      <4>1. save.fds \in FdTable /\ st.fds \in FdTable
        BY <2>11, <1>1
      <4>2. \A e \in Streams!Descriptors :
              g[e] = IF e = d THEN "none" ELSE IF e = j THEN v ELSE save.fds[e]
        BY <4>1, <2>3 DEF FdTable
      <4>3. \A e \in Streams!Descriptors :
              h[e] = IF e = j THEN v ELSE IF e = a THEN st.fds[j] ELSE st.fds[e]
        BY <4>1, <3>2 DEF FdTable
      <4>4. \A e \in Streams!Descriptors : save.fds[e] = IF e = a THEN st.fds[j] ELSE f[e]
        BY <3>1, <3>3, <2>5 DEF FdTable
      <4> HIDE DEF g, h
      <4>5. QED
        BY <4>2, <4>3, <4>4, <3>2, <2>3, <2>5
    <3>5. g = h
      <4>1. g = [e \in Streams!Descriptors |-> g[e]] /\ h = [e \in Streams!Descriptors |-> h[e]]
        BY <2>11, <1>1 DEF FdTable
      <4> HIDE DEF g, h
      <4>2. QED
        BY <4>1, <3>4
    <3>6. QED
      BY <3>1, <3>2, <3>5
  <2>14. Replaces(st, st2, j, v, b)
    BY <2>11, <2>12, <2>13 DEF Replaces
  <2>15. v = Streams!Asked(st.fds, r)[r.fd]
    <3>1. Streams!Asked(st.fds, r) = [st.fds EXCEPT ![r.fd] = r.to]
      BY <2>1, Kinds DEF Streams!Asked
    <3>2. QED
      BY <3>1, <1>1, Numbers DEF FdTable
  <2>16. /\ Good(t, st2, b) /\ st2.fds[j] = v
         /\ \A s \in Streams!Std : s # j => st2.fds[s] = st.fds[s] /\ st2.saved[s] = st.saved[s]
    BY <1>1, <2>1, <2>14, Replaced
  <2>17. QED
    BY <2>4, <2>15, <2>16 DEF Does
<1>5. QED
  BY <1>3, <1>4

LEMMA DoOneIs ==
  ASSUME NEW t \in FdTable, Lit(t), Room(t), NEW st, NEW b \in BOOLEAN, Good(t, st, b),
         NEW r, Plain(r), st.saved[r.fd] = 0
  PROVE  /\ Good(t, Streams!DoOne(st, r, b), b)
         /\ Streams!DoOne(st, r, b).ok => st.ok /\ Does(st, Streams!DoOne(st, r, b), r)
<1>1. CASE ~st.ok
  BY <1>1 DEF Streams!DoOne
<1>2. CASE st.ok /\ r.to = "closed"
  BY <1>2, ClosesIs DEF Streams!DoOne
<1>3. CASE st.ok /\ r.to = "dup"
  BY <1>3, DuplicatesIs DEF Streams!DoOne
<1>4. CASE st.ok /\ r.to \notin {"closed", "dup"}
  <2>1. Streams!DoOne(st, r, b) = Streams!Opens(st, r, b)
    BY <1>4 DEF Streams!DoOne, Plain
  <2>2. QED
    BY <2>1, <1>4, OpensIs
<1>5. QED
  BY <1>1, <1>2, <1>3, <1>4

-----------------------------------------------------------------------------
\* The loops over a list, which has two redirections at most.
Unprepared(t) == [fds |-> t, slots |-> <<>>, total |-> 0]
Undone(t) == [fds |-> t, saved |-> Streams!None, ok |-> TRUE, emptied |-> {}]

LEMMA ListIs ==
  ASSUME NEW l \in Streams!Lists
  PROVE  /\ l \in Seq(Redirs) /\ Len(l) \in {0, 1, 2} /\ DOMAIN l = 1 .. Len(l)
         /\ \A i \in 1 .. Len(l) : l[i] \in Redirs
<1>1. PICK n \in 0 .. 2 : l \in [1 .. n -> Redirs]
  BY DEF Streams!Lists
<1>2. QED
  BY <1>1

LEMMA PreparedIs ==
  ASSUME NEW t, NEW l, NEW n \in {0, 1, 2}, Len(l) = n
  PROVE  /\ n = 0 => Streams!Prepared(t, l) = Unprepared(t)
         /\ n = 1 => Streams!Prepared(t, l) = Streams!PrepNode(Unprepared(t), l[1])
         /\ n = 2 => Streams!Prepared(t, l)
                       = Streams!PrepNode(Streams!PrepNode(Unprepared(t), l[1]), l[2])
<1> DEFINE Runs(p) == p = [i \in 0 .. n |-> IF i = 0 THEN Unprepared(t)
                                              ELSE Streams!PrepNode(p[i - 1], l[i])]
           one == Streams!PrepNode(Unprepared(t), l[1])
           two == Streams!PrepNode(one, l[2])
           w == [i \in 0 .. n |-> IF i = 0 THEN Unprepared(t) ELSE IF i = 1 THEN one ELSE two]
           p == CHOOSE p : Runs(p)
<1>1. Runs(w)
  <2>1. \A i \in 0 .. n : w[i] = IF i = 0 THEN Unprepared(t) ELSE Streams!PrepNode(w[i - 1], l[i])
    <3>1. ASSUME NEW i \in 0 .. n
          PROVE  w[i] = IF i = 0 THEN Unprepared(t) ELSE Streams!PrepNode(w[i - 1], l[i])
      <4>1. i = 0 \/ i = 1 \/ i = 2
        OBVIOUS
      <4>2. CASE i = 0
        BY <4>2
      <4>3. CASE i = 1
        <5>1. w[0] = Unprepared(t) /\ w[1] = one
          BY <4>3
        <5> HIDE DEF w
        <5>2. QED
          BY <5>1, <4>3
      <4>4. CASE i = 2
        <5>1. w[1] = one /\ w[2] = two
          BY <4>4
        <5> HIDE DEF w, one
        <5>2. QED
          BY <5>1, <4>4
      <4>5. QED
        BY <4>1, <4>2, <4>3, <4>4
    <3>2. QED
      BY <3>1
  <2>2. QED
    BY <2>1
<1>2. Runs(p)
  BY <1>1
<1>3. Streams!Prepared(t, l) = p[n]
  BY DEF Streams!Prepared, Unprepared
<1> HIDE DEF p
<1>4. /\ n >= 0 => p[0] = Unprepared(t)
      /\ n >= 1 => p[1] = Streams!PrepNode(p[0], l[1])
      /\ n >= 2 => p[2] = Streams!PrepNode(p[1], l[2])
  BY <1>2
<1>5. /\ n = 0 => p[n] = Unprepared(t)
      /\ n = 1 => p[n] = Streams!PrepNode(Unprepared(t), l[1])
      /\ n = 2 => p[n] = Streams!PrepNode(Streams!PrepNode(Unprepared(t), l[1]), l[2])
  <2>1. CASE n = 0
    BY <2>1, <1>4
  <2>2. CASE n = 1
    <3>1. p[0] = Unprepared(t) /\ p[1] = Streams!PrepNode(p[0], l[1])
      BY <2>2, <1>4
    <3>2. QED
      BY <3>1, <2>2
  <2>3. CASE n = 2
    <3>1. p[0] = Unprepared(t) /\ p[1] = Streams!PrepNode(p[0], l[1]) /\ p[2] = Streams!PrepNode(p[1], l[2])
      BY <2>3, <1>4
    <3>2. QED
      BY <3>1, <2>3
  <2>4. QED
    BY <2>1, <2>2, <2>3
<1>6. QED
  BY <1>3, <1>5

LEMMA DoneIs ==
  ASSUME NEW t, NEW l, NEW b, NEW n \in {0, 1, 2}, Len(l) = n
  PROVE  /\ n = 0 => Streams!Done(t, l, b) = Undone(t)
         /\ n = 1 => Streams!Done(t, l, b) = Streams!DoOne(Undone(t), l[1], b)
         /\ n = 2 => Streams!Done(t, l, b) = Streams!DoOne(Streams!DoOne(Undone(t), l[1], b), l[2], b)
<1> DEFINE Runs(p) == p = [i \in 0 .. n |-> IF i = 0 THEN Undone(t)
                                              ELSE Streams!DoOne(p[i - 1], l[i], b)]
           one == Streams!DoOne(Undone(t), l[1], b)
           two == Streams!DoOne(one, l[2], b)
           w == [i \in 0 .. n |-> IF i = 0 THEN Undone(t) ELSE IF i = 1 THEN one ELSE two]
           p == CHOOSE p : Runs(p)
<1>1. Runs(w)
  <2>1. \A i \in 0 .. n : w[i] = IF i = 0 THEN Undone(t) ELSE Streams!DoOne(w[i - 1], l[i], b)
    <3>1. ASSUME NEW i \in 0 .. n
          PROVE  w[i] = IF i = 0 THEN Undone(t) ELSE Streams!DoOne(w[i - 1], l[i], b)
      <4>1. i = 0 \/ i = 1 \/ i = 2
        OBVIOUS
      <4>2. CASE i = 0
        BY <4>2
      <4>3. CASE i = 1
        <5>1. w[0] = Undone(t) /\ w[1] = one
          BY <4>3
        <5> HIDE DEF w
        <5>2. QED
          BY <5>1, <4>3
      <4>4. CASE i = 2
        <5>1. w[1] = one /\ w[2] = two
          BY <4>4
        <5> HIDE DEF w, one
        <5>2. QED
          BY <5>1, <4>4
      <4>5. QED
        BY <4>1, <4>2, <4>3, <4>4
    <3>2. QED
      BY <3>1
  <2>2. QED
    BY <2>1
<1>2. Runs(p)
  BY <1>1
<1>3. Streams!Done(t, l, b) = p[n]
  BY DEF Streams!Done, Undone
<1> HIDE DEF p
<1>4. /\ n >= 0 => p[0] = Undone(t)
      /\ n >= 1 => p[1] = Streams!DoOne(p[0], l[1], b)
      /\ n >= 2 => p[2] = Streams!DoOne(p[1], l[2], b)
  BY <1>2
<1>5. /\ n = 0 => p[n] = Undone(t)
      /\ n = 1 => p[n] = Streams!DoOne(Undone(t), l[1], b)
      /\ n = 2 => p[n] = Streams!DoOne(Streams!DoOne(Undone(t), l[1], b), l[2], b)
  <2>1. CASE n = 0
    BY <2>1, <1>4
  <2>2. CASE n = 1
    <3>1. p[0] = Undone(t) /\ p[1] = Streams!DoOne(p[0], l[1], b)
      BY <2>2, <1>4
    <3>2. QED
      BY <3>1, <2>2
  <2>3. CASE n = 2
    <3>1. p[0] = Undone(t) /\ p[1] = Streams!DoOne(p[0], l[1], b) /\ p[2] = Streams!DoOne(p[1], l[2], b)
      BY <2>3, <1>4
    <3>2. QED
      BY <3>1, <2>3
  <2>4. QED
    BY <2>1, <2>2, <2>3
<1>6. QED
  BY <1>3, <1>5

LEMMA MeantIs ==
  ASSUME NEW l, NEW n \in {0, 1, 2}, Len(l) = n
  PROVE  /\ n = 0 => Streams!Meant(l) = fds
         /\ n = 1 => Streams!Meant(l) = Streams!Asked(fds, l[1])
         /\ n = 2 => Streams!Meant(l) = Streams!Asked(Streams!Asked(fds, l[1]), l[2])
<1> DEFINE Runs(p) == p = [i \in 0 .. n |-> IF i = 0 THEN fds
                                              ELSE Streams!Asked(p[i - 1], l[i])]
           one == Streams!Asked(fds, l[1])
           two == Streams!Asked(one, l[2])
           w == [i \in 0 .. n |-> IF i = 0 THEN fds ELSE IF i = 1 THEN one ELSE two]
           p == CHOOSE p : Runs(p)
<1>1. Runs(w)
  <2>1. \A i \in 0 .. n : w[i] = IF i = 0 THEN fds ELSE Streams!Asked(w[i - 1], l[i])
    <3>1. ASSUME NEW i \in 0 .. n
          PROVE  w[i] = IF i = 0 THEN fds ELSE Streams!Asked(w[i - 1], l[i])
      <4>1. i = 0 \/ i = 1 \/ i = 2
        OBVIOUS
      <4>2. CASE i = 0
        BY <4>2
      <4>3. CASE i = 1
        <5>1. w[0] = fds /\ w[1] = one
          BY <4>3
        <5> HIDE DEF w
        <5>2. QED
          BY <5>1, <4>3
      <4>4. CASE i = 2
        <5>1. w[1] = one /\ w[2] = two
          BY <4>4
        <5> HIDE DEF w, one
        <5>2. QED
          BY <5>1, <4>4
      <4>5. QED
        BY <4>1, <4>2, <4>3, <4>4
    <3>2. QED
      BY <3>1
  <2>2. QED
    BY <2>1
<1>2. Runs(p)
  BY <1>1
<1>3. Streams!Meant(l) = p[n]
  BY DEF Streams!Meant
<1> HIDE DEF p
<1>4. /\ n >= 0 => p[0] = fds
      /\ n >= 1 => p[1] = Streams!Asked(p[0], l[1])
      /\ n >= 2 => p[2] = Streams!Asked(p[1], l[2])
  BY <1>2
<1>5. /\ n = 0 => p[n] = fds
      /\ n = 1 => p[n] = Streams!Asked(fds, l[1])
      /\ n = 2 => p[n] = Streams!Asked(Streams!Asked(fds, l[1]), l[2])
  <2>1. CASE n = 0
    BY <2>1, <1>4
  <2>2. CASE n = 1
    <3>1. p[0] = fds /\ p[1] = Streams!Asked(p[0], l[1])
      BY <2>2, <1>4
    <3>2. QED
      BY <3>1, <2>2
  <2>3. CASE n = 2
    <3>1. p[0] = fds /\ p[1] = Streams!Asked(p[0], l[1]) /\ p[2] = Streams!Asked(p[1], l[2])
      BY <2>3, <1>4
    <3>2. QED
      BY <3>1, <2>3
  <2>4. QED
    BY <2>1, <2>2, <2>3
<1>6. QED
  BY <1>3, <1>5

-----------------------------------------------------------------------------
\* A list of redirections that can each be carried out by itself.
Clean(l) == l \in Streams!Lists /\ \A i \in DOMAIN l : Plain(l[i]) /\ l[i].of # l[i].fd

\* A later redirection of a descriptor takes the place of an earlier one.
Slots(l) == IF Len(l) = 2 /\ l[1].fd = l[2].fd THEN <<l[2]>> ELSE l

LEMMA PrepPlain ==
  ASSUME NEW p, NEW r, Plain(r)
  PROVE  /\ (\A i \in DOMAIN p.slots : p.slots[i].fd # r.fd)
               => Streams!PrepNode(p, r)
                    = [fds |-> p.fds, slots |-> Append(p.slots, r), total |-> p.total + 1]
         /\ DOMAIN p.slots # {} /\ (\A i \in DOMAIN p.slots : p.slots[i].fd = r.fd)
               => Streams!PrepNode(p, r)
                    = [fds |-> p.fds, slots |-> [i \in DOMAIN p.slots |-> r], total |-> p.total + 1]
<1> DEFINE same == {i \in DOMAIN p.slots : p.slots[i].fd = r.fd}
<1>1. r.to # "wrong" /\ r.to # "here"
  BY DEF Plain
<1>2. Streams!PrepNode(p, r) =
           [fds |-> p.fds,
            slots |-> IF same = {} THEN Append(p.slots, r)
                      ELSE [i \in DOMAIN p.slots |-> IF i \in same THEN r ELSE p.slots[i]],
            total |-> p.total + 1]
  BY <1>1 DEF Streams!PrepNode
<1>3. ASSUME \A i \in DOMAIN p.slots : p.slots[i].fd # r.fd PROVE same = {}
  BY <1>3
<1>4. ASSUME DOMAIN p.slots # {}, \A i \in DOMAIN p.slots : p.slots[i].fd = r.fd
      PROVE  /\ same # {}
             /\ [i \in DOMAIN p.slots |-> IF i \in same THEN r ELSE p.slots[i]] = [i \in DOMAIN p.slots |-> r]
  BY <1>4
<1> HIDE DEF same
<1>5. QED
  BY <1>2, <1>3, <1>4

LEMMA TwoOf ==
  ASSUME NEW S, NEW x \in S, NEW y \in S, NEW l \in Seq(S), Len(l) = 2, l[1] = x, l[2] = y
  PROVE  Append(<<x>>, y) = l
  OBVIOUS

LEMMA CleanPrepared ==
  ASSUME NEW t, NEW l, Clean(l)
  PROVE  /\ Streams!Prepared(t, l).fds = t /\ Streams!Prepared(t, l).total = Len(l)
         /\ Streams!Prepared(t, l).slots = Slots(l)
<1>1. Len(l) \in {0, 1, 2} /\ l \in Seq(Redirs) /\ \A i \in 1 .. Len(l) : Plain(l[i])
  BY ListIs DEF Clean
<1>2. CASE Len(l) = 0
  <2>1. l = <<>>
    BY <1>1, <1>2
  <2>2. Streams!Prepared(t, l) = [fds |-> t, slots |-> <<>>, total |-> 0]
    BY <1>2, PreparedIs DEF Unprepared
  <2>3. Slots(l) = <<>>
    BY <2>1, <1>2 DEF Slots
  <2>4. QED
    BY <2>2, <2>3, <1>2
<1> DEFINE one == [fds |-> t, slots |-> <<l[1]>>, total |-> 1]
<1>3. ASSUME Len(l) > 0 PROVE Streams!PrepNode(Unprepared(t), l[1]) = one
  <2>1. Plain(l[1])
    BY <1>1, <1>3
  <2>2. \A i \in DOMAIN Unprepared(t).slots : Unprepared(t).slots[i].fd # l[1].fd
    BY DEF Unprepared
  <2>3. Append(<<>>, l[1]) = <<l[1]>>
    OBVIOUS
  <2>4. QED
    BY <2>1, <2>2, <2>3, PrepPlain DEF Unprepared
<1>4. CASE Len(l) = 1
  <2>1. l = <<l[1]>>
    BY <1>1, <1>4
  <2>2. Streams!Prepared(t, l) = one
    BY <1>1, <1>3, <1>4, PreparedIs
  <2>3. QED
    BY <2>1, <2>2, <1>4 DEF Slots
<1>5. CASE Len(l) = 2
  <2>1. Plain(l[2]) /\ l = <<l[1], l[2]>>
    BY <1>1, <1>5
  <2>2. DOMAIN one.slots = {1} /\ one.slots[1] = l[1] /\ one.slots = <<l[1]>> /\ one.fds = t /\ one.total = 1
    OBVIOUS
  <2>3. Streams!Prepared(t, l) = Streams!PrepNode(one, l[2])
    BY <1>1, <1>3, <1>5, PreparedIs
  <2> HIDE DEF one
  <2>4. CASE l[1].fd = l[2].fd
    <3>1. Streams!PrepNode(one, l[2])
            = [fds |-> one.fds, slots |-> [i \in DOMAIN one.slots |-> l[2]], total |-> one.total + 1]
      BY <2>1, <2>2, <2>4, PrepPlain
    <3>2. [i \in DOMAIN one.slots |-> l[2]] = <<l[2]>>
      BY <2>2
    <3>3. QED
      BY <2>2, <2>3, <2>4, <3>1, <3>2, <1>5 DEF Slots
  <2>5. CASE l[1].fd # l[2].fd
    <3>1. Streams!PrepNode(one, l[2])
            = [fds |-> one.fds, slots |-> Append(one.slots, l[2]), total |-> one.total + 1]
      BY <2>1, <2>2, <2>5, PrepPlain
    <3>5. Append(one.slots, l[2]) = l
      <4>1. l[1] \in Redirs /\ l[2] \in Redirs
        BY <1>1, <1>5
      <4>2. QED
        BY <4>1, <1>1, <1>5, <2>2, TwoOf
    <3>6. QED
      BY <2>2, <2>3, <2>5, <3>1, <3>5, <1>5 DEF Slots
  <2>6. QED
    BY <2>4, <2>5
<1>6. QED
  BY <1>1, <1>2, <1>4, <1>5

\* What a redirection asks for.
Wish(t, r) ==
  IF r.to = "dup" THEN t[r.of] ELSE IF r.to = "closed" THEN Device ELSE r.to

LEMMA AskedIs ==
  ASSUME NEW t, t = [d \in Streams!Descriptors |-> t[d]], NEW r, r \in Redirs, r.to # "move"
  PROVE  /\ Streams!Asked(t, r) = [d \in Streams!Descriptors |-> Streams!Asked(t, r)[d]]
         /\ \A d \in Streams!Descriptors :
               Streams!Asked(t, r)[d] = IF d = r.fd THEN Wish(t, r) ELSE t[d]
<1>1. r.fd \in Streams!Descriptors
  BY RedirIs
<1>2. Streams!Asked(t, r) = [t EXCEPT ![r.fd] = Wish(t, r)]
  <2>1. CASE r.to = "dup"
    BY <2>1 DEF Streams!Asked, Wish
  <2>2. CASE r.to = "closed"
    BY <2>2 DEF Streams!Asked, Wish
  <2>3. CASE r.to \notin {"dup", "closed"}
    BY <2>3 DEF Streams!Asked, Wish
  <2>4. QED
    BY <2>1, <2>2, <2>3
<1> DEFINE g == [t EXCEPT ![r.fd] = Wish(t, r)]
<1>3. g = [d \in Streams!Descriptors |-> g[d]]
  OBVIOUS
<1>4. \A d \in Streams!Descriptors : g[d] = IF d = r.fd THEN Wish(t, r) ELSE t[d]
  BY <1>1
<1> HIDE DEF g
<1>5. QED
  BY <1>2, <1>3, <1>4 DEF g

LEMMA CleanDone ==
  ASSUME fds \in FdTable, Lit(fds), Room(fds), NEW b \in BOOLEAN, NEW l, Clean(l), NEW st,
         st = Streams!Done(fds, Slots(l), b)
  PROVE  /\ Good(fds, st, b)
         /\ st.ok => \A s \in Streams!Std : st.fds[s] = Streams!Meant(l)[s]
         /\ Len(l) = 0 => st = Undone(fds)
<1> DEFINE st0 == Undone(fds)
<1>1. Len(l) \in {0, 1, 2} /\ l \in Seq(Redirs) /\ \A i \in 1 .. Len(l) : Plain(l[i]) /\ l[i].of # l[i].fd
  BY ListIs DEF Clean
<1>2. Good(fds, st0, b) /\ st0.fds = fds /\ \A s \in Streams!Std : st0.saved[s] = 0
  <2>1. Kept(fds, fds, Streams!None, b)
    BY KeptStarts
  <2>2. QED
    BY <2>1, Numbers DEF Undone, Good, Stage, Streams!None, Slot
<1>3. fds = [d \in Streams!Descriptors |-> fds[d]]
  BY DEF FdTable
<1>4. \A r : Plain(r) => r \in Redirs /\ r.to # "move" /\ r.fd \in Streams!Std
  BY DEF Plain
<1> HIDE DEF st0
<1>5. CASE Len(l) = 0
  <2>1. Len(Slots(l)) = 0
    BY <1>5 DEF Slots
  <2>2. st = st0
    BY <2>1, DoneIs DEF st0
  <2>3. Streams!Meant(l) = fds
    BY <1>5, MeantIs
  <2>4. QED
    BY <2>2, <2>3, <1>2 DEF st0
<1>6. ASSUME NEW r, Plain(r)
      PROVE  /\ Good(fds, Streams!DoOne(st0, r, b), b)
             /\ Streams!DoOne(st0, r, b).ok => Does(st0, Streams!DoOne(st0, r, b), r)
  <2>1. st0.saved[r.fd] = 0
    BY <1>2, <1>4, <1>6
  <2>2. QED
    BY <2>1, <1>2, <1>6, DoOneIs
<1>7. ASSUME NEW u, u \in FdTable, NEW r, Plain(r)
      PROVE  \A s \in Streams!Std : Streams!Asked(u, r)[s] = IF s = r.fd THEN Wish(u, r) ELSE u[s]
  <2>1. u = [d \in Streams!Descriptors |-> u[d]]
    BY <1>7 DEF FdTable
  <2>2. QED
    BY <2>1, <1>4, <1>7, AskedIs, Numbers
<1>8. CASE Len(l) = 1
  <2> DEFINE r == l[1]
  <2>1. Plain(r) /\ Len(Slots(l)) = 1 /\ Slots(l)[1] = r
    BY <1>1, <1>8 DEF Slots
  <2>2. st = Streams!DoOne(st0, r, b)
    BY <2>1, DoneIs DEF st0
  <2>3. Streams!Meant(l) = Streams!Asked(fds, r)
    BY <1>8, MeantIs
  <2> HIDE DEF r
  <2>4. Good(fds, st, b) /\ (st.ok => Does(st0, st, r))
    BY <2>1, <2>2, <1>6
  <2>5. ASSUME st.ok, NEW s \in Streams!Std PROVE st.fds[s] = Streams!Asked(fds, r)[s]
    BY <2>1, <2>4, <2>5, <1>2, <1>7 DEF Does
  <2>6. QED
    BY <2>3, <2>4, <2>5, <1>8
<1>9. CASE Len(l) = 2
  <2> DEFINE r1 == l[1]
             r2 == l[2]
  <2>1. Plain(r1) /\ Plain(r2) /\ r2.of # r2.fd
    BY <1>1, <1>9
  <2>2. Streams!Meant(l) = Streams!Asked(Streams!Asked(fds, r1), r2)
    BY <1>9, MeantIs
  <2> DEFINE u == Streams!Asked(fds, r1)
  <2>3. u = [d \in Streams!Descriptors |-> u[d]]
    BY <2>1, <1>3, <1>4, AskedIs
  <2>4. \A s \in Streams!Std : u[s] = IF s = r1.fd THEN Wish(fds, r1) ELSE fds[s]
    BY <2>1, <1>7
  <2>5. \A s \in Streams!Std : Streams!Meant(l)[s] = IF s = r2.fd THEN Wish(u, r2) ELSE u[s]
    <3> HIDE DEF u
    <3>1. \A d \in Streams!Descriptors : Streams!Asked(u, r2)[d] = IF d = r2.fd THEN Wish(u, r2) ELSE u[d]
      BY <2>1, <2>3, <1>4, AskedIs
    <3>2. QED
      BY <2>2, <3>1, Numbers DEF u
  <2>6. r2.to = "dup" => r2.of \in Streams!Std
    BY <2>1, RedirIs DEF Plain
  <2>7. CASE r1.fd = r2.fd
    <3>1. Len(Slots(l)) = 1 /\ Slots(l)[1] = r2
      BY <1>9, <2>7 DEF Slots
    <3>2. st = Streams!DoOne(st0, r2, b)
      BY <3>1, DoneIs DEF st0
    <3>3. Good(fds, st, b) /\ (st.ok => Does(st0, st, r2))
      BY <2>1, <3>2, <1>6
    <3>4. Wish(u, r2) = Wish(fds, r2)
      <4> HIDE DEF u
      <4>1. QED
        BY <2>1, <2>4, <2>6, <2>7 DEF Wish
    <3>5. ASSUME st.ok, NEW s \in Streams!Std PROVE st.fds[s] = Streams!Meant(l)[s]
      <4>1. st.fds[s] = IF s = r2.fd THEN Wish(fds, r2) ELSE fds[s]
        BY <2>1, <3>3, <3>5, <1>2, <1>7 DEF Does
      <4> HIDE DEF u, r1, r2
      <4>2. QED
        BY <4>1, <2>4, <2>5, <2>7, <3>4, <3>5
    <3>6. QED
      BY <3>3, <3>5, <1>9
  <2>8. CASE r1.fd # r2.fd
    <3> DEFINE st1 == Streams!DoOne(st0, r1, b)
    <3>1. Len(Slots(l)) = 2 /\ Slots(l)[1] = r1 /\ Slots(l)[2] = r2
      BY <1>9, <2>8 DEF Slots
    <3>2. st = Streams!DoOne(st1, r2, b)
      BY <3>1, DoneIs DEF st0
    <3>3. Good(fds, st1, b) /\ (st1.ok => Does(st0, st1, r1))
      BY <2>1, <1>6
    <3> HIDE DEF st1, r1, r2, u
    <3>4. CASE ~st1.ok
      <4>1. st = st1
        BY <3>2, <3>4 DEF Streams!DoOne
      <4>2. QED
        BY <4>1, <3>3, <3>4, <1>9
    <3>5. CASE st1.ok
      <4>1. st1.saved[r2.fd] = 0
        BY <2>1, <2>8, <3>3, <3>5, <1>2, <1>4 DEF Does
      <4>2. Good(fds, st, b) /\ (st.ok => Does(st1, st, r2))
        BY <2>1, <3>2, <3>3, <4>1, DoOneIs
      <4>3. \A s \in Streams!Std : st1.fds[s] = u[s]
        <5>1. ASSUME NEW s \in Streams!Std
              PROVE  st1.fds[s] = IF s = r1.fd THEN Wish(fds, r1) ELSE fds[s]
          BY <2>1, <3>3, <3>5, <1>2, <1>7 DEF Does
        <5>2. QED
          BY <5>1, <2>4
      <4>4. Wish(u, r2) = Wish(st1.fds, r2)
        BY <4>3, <2>6 DEF Wish
      <4>5. st1.fds \in FdTable
        BY <3>3 DEF Good, Stage
      <4>6. ASSUME st.ok, NEW s \in Streams!Std PROVE st.fds[s] = Streams!Meant(l)[s]
        <5>1. st.fds[s] = IF s = r2.fd THEN Wish(st1.fds, r2) ELSE st1.fds[s]
          BY <2>1, <4>2, <4>5, <4>6, <1>7 DEF Does
        <5>2. QED
          BY <5>1, <2>5, <4>3, <4>4
      <4>7. QED
        BY <4>2, <4>6, <1>9
    <3>6. QED
      BY <3>4, <3>5
  <2>9. QED
    BY <2>7, <2>8
<1>10. QED
  BY <1>1, <1>5, <1>8, <1>9

-----------------------------------------------------------------------------
\* A here-document is opened first and moved to its descriptor then.
LEMMA HereDone ==
  ASSUME fds \in FdTable, Lit(fds), Room(fds), NEW b \in BOOLEAN, NEW r \in Redirs,
         r.fd \in Streams!Std, r.to = "here", NEW p, p = Streams!PrepNode(Unprepared(fds), r),
         NEW st, st = Streams!Done(p.fds, p.slots, b)
  PROVE  /\ p.total = 1 /\ Good(fds, st, b)
         /\ \A s \in Streams!Std : st.fds[s] = Streams!Asked(fds, r)[s]
<1> DEFINE j == r.fd
           d == Streams!Lowest(Streams!Free(fds))
           u == [fds EXCEPT ![d] = "here"]
           r2 == [r EXCEPT !.to = "move", !.of = d]
           st0 == [fds |-> u, saved |-> Streams!None, ok |-> TRUE, emptied |-> {}]
           save == Streams!SaveIfStd(st0, j, b)
           g == [save.fds EXCEPT ![j] = "here", ![d] = "none"]
           st2 == [save EXCEPT !.fds = g]
           old == Undone(fds)
<1>1. PICK x, y \in Streams!Free(fds) : x # y
  BY DEF Room
<1>2. d \in Streams!Free(fds)
  BY <1>1, LowestIn DEF Streams!Free
<1>3. d \in Streams!Descriptors /\ d \notin Streams!Std /\ fds[d] = "none" /\ d # j /\ d # 0
  BY <1>2, Numbers DEF Streams!Free, Lit
<1>4. p = [fds |-> u, slots |-> <<r2>>, total |-> 1]
  <2> DEFINE q == Unprepared(fds)
             e == IF Streams!Free(q.fds) = {} THEN 0 ELSE Streams!Lowest(Streams!Free(q.fds))
             same == {i \in DOMAIN q.slots : q.slots[i].fd = r.fd}
  <2>1. q.fds = fds /\ q.slots = <<>> /\ q.total = 0 /\ same = {}
    BY DEF Unprepared
  <2>2. e = d
    BY <2>1, <1>1
  <2>3. Append(<<>>, r2) = <<r2>>
    OBVIOUS
  <2> HIDE DEF q
  <2>4. Streams!PrepNode(q, r)
          = [fds |-> [q.fds EXCEPT ![e] = "here"],
             slots |-> IF same = {} THEN Append(q.slots, [r EXCEPT !.to = "move", !.of = e])
                       ELSE [i \in DOMAIN q.slots |->
                               IF i \in same THEN [r EXCEPT !.to = "move", !.of = e] ELSE q.slots[i]],
             total |-> q.total + 1]
    <3>1. e # 0
      BY <2>2, <1>3
    <3>2. r.to # "wrong" /\ r.to = "here"
      OBVIOUS
    <3>3. QED
      BY <3>1, <3>2 DEF Streams!PrepNode
  <2> HIDE DEF e, same, d
  <2>5. QED
    BY <2>1, <2>2, <2>3, <2>4 DEF q
<1>5. r2.fd = j /\ r2.of = d /\ r2.to = "move"
  BY RedirIs
<1> HIDE DEF d, r2
<1>6. st = Streams!Duplicates(st0, r2, b)
  <2>1. Streams!Done(u, <<r2>>, b) = Streams!DoOne(st0, r2, b)
    <3>1. Len(<<r2>>) = 1 /\ <<r2>>[1] = r2
      OBVIOUS
    <3>2. QED
      BY <3>1, DoneIs DEF Undone
  <2> HIDE DEF u
  <2>2. Streams!DoOne(st0, r2, b) = Streams!Duplicates(st0, r2, b)
    BY <1>5 DEF Streams!DoOne
  <2>3. QED
    BY <2>1, <2>2, <1>4
<1>7. u \in FdTable /\ u[d] = "here" /\ \A e \in Streams!Descriptors : e # d => u[e] = fds[e]
  BY <1>3 DEF FdTable, Files
<1> HIDE DEF u
<1>8. Lit(u)
  BY <1>3, <1>7, Numbers DEF Lit
<1>9. st0 \in Stage /\ st0.fds = u /\ st0.saved = Streams!None /\ st0.ok = TRUE /\ st0.emptied = {}
  BY <1>7 DEF Stage, Streams!None, Slot
<1> HIDE DEF st0
<1>10. \A a \in Streams!Free(u) : a \in Streams!Free(fds) /\ a # d /\ a # j
  BY <1>3, <1>7, <1>8, Numbers DEF Streams!Free, Lit
<1>11. Streams!Free(u) # {}
  <2>1. \A e \in Streams!Free(fds) : e # d => e \in Streams!Free(u)
    BY <1>7 DEF Streams!Free
  <2>2. QED
    BY <2>1, <1>1
<1>12. Saves(st0, save, j, b)
  BY <1>8, <1>9, <1>11, SavesOrNot
<1> HIDE DEF save
<1>13. save.fds \in FdTable /\ save.fds[d] = "here"
  <2>1. save.fds \in FdTable
    BY <1>12 DEF Saves, Stage
  <2>2. CASE ~b
    BY <2>1, <2>2, <1>12, <1>9, <1>7 DEF Saves
  <2>3. CASE b
    <3>1. PICK a \in Streams!Free(u) : save.fds = [u EXCEPT ![a] = u[j]]
      BY <2>3, <1>9, <1>12 DEF Saves
    <3>2. QED
      BY <2>1, <3>1, <1>3, <1>7, <1>10 DEF FdTable
  <2>4. QED
    BY <2>2, <2>3
<1>14. st = st2
  <2>1. save.fds[d] # "none"
    BY <1>13, Kinds
  <2> DEFINE dup == [save EXCEPT !.fds[j] = save.fds[d]]
             h == [save.fds EXCEPT ![j] = "here"]
  <2>2. st = [dup EXCEPT !.fds[d] = "none"]
    BY <2>1, <1>5, <1>6 DEF Streams!Duplicates, save
  <2>3. dup = [save EXCEPT !.fds = h] /\ dup.fds = h
    BY <1>12, <1>13 DEF Saves, Stage
  <2>4. [h EXCEPT ![d] = "none"] = g
    BY <1>3, <1>13
  <2> HIDE DEF h
  <2>5. [dup EXCEPT !.fds[d] = "none"] = [save EXCEPT !.fds = [h EXCEPT ![d] = "none"]]
    <3>1. dup = [fds |-> h, saved |-> save.saved, ok |-> save.ok, emptied |-> save.emptied]
      BY <2>3, <1>12 DEF Saves, Stage
    <3>2. [save EXCEPT !.fds = [h EXCEPT ![d] = "none"]]
            = [fds |-> [h EXCEPT ![d] = "none"], saved |-> save.saved, ok |-> save.ok,
               emptied |-> save.emptied]
      BY <1>12 DEF Saves, Stage
    <3> HIDE DEF dup
    <3>3. QED
      BY <3>1, <3>2
  <2>6. QED
    BY <2>2, <2>4, <2>5
<1>15. st.fds = g /\ st.saved = save.saved /\ st.ok = TRUE /\ st.emptied = {}
       /\ st = [fds |-> g, saved |-> save.saved, ok |-> TRUE, emptied |-> {}]
  BY <1>9, <1>12, <1>14 DEF Saves, Stage
<1>16. old.fds = fds /\ old.saved = Streams!None
  BY DEF Undone
<1> HIDE DEF old, st2
<1>17. ASSUME ~b PROVE g = [fds EXCEPT ![j] = "here"] /\ save.saved = Streams!None
  <2>1. save.fds = u /\ save.saved = Streams!None
    BY <1>17, <1>9, <1>12 DEF Saves
  <2> DEFINE h == [fds EXCEPT ![j] = "here"]
  <2>2. \A e \in Streams!Descriptors : g[e] = h[e]
    BY <2>1, <1>3, <1>7, Numbers DEF FdTable
  <2>3. g = [e \in Streams!Descriptors |-> g[e]] /\ h = [e \in Streams!Descriptors |-> h[e]]
    BY <1>13 DEF FdTable
  <2> HIDE DEF g, h
  <2>4. g = h
    BY <2>2, <2>3
  <2>5. QED
    BY <2>1, <2>4 DEF h
<1>18. ASSUME b
       PROVE  \E a \in Streams!Free(fds) : /\ g = [fds EXCEPT ![a] = fds[j], ![j] = "here"]
                                           /\ save.saved = [Streams!None EXCEPT ![j] = a]
  <2>1. PICK a \in Streams!Free(u) :
          save.fds = [u EXCEPT ![a] = u[j]] /\ save.saved = [Streams!None EXCEPT ![j] = a]
    BY <1>18, <1>9, <1>12 DEF Saves
  <2>2. a \in Streams!Free(fds) /\ a # d /\ a # j /\ a \in Streams!Descriptors
    BY <1>10 DEF Streams!Free
  <2> DEFINE h == [fds EXCEPT ![a] = fds[j], ![j] = "here"]
  <2>3. u[j] = fds[j]
    BY <1>3, <1>7, Numbers
  <2>4. \A e \in Streams!Descriptors : g[e] = IF e = d THEN "none" ELSE IF e = j THEN "here" ELSE save.fds[e]
    BY <1>3, <1>13 DEF FdTable
  <2>5. \A e \in Streams!Descriptors : h[e] = IF e = j THEN "here" ELSE IF e = a THEN fds[j] ELSE fds[e]
    BY <2>2 DEF FdTable
  <2>6. \A e \in Streams!Descriptors : save.fds[e] = IF e = a THEN fds[j] ELSE u[e]
    BY <2>1, <2>3, <1>7 DEF FdTable
  <2>7. g = [e \in Streams!Descriptors |-> g[e]] /\ h = [e \in Streams!Descriptors |-> h[e]]
    BY <1>13 DEF FdTable
  <2> HIDE DEF g, h
  <2>8. \A e \in Streams!Descriptors : g[e] = h[e]
    BY <2>2, <2>4, <2>5, <2>6, <1>3, <1>7
  <2>9. g = h
    BY <2>7, <2>8
  <2>10. QED
    BY <2>1, <2>2, <2>9 DEF h
<1>19. Replaces(old, st, j, "here", b)
  BY <1>15, <1>16, <1>17, <1>18 DEF Replaces
<1>20. Good(fds, old, b)
  <2>1. Kept(fds, fds, Streams!None, b)
    BY KeptStarts
  <2>2. QED
    BY <2>1, <1>16, Numbers DEF Undone, Good, Stage, Streams!None, Slot, old
<1>21. old.saved[j] = 0 /\ "here" \in Files \ {"none"}
  BY <1>16, Kinds DEF Streams!None, Files
<1>22. /\ Good(fds, st, b) /\ st.fds[j] = "here"
       /\ \A s \in Streams!Std : s # j => st.fds[s] = fds[s]
  BY <1>16, <1>19, <1>20, <1>21, Replaced
<1>23. \A s \in Streams!Std : Streams!Asked(fds, r)[s] = IF s = j THEN "here" ELSE fds[s]
  <2>1. fds = [e \in Streams!Descriptors |-> fds[e]]
    BY DEF FdTable
  <2>2. Wish(fds, r) = "here"
    BY DEF Wish
  <2>3. QED
    BY <2>1, <2>2, AskedIs, Numbers
<1>24. QED
  BY <1>4, <1>22, <1>23

\* What the lists of careful programs come to.
ListDone(l, st, b) ==
  /\ Good(fds, st, b)
  /\ st.ok => \A s \in Streams!Std : st.fds[s] = Streams!Meant(l)[s]
  /\ Len(l) = 0 => st = Undone(fds)

Ready == fds \in FdTable /\ Lit(fds) /\ Room(fds) /\ Reckless = {}

LEMMA Careful ==
  ASSUME Reckless = {}, NEW l \in Streams!Lists, NEW kind, Streams!Careful(l, kind)
  PROVE  /\ kind = "function" => l = <<>>
         /\ Len(l) < 2 \/ ~(Streams!Has(l, {"wrong"}) /\ l[1].to \in {"wrong", "here"})
         /\ ~Streams!Has(l, {"here"}) \/ (kind # "external" /\ Len(l) = 1)
         /\ kind = "exec" \/ l = <<>> \/ \A s \in Streams!Std : fds[s] \notin Regular
         /\ \A i \in DOMAIN l : /\ l[i] \in Redirs /\ l[i].fd \in Streams!Std /\ l[i].to # "move"
                                /\ l[i].of \in Streams!Std \cup {0} /\ l[i].of # l[i].fd
  BY ListIs DEF Streams!Careful, Streams!Has

LEMMA CarefulIsClean ==
  ASSUME Reckless = {}, NEW l \in Streams!Lists, NEW kind, Streams!Careful(l, kind),
         ~Streams!Has(l, {"here"}), ~Streams!Has(l, {"wrong"})
  PROVE  Clean(l)
  BY Careful DEF Clean, Plain, Streams!Has

LEMMA OrderlyDone ==
  ASSUME Ready, NEW b \in BOOLEAN, NEW l \in Streams!Lists, NEW kind, Streams!Careful(l, kind),
         ~Streams!Has(l, {"wrong"}), NEW p, p = Streams!Prepared(fds, l),
         NEW st, st = Streams!Done(p.fds, p.slots, b)
  PROVE  ListDone(l, st, b) /\ p.total = Len(l)
<1>1. CASE Streams!Has(l, {"here"})
  <2>1. Len(l) = 1
    BY <1>1, Careful DEF Ready
  <2>2. l[1].to = "here" /\ l[1] \in Redirs /\ l[1].fd \in Streams!Std
    <3>1. DOMAIN l = {1}
      BY <2>1, ListIs
    <3>2. l[1].to = "here"
      BY <1>1, <3>1 DEF Streams!Has
    <3>3. QED
      BY <3>1, <3>2, Careful DEF Ready
  <2>3. p = Streams!PrepNode(Unprepared(fds), l[1])
    BY <2>1, PreparedIs
  <2>4. p.total = 1 /\ Good(fds, st, b) /\ \A s \in Streams!Std : st.fds[s] = Streams!Asked(fds, l[1])[s]
    BY <2>2, <2>3, HereDone DEF Ready
  <2>5. Streams!Meant(l) = Streams!Asked(fds, l[1])
    BY <2>1, MeantIs
  <2>6. QED
    BY <2>1, <2>4, <2>5 DEF ListDone
<1>2. CASE ~Streams!Has(l, {"here"})
  <2>1. Clean(l)
    BY <1>2, CarefulIsClean DEF Ready
  <2>2. p.fds = fds /\ p.total = Len(l) /\ p.slots = Slots(l)
    BY <2>1, CleanPrepared
  <2>3. st = Streams!Done(fds, Slots(l), b)
    BY <2>2
  <2>4. QED
    BY <2>1, <2>2, <2>3, CleanDone DEF Ready, ListDone
<1>3. QED
  BY <1>1, <1>2

LEMMA CompoundIs ==
  ASSUME Ready, NEW l \in Streams!Lists, Streams!Careful(l, "compound"),
         NEW st, st = Streams!CompoundList(l), st.ok
  PROVE  ListDone(l, st, TRUE)
<1> DEFINE wrong == {i \in DOMAIN l : l[i].to = "wrong"}
           p == Streams!Prepared(fds, IF wrong = {} THEN l ELSE SubSeq(l, 1, Streams!Lowest(wrong) - 1))
           failed == [fds |-> p.fds, saved |-> Streams!None, ok |-> FALSE, emptied |-> {}]
<1>1. st = IF wrong # {} \/ p.total = -1 THEN failed ELSE Streams!Done(p.fds, p.slots, TRUE)
  BY DEF Streams!CompoundList
<1>2. failed.ok = FALSE
  OBVIOUS
<1> HIDE DEF failed
<1>3. wrong = {} /\ st = Streams!Done(p.fds, p.slots, TRUE)
  BY <1>1, <1>2
<1>4. p = Streams!Prepared(fds, l)
  BY <1>3
<1>5. ~Streams!Has(l, {"wrong"})
  BY <1>3 DEF Streams!Has
<1> HIDE DEF p
<1>6. QED
  BY <1>3, <1>4, <1>5, OrderlyDone

\* A redirection that is no here-document opens nothing while it is prepared.
LEMMA PrepOpensNone ==
  ASSUME NEW p, p = [fds |-> p.fds, slots |-> p.slots, total |-> p.total], NEW r, r.to # "here"
  PROVE  /\ Streams!PrepNode(p, r).fds = p.fds
         /\ LET q == Streams!PrepNode(p, r) IN q = [fds |-> q.fds, slots |-> q.slots, total |-> q.total]
         /\ r.to = "wrong" => Streams!PrepNode(p, r).total = -1
<1>1. CASE r.to = "wrong"
  <2>1. Streams!PrepNode(p, r) = [p EXCEPT !.total = -1]
    BY <1>1 DEF Streams!PrepNode
  <2>2. [p EXCEPT !.total = -1] = [fds |-> p.fds, slots |-> p.slots, total |-> -1]
    OBVIOUS
  <2>3. QED
    BY <2>1, <2>2
<1>2. CASE r.to # "wrong"
  <2> DEFINE same == {i \in DOMAIN p.slots : p.slots[i].fd = r.fd}
             s == IF same = {} THEN Append(p.slots, r)
                  ELSE [i \in DOMAIN p.slots |-> IF i \in same THEN r ELSE p.slots[i]]
  <2>1. Streams!PrepNode(p, r) = [fds |-> p.fds, slots |-> s, total |-> p.total + 1]
    BY <1>2 DEF Streams!PrepNode
  <2> HIDE DEF s
  <2>2. QED
    BY <2>1, <1>2
<1>3. QED
  BY <1>1, <1>2

LEMMA PreparedOpensNone ==
  ASSUME NEW l \in Streams!Lists, ~Streams!Has(l, {"here"}),
         NEW p, p = Streams!Prepared(fds, l)
  PROVE  /\ p.fds = fds
         /\ Len(l) > 0 /\ l[Len(l)].to = "wrong" => p.total = -1
<1>1. Len(l) \in {0, 1, 2} /\ \A i \in 1 .. Len(l) : l[i].to # "here"
  BY ListIs DEF Streams!Has
<1> DEFINE none == Unprepared(fds)
           one == Streams!PrepNode(none, l[1])
           two == Streams!PrepNode(one, l[2])
<1>2. none = [fds |-> none.fds, slots |-> none.slots, total |-> none.total] /\ none.fds = fds
  BY DEF Unprepared
<1> HIDE DEF none
<1>3. CASE Len(l) = 0
  BY <1>2, <1>3, PreparedIs DEF none
<1>4. ASSUME Len(l) # 0
      PROVE  /\ one.fds = fds /\ (l[1].to = "wrong" => one.total = -1)
             /\ one = [fds |-> one.fds, slots |-> one.slots, total |-> one.total]
  <2>1. l[1].to # "here"
    BY <1>1, <1>4
  <2>2. QED
    BY <2>1, <1>2, PrepOpensNone
<1>5. CASE Len(l) = 1
  BY <1>4, <1>5, PreparedIs DEF none
<1>6. CASE Len(l) = 2
  <2>1. l[2].to # "here" /\ p = two
    BY <1>1, <1>6, PreparedIs DEF none
  <2>2. one.fds = fds /\ one = [fds |-> one.fds, slots |-> one.slots, total |-> one.total]
    BY <1>4, <1>6
  <2> HIDE DEF one
  <2>3. two.fds = one.fds /\ (l[2].to = "wrong" => two.total = -1)
    BY <2>1, <2>2, PrepOpensNone
  <2>4. QED
    BY <2>1, <2>2, <2>3, <1>6
<1>7. QED
  BY <1>1, <1>3, <1>5, <1>6

LEMMA SimpleIs ==
  ASSUME Ready, NEW b \in BOOLEAN, NEW l \in Streams!Lists, NEW kind, kind # "external",
         Streams!Careful(l, kind), NEW st, st = Streams!SimpleList(l, b)
  PROVE  ListDone(l, st, b)
<1> DEFINE p == Streams!Prepared(fds, l)
           failed == [fds |-> p.fds, saved |-> Streams!None, ok |-> FALSE, emptied |-> {}]
<1>1. st = IF p.total = -1 THEN failed
           ELSE Streams!Done(p.fds, IF p.total = 0 THEN <<>> ELSE p.slots, b)
  BY DEF Streams!SimpleList
<1>2. Len(l) \in {0, 1, 2} /\ DOMAIN l = 1 .. Len(l)
  BY ListIs
<1>3. CASE Streams!Has(l, {"wrong"})
  <2>1. PICK i \in 1 .. Len(l) : l[i].to = "wrong"
    BY <1>2, <1>3 DEF Streams!Has
  <2>2. Len(l) < 2 \/ l[1].to \notin {"wrong", "here"}
    BY <1>3, Careful DEF Ready
  <2>3. l[Len(l)].to = "wrong" /\ Len(l) > 0
    BY <1>2, <2>1, <2>2
  <2>4. ~Streams!Has(l, {"here"})
    <3>1. Streams!Has(l, {"here"}) => Len(l) = 1
      BY Careful DEF Ready
    <3>2. Len(l) = 1 => l[1].to = "wrong" /\ DOMAIN l = {1}
      BY <1>2, <2>3
    <3>3. QED
      BY <3>1, <3>2 DEF Streams!Has
  <2>5. p.fds = fds /\ p.total = -1
    BY <2>3, <2>4, PreparedOpensNone
  <2>6. st = failed
    BY <1>1, <2>5
  <2> HIDE DEF p
  <2>7. st.fds = fds /\ st.saved = Streams!None /\ st.ok = FALSE /\ st \in Stage
    BY <2>5, <2>6, Numbers DEF Stage, Slot, Streams!None, Ready
  <2>8. Kept(fds, fds, Streams!None, b)
    BY KeptStarts DEF Ready
  <2>9. QED
    BY <2>3, <2>7, <2>8 DEF ListDone, Good
<1>4. CASE ~Streams!Has(l, {"wrong"})
  <2>1. p.total = Len(l)
    BY <1>4, OrderlyDone
  <2>2. ListDone(l, Streams!Done(p.fds, p.slots, b), b)
    BY <1>4, OrderlyDone
  <2>3. ASSUME Len(l) = 0 PROVE p.slots = <<>>
    <3>1. p = Unprepared(fds)
      BY <2>3, PreparedIs
    <3>2. QED
      BY <3>1 DEF Unprepared
  <2> HIDE DEF p, failed
  <2>4. st = Streams!Done(p.fds, p.slots, b)
    BY <1>1, <1>2, <2>1, <2>3
  <2>5. QED
    BY <2>2, <2>4
<1>5. QED
  BY <1>3, <1>4

-----------------------------------------------------------------------------
(***************************************************************************)
(* What is true between the commands.                                      *)
(***************************************************************************)
Frame == [kind : {"compound", "function", "eval"}, saved : [Streams!Std -> Slot]]

\* The slots of nested commands are open descriptors of their own, above the streams.
SlotsHeld(f, fr) ==
  \A i \in 1 .. Len(fr), s \in Streams!Std :
     fr[i].saved[s] # 0 => f[fr[i].saved[s]] \notin {"none"} \cup Regular
SlotsApart(fr) ==
  \A i \in 1 .. Len(fr), j \in 1 .. Len(fr), s \in Streams!Std, u \in Streams!Std :
     fr[i].saved[s] # 0 /\ fr[i].saved[s] = fr[j].saved[u] => i = j /\ s = u
\* backup_fd is apart from them; without an eval it is still the shell's first one.
BackupsHeld(f, fr, bk) ==
  \A s \in Streams!Std : bk[s] # 0 => /\ f[bk[s]] # "none"
                                      /\ \A i \in 1 .. Len(fr), u \in Streams!Std : fr[i].saved[u] # bk[s]
OneEval(fr, bk) ==
  /\ (\A i \in 1 .. Len(fr) : fr[i].kind # "eval") => \A s \in Streams!Std : bk[s] \in {0, 3, 4}
  /\ \A i \in 1 .. Len(fr), j \in 1 .. Len(fr) : fr[i].kind = "eval" /\ fr[j].kind = "eval" => i = j
\* Nothing else is open but what the first backup_fd was.
AllKnown(f, fr, bk) ==
  \A d \in Streams!Descriptors \ Streams!Std : f[d] # "none" =>
     \/ d \in {3, 4} \cup {bk[1], bk[2]}
     \/ \E i \in 1 .. Len(fr), s \in Streams!Std : fr[i].saved[s] = d

Nested(f, fr, bk) ==
  /\ f \in FdTable /\ Lit(f) /\ fr \in Seq(Frame) /\ Len(fr) <= MaxFrames
  /\ bk \in [Streams!Std -> Slot]
  /\ SlotsHeld(f, fr) /\ SlotsApart(fr) /\ BackupsHeld(f, fr, bk) /\ OneEval(fr, bk)
  /\ AllKnown(f, fr, bk)

LEMMA FrameIs ==
  ASSUME NEW fr \in Seq(Frame), NEW i \in 1 .. Len(fr)
  PROVE  /\ fr[i] \in Frame /\ fr[i].saved \in [Streams!Std -> Slot]
         /\ \A s \in Streams!Std : fr[i].saved[s] \in Slot
<1>1. fr[i] \in Frame
  OBVIOUS
<1>2. QED
  BY <1>1 DEF Frame

\* A set of four elements or more has four elements.
LEMMA FourOf ==
  ASSUME NEW S, IsFiniteSet(S), Cardinality(S) >= 4
  PROVE  \E p, q, c, d \in S : p # q /\ p # c /\ p # d /\ q # c /\ q # d /\ c # d
<1>1. ASSUME NEW U, IsFiniteSet(U), NEW n \in Nat, Cardinality(U) >= n + 1
      PROVE  \E x \in U : IsFiniteSet(U \ {x}) /\ Cardinality(U \ {x}) >= n
  <2>1. Cardinality(U) \in Nat
    BY <1>1, FS_CardinalityType
  <2>2. U # {}
    BY <1>1, <2>1, FS_EmptySet
  <2>3. PICK x \in U : TRUE
    BY <2>2
  <2>4. IsFiniteSet(U \ {x}) /\ Cardinality(U \ {x}) = Cardinality(U) - 1
    BY <1>1, <2>3, FS_RemoveElement
  <2>5. Cardinality(U \ {x}) >= n
    BY ONLY <1>1, <2>1, <2>4, Cardinality(U) >= n + 1, n \in Nat
  <2>6. QED
    BY <2>3, <2>4, <2>5
<1>2. PICK p \in S : IsFiniteSet(S \ {p}) /\ Cardinality(S \ {p}) >= 3
  BY <1>1
<1>3. PICK q \in S \ {p} : IsFiniteSet((S \ {p}) \ {q}) /\ Cardinality((S \ {p}) \ {q}) >= 2
  BY <1>1, <1>2
<1>4. PICK c \in (S \ {p}) \ {q} : /\ IsFiniteSet(((S \ {p}) \ {q}) \ {c})
                                  /\ Cardinality(((S \ {p}) \ {q}) \ {c}) >= 1
  BY <1>1, <1>3
<1>5. ((S \ {p}) \ {q}) \ {c} # {}
  BY <1>4, FS_EmptySet
<1>6. PICK d \in ((S \ {p}) \ {q}) \ {c} : TRUE
  BY <1>5
<1>7. QED
  BY <1>2, <1>3, <1>4, <1>6

\* MaxDescriptor leaves room for another command.
LEMMA RoomLeft ==
  ASSUME NEW f, NEW fr, NEW bk, Nested(f, fr, bk) PROVE Room(f)
<1> DEFINE n == Len(fr)
           N == 2 * n + 6
           h == [k \in 1 .. N |-> IF k < 5 THEN k
                                  ELSE IF k = 5 THEN bk[1] ELSE IF k = 6 THEN bk[2]
                                  ELSE IF k < n + 7 THEN fr[k - 6].saved[1]
                                  ELSE fr[k - (n + 6)].saved[2]]
           W == {h[k] : k \in 1 .. N}
           D == Streams!Descriptors
<1>1. n \in Nat /\ n <= MaxFrames /\ MaxFrames \in Nat /\ MaxDescriptor >= 2 * MaxFrames + 10
      /\ MaxDescriptor \in Nat /\ D = 1 .. MaxDescriptor
  BY Numbers, ShellStateAssumption DEF Nested, Streams!Bounds
<1>2. IsFiniteSet(W) /\ Cardinality(W) <= N
  <2>1. h \in Surjection(1 .. N, W)
    BY DEF Surjection
  <2>2. IsFiniteSet(1 .. N) /\ Cardinality(1 .. N) = N
    <3>1. N \in Int /\ ~(1 > N) /\ N - 1 + 1 = N
      BY <1>1
    <3> HIDE DEF N
    <3>2. IsFiniteSet(1 .. N) /\ Cardinality(1 .. N) = IF 1 > N THEN 0 ELSE N - 1 + 1
      BY <3>1, FS_Interval
    <3>3. QED
      BY <3>1, <3>2
  <2> HIDE DEF h, W, N
  <2>3. IsFiniteSet(W) /\ Cardinality(W) <= Cardinality(1 .. N)
    BY <2>1, <2>2, FS_Surjection
  <2>4. QED
    BY <2>2, <2>3
<1>3. IsFiniteSet(D) /\ Cardinality(D) = MaxDescriptor
  <2>1. IsFiniteSet(1 .. MaxDescriptor)
        /\ Cardinality(1 .. MaxDescriptor) = IF 1 > MaxDescriptor THEN 0 ELSE MaxDescriptor - 1 + 1
    BY <1>1, FS_Interval
  <2>2. QED
    BY <1>1, <2>1
<1>4. D \ W \subseteq Streams!Free(f)
  <2>1. /\ \A k \in {1, 2, 3, 4} : k \in 1 .. N /\ h[k] = k
        /\ 5 \in 1 .. N /\ h[5] = bk[1] /\ 6 \in 1 .. N /\ h[6] = bk[2]
    BY <1>1
  <2>2. \A i \in 1 .. n : /\ i + 6 \in 1 .. N /\ h[i + 6] = fr[i].saved[1]
                          /\ i + (n + 6) \in 1 .. N /\ h[i + (n + 6)] = fr[i].saved[2]
    <3>1. SUFFICES ASSUME NEW i \in 1 .. n
                   PROVE  /\ i + 6 \in 1 .. N /\ h[i + 6] = fr[i].saved[1]
                          /\ i + (n + 6) \in 1 .. N /\ h[i + (n + 6)] = fr[i].saved[2]
      OBVIOUS
    <3> HIDE DEF n
    <3>2. /\ i + 6 \in 1 .. N /\ ~(i + 6 < 5) /\ i + 6 # 5 /\ i + 6 # 6 /\ i + 6 < n + 7
          /\ (i + 6) - 6 = i
          /\ i + (n + 6) \in 1 .. N /\ ~(i + (n + 6) < 5) /\ i + (n + 6) # 5 /\ i + (n + 6) # 6
          /\ ~(i + (n + 6) < n + 7) /\ (i + (n + 6)) - (n + 6) = i
      BY <1>1
    <3> HIDE DEF N
    <3>3. QED
      BY <3>2
  <2>3. ASSUME NEW d \in D, d \notin Streams!Free(f) PROVE d \in W
    <3>1. f[d] # "none"
      BY <2>3 DEF Streams!Free
    <3>2. \/ d \in {1, 2, 3, 4} \cup {bk[1], bk[2]}
          \/ \E i \in 1 .. n : fr[i].saved[1] = d \/ fr[i].saved[2] = d
      BY <2>3, <3>1, Numbers DEF Nested, AllKnown
    <3> HIDE DEF h, N, n
    <3>3. QED
      BY <3>2, <2>1, <2>2
  <2>4. QED
    BY <2>3
<1> HIDE DEF W, D, N
<1>5. IsFiniteSet(D \ W) /\ Cardinality(D \ W) = Cardinality(D) - Cardinality(D \cap W)
  BY <1>3, FS_Difference
<1>6. IsFiniteSet(D \cap W) /\ Cardinality(D \cap W) <= Cardinality(W) /\ Cardinality(D \cap W) \in Nat
  BY <1>2, FS_Subset, FS_CardinalityType
<1>7. Cardinality(W) \in Nat
  BY <1>2, FS_CardinalityType
<1>8. Cardinality(D \ W) >= 4
  BY <1>1, <1>2, <1>3, <1>5, <1>6, <1>7 DEF N
<1>9. \E p, q, c, d \in D \ W : p # q /\ p # c /\ p # d /\ q # c /\ q # d /\ c # d
  BY <1>5, <1>8, FourOf
<1>10. QED
  BY <1>4, <1>9 DEF Room

-----------------------------------------------------------------------------
LEMMA StartsNested ==
  ASSUME Streams!Init PROVE Nested(fds, frames, backup_fd)
<1>1. fds = [d \in Streams!Descriptors |-> IF d \in Streams!Std \cup {3, 4} THEN Device ELSE "none"]
      /\ backup_fd = [s \in Streams!Std |-> s + 2] /\ frames = <<>>
  BY DEF Streams!Init
<1>2. fds \in FdTable /\ Lit(fds)
  BY <1>1, Numbers, Kinds DEF FdTable, Files, Lit
<1>3. backup_fd[1] = 3 /\ backup_fd[2] = 4 /\ backup_fd \in [Streams!Std -> Slot]
  BY <1>1, Numbers DEF Slot
<1>4. frames \in Seq(Frame) /\ Len(frames) = 0 /\ 0 <= MaxFrames
  BY <1>1, Numbers
<1>5. fds[3] # "none" /\ fds[4] # "none"
  BY <1>1, Numbers, Kinds
<1>6. BackupsHeld(fds, frames, backup_fd)
  BY <1>3, <1>4, <1>5, Numbers DEF BackupsHeld
<1>7. AllKnown(fds, frames, backup_fd)
  BY <1>1, Numbers DEF AllKnown
<1>8. QED
  BY <1>2, <1>3, <1>4, <1>6, <1>7, Numbers DEF Nested, SlotsHeld, SlotsApart, OneEval

\* Only the streams have changed.
LEMMA SameSlots ==
  ASSUME NEW f, NEW fr, NEW bk, Nested(f, fr, bk), NEW g \in FdTable, Lit(g),
         \A d \in Streams!Descriptors \ Streams!Std : g[d] = f[d]
  PROVE  Nested(g, fr, bk)
<1>1. \A i \in 1 .. Len(fr), s \in Streams!Std :
         fr[i].saved[s] # 0 => fr[i].saved[s] \in Streams!Descriptors \ Streams!Std
  BY FrameIs DEF Nested, Slot
<1>2. SlotsHeld(g, fr)
  BY <1>1 DEF Nested, SlotsHeld
<1>3. \A s \in Streams!Std : bk[s] # 0 => bk[s] \in Streams!Descriptors \ Streams!Std
  BY DEF Nested, Slot
<1>4. BackupsHeld(g, fr, bk)
  BY <1>3 DEF Nested, BackupsHeld
<1>5. AllKnown(g, fr, bk)
  BY DEF Nested, AllKnown
<1>6. QED
  BY <1>2, <1>4, <1>5 DEF Nested

\* restore_stds() undoes what a list has done.
LEMMA RestoredIs ==
  ASSUME NEW f \in FdTable, NEW sv \in [Streams!Std -> Slot], sv[1] # 0 => sv[1] # sv[2],
         NEW g, g = Streams!Restored(f, sv)
  PROVE  /\ g = [d \in Streams!Descriptors |-> g[d]]
         /\ \A s \in Streams!Std : g[s] = IF sv[s] = 0 THEN f[s] ELSE f[sv[s]]
         /\ \A d \in Streams!Descriptors \ Streams!Std :
               g[d] = IF d = sv[1] \/ d = sv[2] THEN "none" ELSE f[d]
<1> DEFINE h == Streams!BackTo(f, sv, 1)
<1>1. sv[1] \in Slot /\ sv[2] \in Slot
  BY Numbers
<1>2. /\ h = [d \in Streams!Descriptors |-> h[d]]
      /\ \A d \in Streams!Descriptors :
            h[d] = IF sv[1] = 0 THEN f[d]
                   ELSE IF d = sv[1] THEN "none" ELSE IF d = 1 THEN f[sv[1]] ELSE f[d]
  <2>1. CASE sv[1] = 0
    BY <2>1 DEF Streams!BackTo, FdTable
  <2>2. CASE sv[1] # 0
    <3>1. h = [f EXCEPT ![1] = f[sv[1]], ![sv[1]] = "none"]
      BY <2>2 DEF Streams!BackTo
    <3>2. sv[1] \in Streams!Descriptors \ Streams!Std /\ 1 \in Streams!Descriptors /\ sv[1] # 1
      BY <1>1, <2>2, Numbers DEF Slot
    <3> HIDE DEF h
    <3>3. QED
      BY <3>1, <3>2, <2>2 DEF FdTable
  <2>3. QED
    BY <2>1, <2>2
<1> HIDE DEF h
<1>3. /\ g = [d \in Streams!Descriptors |-> g[d]]
      /\ \A d \in Streams!Descriptors :
            g[d] = IF sv[2] = 0 THEN h[d]
                   ELSE IF d = sv[2] THEN "none" ELSE IF d = 2 THEN h[sv[2]] ELSE h[d]
  <2>1. g = Streams!BackTo(h, sv, 2)
    BY DEF Streams!Restored, h
  <2>2. CASE sv[2] = 0
    BY <2>1, <2>2, <1>2 DEF Streams!BackTo
  <2>3. CASE sv[2] # 0
    <3>1. g = [h EXCEPT ![2] = h[sv[2]], ![sv[2]] = "none"]
      BY <2>1, <2>3 DEF Streams!BackTo
    <3>2. sv[2] \in Streams!Descriptors \ Streams!Std /\ 2 \in Streams!Descriptors /\ sv[2] # 2
      BY <1>1, <2>3, Numbers DEF Slot
    <3>3. QED
      BY <3>1, <3>2, <1>2, <2>3
  <2>4. QED
    BY <2>2, <2>3
<1>4. \A s \in Streams!Std : sv[s] # 0 => sv[s] \in Streams!Descriptors \ Streams!Std
  BY DEF Slot
<1>5. ASSUME NEW s \in Streams!Std PROVE g[s] = IF sv[s] = 0 THEN f[s] ELSE f[sv[s]]
  BY <1>2, <1>3, <1>4, Numbers
<1>6. ASSUME NEW d \in Streams!Descriptors \ Streams!Std
      PROVE  g[d] = IF d = sv[1] \/ d = sv[2] THEN "none" ELSE f[d]
  BY <1>2, <1>3, <1>4, Numbers
<1>7. QED
  BY <1>3, <1>5, <1>6

LEMMA RestoresKept ==
  ASSUME NEW f \in FdTable, NEW g, NEW sv, Kept(f, g, sv, TRUE)
  PROVE  Streams!Restored(g, sv) = f
<1> DEFINE h == Streams!Restored(g, sv)
<1>1. g \in FdTable /\ sv \in [Streams!Std -> Slot] /\ (sv[1] # 0 => sv[1] # sv[2])
  BY DEF Kept
<1>2. /\ h = [d \in Streams!Descriptors |-> h[d]]
      /\ \A s \in Streams!Std : h[s] = IF sv[s] = 0 THEN g[s] ELSE g[sv[s]]
      /\ \A d \in Streams!Descriptors \ Streams!Std :
            h[d] = IF d = sv[1] \/ d = sv[2] THEN "none" ELSE g[d]
  BY <1>1, RestoredIs
<1> HIDE DEF h
<1>3. \A s \in Streams!Std : h[s] = f[s]
  BY <1>2 DEF Kept
<1>4. ASSUME NEW d \in Streams!Descriptors \ Streams!Std PROVE h[d] = f[d]
  <2>1. CASE \A s \in Streams!Std : d # sv[s]
    BY <1>2, <2>1, Numbers DEF Kept
  <2>2. ASSUME NEW s \in Streams!Std, d = sv[s] PROVE h[d] = f[d]
    <3>1. sv[s] # 0
      BY <2>2, Numbers
    <3>2. f[d] = "none"
      BY <2>2, <3>1 DEF Kept
    <3>3. QED
      BY <1>2, <2>2, <3>2, Numbers
  <2>3. QED
    BY <2>1, <2>2
<1>5. f = [d \in Streams!Descriptors |-> f[d]]
  BY DEF FdTable
<1>6. \A d \in Streams!Descriptors : h[d] = f[d]
  BY <1>3, <1>4
<1>7. h = f
  BY <1>2, <1>5, <1>6
<1>8. QED
  BY <1>7 DEF h

LEMMA AppendedIs ==
  ASSUME NEW fr \in Seq(Frame), NEW e \in Frame, NEW fr2, fr2 = Append(fr, e)
  PROVE  /\ fr2 \in Seq(Frame) /\ Len(fr2) = Len(fr) + 1 /\ fr2[Len(fr) + 1] = e
         /\ \A i \in 1 .. Len(fr) : fr2[i] = fr[i]
  BY AppendProperties

LEMMA OldOrNew ==
  ASSUME NEW n \in Nat, NEW i \in 1 .. n + 1 PROVE i \in 1 .. n \/ i = n + 1
  OBVIOUS

\* A command with redirections begins.
LEMMA Deeper ==
  ASSUME NEW f, NEW fr, NEW bk, Nested(f, fr, bk), Len(fr) < MaxFrames,
         NEW g, NEW sv, Kept(f, g, sv, TRUE), \A s \in Streams!Std : sv[s] # 0 => f[s] \notin Regular,
         NEW kind \in {"compound", "function", "eval"},
         NEW fr2, fr2 = Append(fr, [kind |-> kind, saved |-> sv])
  PROVE  /\ g \in FdTable /\ Lit(g) /\ fr2 \in Seq(Frame) /\ Len(fr2) <= MaxFrames
         /\ SlotsHeld(g, fr2) /\ SlotsApart(fr2) /\ BackupsHeld(g, fr2, bk) /\ AllKnown(g, fr2, bk)
<1> DEFINE n == Len(fr)
           e == [kind |-> kind, saved |-> sv]
<1>1. /\ f \in FdTable /\ Lit(f) /\ fr \in Seq(Frame) /\ n \in Nat /\ n < MaxFrames /\ MaxFrames \in Nat
      /\ g \in FdTable /\ Lit(g) /\ sv \in [Streams!Std -> Slot]
  BY Numbers DEF Nested, Kept
<1>2. e \in Frame /\ e.kind = kind /\ e.saved = sv
  BY <1>1 DEF Frame
<1> HIDE DEF e
<1>3. /\ fr2 \in Seq(Frame) /\ Len(fr2) = n + 1 /\ fr2[n + 1] = e
      /\ \A i \in 1 .. n : fr2[i] = fr[i]
  <2>1. fr2 = Append(fr, e)
    BY DEF e
  <2>2. QED
    BY <1>1, <1>2, <2>1, AppendedIs
<1> HIDE DEF n
<1>4. \A s \in Streams!Std : sv[s] # 0 => /\ sv[s] \in Streams!Descriptors \ Streams!Std
                                          /\ f[sv[s]] = "none" /\ g[sv[s]] = f[s]
  BY <1>1 DEF Kept, Slot
<1>5. ASSUME NEW d \in Streams!Descriptors \ Streams!Std, f[d] # "none"
      PROVE  g[d] = f[d] /\ \A s \in Streams!Std : sv[s] # d
  <2>1. \A s \in Streams!Std : sv[s] # d
    BY <1>4, <1>5, Numbers
  <2>2. QED
    BY <2>1, <1>5 DEF Kept
<1>6. ASSUME NEW i \in 1 .. n, NEW s \in Streams!Std, fr[i].saved[s] # 0
      PROVE  /\ g[fr[i].saved[s]] = f[fr[i].saved[s]]
             /\ f[fr[i].saved[s]] \notin {"none"} \cup Regular
             /\ \A u \in Streams!Std : sv[u] # fr[i].saved[s]
  <2>1. fr[i].saved[s] \in Streams!Descriptors \ Streams!Std
    BY <1>1, <1>6, FrameIs DEF n, Slot
  <2>2. f[fr[i].saved[s]] \notin {"none"} \cup Regular
    BY <1>6 DEF n, Nested, SlotsHeld
  <2>3. QED
    BY <1>5, <2>1, <2>2
<1>7. SlotsHeld(g, fr2)
  <2>1. SUFFICES ASSUME NEW i \in 1 .. n + 1, NEW s \in Streams!Std, fr2[i].saved[s] # 0
                 PROVE  g[fr2[i].saved[s]] \notin {"none"} \cup Regular
    BY <1>3 DEF SlotsHeld
  <2>2. CASE i \in 1 .. n
    BY <2>1, <2>2, <1>3, <1>6
  <2>3. CASE i = n + 1
    <3>1. sv[s] # 0 /\ fr2[i].saved[s] = sv[s]
      BY <2>1, <2>3, <1>2, <1>3
    <3>2. f[s] # "none" /\ f[s] \notin Regular
      BY <3>1, <1>1 DEF Lit
    <3>3. QED
      BY <3>1, <3>2, <1>4
  <2>4. QED
    BY <2>2, <2>3, <1>1, OldOrNew
<1>8. SlotsApart(fr2)
  <2>1. SUFFICES ASSUME NEW i \in 1 .. n + 1, NEW j \in 1 .. n + 1,
                        NEW s \in Streams!Std, NEW u \in Streams!Std,
                        fr2[i].saved[s] # 0, fr2[i].saved[s] = fr2[j].saved[u]
                 PROVE  i = j /\ s = u
    BY <1>3 DEF SlotsApart
  <2>2. CASE i \in 1 .. n /\ j \in 1 .. n
    <3>1. fr2[i] = fr[i] /\ fr2[j] = fr[j]
      BY <2>2, <1>3
    <3>2. QED
      BY <2>1, <2>2, <3>1 DEF Nested, SlotsApart, n
  <2>3. CASE i \in 1 .. n /\ j = n + 1
    BY <2>1, <2>3, <1>2, <1>3, <1>6
  <2>4. CASE i = n + 1 /\ j \in 1 .. n
    <3>1. fr[j].saved[u] = sv[s] /\ fr[j].saved[u] # 0
      BY <2>1, <2>4, <1>2, <1>3
    <3>2. QED
      BY <2>4, <3>1, <1>6
  <2>5. CASE i = n + 1 /\ j = n + 1
    <3>1. sv[s] # 0 /\ sv[s] = sv[u]
      BY <2>1, <2>5, <1>2, <1>3
    <3>2. QED
      BY <2>5, <3>1, Numbers DEF Kept
  <2>6. QED
    BY <2>2, <2>3, <2>4, <2>5, <1>1, OldOrNew
<1>9. BackupsHeld(g, fr2, bk)
  <2>1. SUFFICES ASSUME NEW s \in Streams!Std, bk[s] # 0
                 PROVE  /\ g[bk[s]] # "none"
                        /\ \A i \in 1 .. n + 1, u \in Streams!Std : fr2[i].saved[u] # bk[s]
    BY <1>3 DEF BackupsHeld
  <2>2. /\ f[bk[s]] # "none" /\ bk[s] \in Streams!Descriptors \ Streams!Std
        /\ \A i \in 1 .. n, u \in Streams!Std : fr[i].saved[u] # bk[s]
    BY <2>1 DEF Nested, BackupsHeld, Slot, n
  <2>3. g[bk[s]] # "none" /\ \A u \in Streams!Std : sv[u] # bk[s]
    BY <2>2, <1>5
  <2>4. ASSUME NEW i \in 1 .. n + 1, NEW u \in Streams!Std PROVE fr2[i].saved[u] # bk[s]
    <3>1. CASE i \in 1 .. n
      BY <3>1, <2>2, <1>3
    <3>2. CASE i = n + 1
      BY <3>2, <2>3, <1>2, <1>3
    <3>3. QED
      BY <3>1, <3>2, <1>1, OldOrNew
  <2>5. QED
    BY <2>3, <2>4
<1>10. AllKnown(g, fr2, bk)
  <2>1. SUFFICES ASSUME NEW d \in Streams!Descriptors \ Streams!Std, g[d] # "none",
                        d \notin {3, 4} \cup {bk[1], bk[2]}
                 PROVE  \E i \in 1 .. n + 1, s \in Streams!Std : fr2[i].saved[s] = d
    BY <1>3 DEF AllKnown
  <2>2. CASE \E s \in Streams!Std : sv[s] = d
    <3>1. n + 1 \in 1 .. n + 1 /\ fr2[n + 1].saved = sv
      BY <1>1, <1>2, <1>3
    <3>2. QED
      BY <2>2, <3>1
  <2>3. CASE \A s \in Streams!Std : sv[s] # d
    <3>1. f[d] # "none"
      BY <2>1, <2>3 DEF Kept
    <3>2. PICK i \in 1 .. n, s \in Streams!Std : fr[i].saved[s] = d
      BY <2>1, <3>1 DEF Nested, AllKnown, n
    <3>3. i \in 1 .. n + 1 /\ fr2[i].saved[s] = d
      BY <3>2, <1>1, <1>3
    <3>4. QED
      BY <3>3
  <2>4. QED
    BY <2>2, <2>3
<1>11. QED
  BY <1>1, <1>3, <1>7, <1>8, <1>9, <1>10

LEMMA EnterNested ==
  ASSUME NEW f, NEW fr, NEW bk, Nested(f, fr, bk), Len(fr) < MaxFrames,
         NEW g, NEW sv, Kept(f, g, sv, TRUE), \A s \in Streams!Std : sv[s] # 0 => f[s] \notin Regular,
         NEW kind \in {"compound", "function"},
         NEW fr2, fr2 = Append(fr, [kind |-> kind, saved |-> sv])
  PROVE  Nested(g, fr2, bk)
<1>1. /\ g \in FdTable /\ Lit(g) /\ fr2 \in Seq(Frame) /\ Len(fr2) <= MaxFrames
      /\ SlotsHeld(g, fr2) /\ SlotsApart(fr2) /\ BackupsHeld(g, fr2, bk) /\ AllKnown(g, fr2, bk)
  BY Deeper
<1> DEFINE n == Len(fr)
           e == [kind |-> kind, saved |-> sv]
<1>2. /\ Len(fr2) = n + 1 /\ fr2[n + 1] = e /\ n \in Nat
      /\ \A i \in 1 .. n : fr2[i] = fr[i]
  <2>1. fr \in Seq(Frame) /\ e \in Frame
    BY DEF Nested, Kept, Frame
  <2> HIDE DEF e
  <2>2. fr2 = Append(fr, e)
    BY DEF e
  <2>3. QED
    BY <2>1, <2>2, AppendedIs
<1>3. e.kind # "eval"
  OBVIOUS
<1> HIDE DEF n, e
<1>4. OneEval(fr2, bk)
  <2>1. ASSUME \A i \in 1 .. Len(fr2) : fr2[i].kind # "eval", NEW s \in Streams!Std PROVE bk[s] \in {0, 3, 4}
    <3>1. \A i \in 1 .. n : fr[i].kind # "eval"
      BY <2>1, <1>2
    <3>2. QED
      BY <3>1 DEF Nested, OneEval, n
  <2>2. ASSUME NEW i \in 1 .. Len(fr2), NEW j \in 1 .. Len(fr2), fr2[i].kind = "eval", fr2[j].kind = "eval"
        PROVE  i = j
    <3>1. i \in 1 .. n /\ j \in 1 .. n
      BY <2>2, <1>2, <1>3, OldOrNew
    <3>2. fr[i].kind = "eval" /\ fr[j].kind = "eval"
      BY <2>2, <3>1, <1>2
    <3>3. QED
      BY <3>1, <3>2 DEF Nested, OneEval, n
  <2>3. QED
    BY <2>1, <2>2 DEF OneEval
<1>5. QED
  BY <1>1, <1>4 DEF Nested

\* Both streams of g are saved, in a and b.
Doubled(g, h, a, b) ==
  /\ a \in Slot \ {0} /\ b \in Slot \ {0} /\ a # b /\ g[a] = "none" /\ g[b] = "none"
  /\ h \in FdTable /\ h[a] = g[1] /\ h[b] = g[2]
  /\ \A d \in Streams!Descriptors : d # a /\ d # b => h[d] = g[d]

Doubles(g, h, bk) == bk \in [Streams!Std -> Slot] /\ Doubled(g, h, bk[1], bk[2])
NoEval(fr) == \A i \in 1 .. Len(fr) : fr[i].kind # "eval"
NoFile(f, sv) == \A s \in Streams!Std : sv[s] # 0 => f[s] \notin Regular

LEMMA DoubledIs ==
  ASSUME NEW g \in FdTable, Lit(g), NEW x \in Streams!Free(g), NEW y \in Streams!Free(g), x # y,
         NEW s1, s1 = Streams!Saved(g, 1), NEW s2, s2 = Streams!Saved(s1.fds, 2)
  PROVE  Doubled(g, s2.fds, s1.at, s2.at)
<1> DEFINE a == s1.at
           b == s2.at
           h == s1.fds
           h2 == s2.fds
<1>1. a \in Streams!Free(g) /\ h = [g EXCEPT ![a] = g[1]]
  BY Numbers, SavedIs
<1>2. a \in Streams!Descriptors \ Streams!Std /\ g[a] = "none" /\ a \in Slot /\ a # 0
  BY <1>1, Numbers DEF Streams!Free, Lit, Slot
<1>3. h \in FdTable /\ h[a] = g[1] /\ \A d \in Streams!Descriptors : d # a => h[d] = g[d]
  BY <1>1, <1>2, Numbers DEF FdTable
<1> HIDE DEF h, h2, a, b
<1>4. Streams!Free(h) # {}
  BY <1>3 DEF Streams!Free
<1>5. b \in Streams!Free(h) /\ h2 = [h EXCEPT ![b] = h[2]]
  BY <1>3, <1>4, Numbers, SavedIs DEF h, h2, b
<1>6. b \in Streams!Descriptors \ Streams!Std /\ g[b] = "none" /\ b \in Slot /\ b # 0 /\ b # a
  <2>1. b \in Streams!Descriptors /\ h[b] = "none" /\ h[a] # "none"
    BY <1>3, <1>5, Numbers DEF Streams!Free, Lit
  <2>2. g[b] = "none"
    BY <2>1, <1>3
  <2>3. QED
    BY <2>1, <2>2, Numbers DEF Lit, Slot
<1>7. /\ h2 \in FdTable /\ h2[a] = g[1] /\ h2[b] = g[2]
      /\ \A d \in Streams!Descriptors : d # a /\ d # b => h2[d] = g[d]
  BY <1>2, <1>3, <1>5, <1>6, Numbers DEF FdTable
<1>8. QED
  BY <1>2, <1>6, <1>7 DEF Doubled, a, b, h2

\* eval saves the streams once more, for the EXIT trap of its program.
LEMMA EvalNested ==
  ASSUME NEW f, NEW fr, NEW bk, Nested(f, fr, bk), Len(fr) < MaxFrames,
         NEW g, NEW sv, Kept(f, g, sv, TRUE), NoFile(f, sv), NoEval(fr),
         NEW fr2, fr2 = Append(fr, [kind |-> "eval", saved |-> sv]),
         NEW h2, NEW bk2, Doubles(g, h2, bk2)
  PROVE  Nested(h2, fr2, bk2)
<1>1. /\ g \in FdTable /\ Lit(g) /\ fr2 \in Seq(Frame) /\ Len(fr2) <= MaxFrames
      /\ SlotsHeld(g, fr2) /\ SlotsApart(fr2) /\ BackupsHeld(g, fr2, bk) /\ AllKnown(g, fr2, bk)
  BY Deeper DEF NoFile
<1> DEFINE a == bk2[1]
           b == bk2[2]
<1>2. /\ a \in Slot \ {0} /\ b \in Slot \ {0} /\ a # b /\ g[a] = "none" /\ g[b] = "none"
      /\ h2 \in FdTable /\ h2[a] = g[1] /\ h2[b] = g[2]
      /\ \A d \in Streams!Descriptors : d # a /\ d # b => h2[d] = g[d]
  BY DEF Doubled, Doubles
<1>3. bk2[1] = a /\ bk2[2] = b /\ bk2 \in [Streams!Std -> Slot]
  BY DEF Doubles
<1> HIDE DEF a, b
<1>4. a \in Streams!Descriptors \ Streams!Std /\ b \in Streams!Descriptors \ Streams!Std
  BY <1>2 DEF Slot
<1>5. Lit(h2)
  BY <1>1, <1>2, <1>4, Numbers DEF Lit
<1>6. \A i \in 1 .. Len(fr2), s \in Streams!Std : fr2[i].saved[s] # 0 =>
          /\ fr2[i].saved[s] \in Streams!Descriptors /\ fr2[i].saved[s] # a /\ fr2[i].saved[s] # b
          /\ h2[fr2[i].saved[s]] = g[fr2[i].saved[s]]
  <2>1. ASSUME NEW i \in 1 .. Len(fr2), NEW s \in Streams!Std, fr2[i].saved[s] # 0
        PROVE  fr2[i].saved[s] \in Streams!Descriptors /\ g[fr2[i].saved[s]] # "none"
    BY <2>1, <1>1, FrameIs DEF Slot, SlotsHeld
  <2>2. QED
    BY <2>1, <1>2, <1>4
<1>7. SlotsHeld(h2, fr2)
  BY <1>1, <1>6 DEF SlotsHeld
<1>8. BackupsHeld(h2, fr2, bk2)
  <2>1. ASSUME NEW s \in Streams!Std
        PROVE  /\ h2[bk2[s]] # "none" /\ bk2[s] # 0
               /\ \A i \in 1 .. Len(fr2), u \in Streams!Std : fr2[i].saved[u] # bk2[s]
    <3>1. bk2[s] = a \/ bk2[s] = b
      BY <1>3, Numbers
    <3>2. g[1] # "none" /\ g[2] # "none"
      BY <1>1, Numbers DEF Lit
    <3>3. bk2[s] # 0 /\ h2[bk2[s]] # "none"
      BY <3>1, <3>2, <1>2 DEF Slot
    <3>4. QED
      BY <3>1, <3>3, <1>2, <1>6
  <2>2. QED
    BY <2>1 DEF BackupsHeld
<1>9. \A s \in Streams!Std : bk[s] \in {0, 3, 4}
  BY DEF Nested, OneEval, NoEval
<1>10. AllKnown(h2, fr2, bk2)
  <2>1. ASSUME NEW d \in Streams!Descriptors \ Streams!Std, h2[d] # "none"
        PROVE  \/ d \in {3, 4} \cup {bk2[1], bk2[2]}
               \/ \E i \in 1 .. Len(fr2), s \in Streams!Std : fr2[i].saved[s] = d
    <3>1. CASE d = a \/ d = b
      BY <3>1, <1>3
    <3>2. CASE d # a /\ d # b
      <4>1. g[d] # "none"
        BY <2>1, <3>2, <1>2
      <4>2. \/ d \in {3, 4} \cup {bk[1], bk[2]}
            \/ \E i \in 1 .. Len(fr2), s \in Streams!Std : fr2[i].saved[s] = d
        BY <4>1, <1>1 DEF AllKnown
      <4>3. d # 0 /\ bk[1] \in {0, 3, 4} /\ bk[2] \in {0, 3, 4}
        BY <1>9, Numbers
      <4>4. QED
        BY <4>2, <4>3
    <3>3. QED
      BY <3>1, <3>2
  <2>2. QED
    BY <2>1 DEF AllKnown
<1>11. OneEval(fr2, bk2)
  <2> DEFINE n == Len(fr)
             e == [kind |-> "eval", saved |-> sv]
  <2>1. /\ Len(fr2) = n + 1 /\ fr2[n + 1] = e /\ n \in Nat
        /\ \A i \in 1 .. n : fr2[i] = fr[i]
    <3>1. fr \in Seq(Frame) /\ e \in Frame
      BY DEF Nested, Kept, Frame
    <3> HIDE DEF e
    <3>2. fr2 = Append(fr, e)
      BY DEF e
    <3>3. QED
      BY <3>1, <3>2, AppendedIs
  <2>2. e.kind = "eval" /\ n + 1 \in 1 .. Len(fr2)
    BY <2>1
  <2>3. \A i \in 1 .. n : fr2[i].kind # "eval"
    BY <2>1 DEF NoEval
  <2> HIDE DEF n, e
  <2>4. \A i \in 1 .. Len(fr2) : fr2[i].kind = "eval" => i = n + 1
    BY <2>1, <2>3, OldOrNew
  <2>5. QED
    BY <2>1, <2>2, <2>4 DEF OneEval
<1>12. Nested(h2, fr2, bk2)
  BY <1>1, <1>2, <1>3, <1>5, <1>7, <1>8, <1>10, <1>11 DEF Nested
<1>13. QED
  BY <1>12

LEMMA FrontIs ==
  ASSUME NEW fr \in Seq(Frame), NEW n \in Nat, Len(fr) = n + 1, NEW fr2, fr2 = SubSeq(fr, 1, n)
  PROVE  fr2 \in Seq(Frame) /\ Len(fr2) = n /\ \A i \in 1 .. n : fr2[i] = fr[i]
  OBVIOUS

\* The descriptors after eval has discarded the streams it saved.
Discards(f, bk, t, kind) ==
  /\ t \in FdTable
  /\ \A d \in Streams!Descriptors : t[d] = f[d] \/ (kind = "eval" /\ t[d] = "none" /\ d \in {bk[1], bk[2]})
  /\ kind = "eval" => \A d \in Streams!Descriptors : d \in {bk[1], bk[2]} => t[d] = "none"

LEMMA DiscardsOrNot ==
  ASSUME NEW f \in FdTable, NEW bk \in [Streams!Std -> Slot], NEW kind,
         NEW t, t = IF kind # "eval" THEN f
                    ELSE [d \in Streams!Descriptors |->
                            IF d \in {bk[s] : s \in Streams!Std} THEN "none" ELSE f[d]]
  PROVE  Discards(f, bk, t, kind)
<1>1. CASE kind # "eval"
  BY <1>1 DEF Discards
<1>2. CASE kind = "eval"
  <2>1. {bk[s] : s \in Streams!Std} = {bk[1], bk[2]}
    BY Numbers
  <2>2. t = [d \in Streams!Descriptors |-> IF d \in {bk[1], bk[2]} THEN "none" ELSE f[d]]
    BY <1>2, <2>1
  <2>3. QED
    BY <2>2, <1>2 DEF Discards, FdTable, Files
<1>3. QED
  BY <1>1, <1>2

\* The last of fr is e, the others are fr2.
Splits(fr, n, fr2, e) == n \in Nat /\ Len(fr) = n + 1 /\ fr2 = SubSeq(fr, 1, n) /\ e = fr[n + 1]
Backup(bk, e) == IF e.kind = "eval" THEN Streams!None ELSE bk

\* The command that began last is done.
LEMMA ReturnNested ==
  ASSUME NEW f, NEW fr, NEW bk, Nested(f, fr, bk), NEW n, NEW fr2, NEW e, Splits(fr, n, fr2, e),
         NEW t, Discards(f, bk, t, e.kind),
         NEW sv, sv = e.saved, NEW g, g = Streams!Restored(t, sv),
         NEW bk2, bk2 = Backup(bk, e)
  PROVE  /\ Nested(g, fr2, bk2)
         /\ \A s \in Streams!Std : /\ g[s] = IF sv[s] = 0 THEN f[s] ELSE f[sv[s]]
                                   /\ sv[s] # 0 => g[s] \notin Regular
         /\ \A i \in 1 .. n, s \in Streams!Std :
               fr[i].saved[s] # 0 => g[fr[i].saved[s]] = f[fr[i].saved[s]]
<1>1. /\ n \in Nat /\ Len(fr) = n + 1 /\ fr2 = SubSeq(fr, 1, n) /\ e = fr[n + 1] /\ sv = fr[n + 1].saved
      /\ bk2 = IF fr[n + 1].kind = "eval" THEN Streams!None ELSE bk
  BY DEF Splits, Backup
<1>2. f \in FdTable /\ Lit(f) /\ fr \in Seq(Frame) /\ n <= MaxFrames
      /\ bk \in [Streams!Std -> Slot] /\ n + 1 \in 1 .. Len(fr)
  BY <1>1, Numbers DEF Nested
<1>3. sv \in [Streams!Std -> Slot]
  BY <1>1, <1>2, FrameIs
<1>4. /\ fr2 \in Seq(Frame) /\ Len(fr2) = n
      /\ \A i \in 1 .. n : fr2[i] = fr[i] /\ i \in 1 .. Len(fr) /\ i # n + 1
  <2>1. \A i \in 1 .. n : i \in 1 .. Len(fr) /\ i # n + 1
    BY <1>1, <1>2
  <2>2. fr2 \in Seq(Frame) /\ Len(fr2) = n /\ \A i \in 1 .. n : fr2[i] = fr[i]
    BY <1>1, <1>2, FrontIs
  <2>3. QED
    BY <1>1, <2>1, <2>2
<1>5. \A s \in Streams!Std : sv[s] # 0 => /\ sv[s] \in Streams!Descriptors \ Streams!Std
                                          /\ f[sv[s]] \notin {"none"} \cup Regular
                                          /\ \A u \in Streams!Std : bk[u] # sv[s]
  <2>1. SUFFICES ASSUME NEW s \in Streams!Std, fr[n + 1].saved[s] # 0
                 PROVE  /\ fr[n + 1].saved[s] \in Streams!Descriptors \ Streams!Std
                        /\ f[fr[n + 1].saved[s]] \notin {"none"} \cup Regular
                        /\ \A u \in Streams!Std : bk[u] # fr[n + 1].saved[s]
    BY <1>1, <1>2
  <2>2. fr[n + 1].saved[s] \in Slot
    BY <1>1, <1>2, FrameIs
  <2>3. f[fr[n + 1].saved[s]] \notin {"none"} \cup Regular
    BY <1>1, <1>2, <2>1 DEF Nested, SlotsHeld
  <2>4. \A u \in Streams!Std : bk[u] # 0 => bk[u] # fr[n + 1].saved[s]
    BY <1>1, <1>2 DEF Nested, BackupsHeld
  <2>5. QED
    BY <1>1, <2>1, <2>2, <2>3, <2>4 DEF Slot
<1>6. /\ t \in FdTable
      /\ \A d \in Streams!Descriptors :
            t[d] = f[d] \/ (fr[n + 1].kind = "eval" /\ t[d] = "none" /\ d \in {bk[1], bk[2]})
      /\ fr[n + 1].kind = "eval" =>
            \A d \in Streams!Descriptors : d \in {bk[1], bk[2]} => t[d] = "none"
  BY <1>1 DEF Discards
<1>7. \A s \in Streams!Std : t[s] = f[s] /\ (sv[s] # 0 => t[sv[s]] = f[sv[s]])
  BY ONLY <1>1, <1>2, <1>3, <1>5, <1>6, Numbers DEF Slot
<1>8. sv[1] # 0 => sv[1] # sv[2]
  <2>1. ASSUME fr[n + 1].saved[1] # 0, fr[n + 1].saved[1] = fr[n + 1].saved[2] PROVE FALSE
    BY <1>1, <1>2, <2>1, Numbers DEF Nested, SlotsApart
  <2>2. QED
    BY <1>1, <2>1, <1>2
<1>9. /\ g = [d \in Streams!Descriptors |-> g[d]]
      /\ \A s \in Streams!Std : g[s] = IF sv[s] = 0 THEN t[s] ELSE t[sv[s]]
      /\ \A d \in Streams!Descriptors \ Streams!Std :
            g[d] = IF d = sv[1] \/ d = sv[2] THEN "none" ELSE t[d]
  BY <1>1, <1>3, <1>6, <1>8, RestoredIs
<1>10. Lit(g)
  <2>1. ASSUME NEW s \in Streams!Std PROVE g[s] # "none"
    <3>1. t[s] = f[s] /\ f[s] # "none" /\ g[s] = IF sv[s] = 0 THEN t[s] ELSE t[sv[s]]
      BY <1>1, <1>2, <1>7, <1>9 DEF Lit
    <3>2. ASSUME sv[s] # 0 PROVE t[sv[s]] # "none"
      BY ONLY <1>1, <1>5, <1>7, <3>2, s \in Streams!Std
    <3>3. QED
      BY ONLY <1>1, <3>1, <3>2
  <2>2. QED
    BY <1>1, <2>1 DEF Lit
<1>11. g \in FdTable
  <2>1. \A d \in Streams!Descriptors : g[d] \in Files
    BY ONLY <1>1, <1>2, <1>5, <1>6, <1>7, <1>9 DEF FdTable, Files
  <2>2. QED
    BY <1>1, <2>1, <1>9 DEF FdTable
<1>12. ASSUME NEW i \in 1 .. n, NEW s \in Streams!Std, fr[i].saved[s] # 0
       PROVE  /\ g[fr[i].saved[s]] \notin {"none"} \cup Regular
              /\ g[fr[i].saved[s]] = f[fr[i].saved[s]]
  <2>1. fr[i].saved[s] \in Streams!Descriptors \ Streams!Std
    BY <1>1, <1>2, <1>4, <1>12, FrameIs DEF Slot
  <2>2. f[fr[i].saved[s]] \notin {"none"} \cup Regular
    BY <1>1, <1>4, <1>12 DEF Nested, SlotsHeld
  <2>3. \A u \in Streams!Std : fr[i].saved[s] # fr[n + 1].saved[u]
    BY <1>1, <1>2, <1>4, <1>12 DEF Nested, SlotsApart
  <2>4. \A u \in Streams!Std : bk[u] # fr[i].saved[s]
    BY <1>1, <1>4, <1>12 DEF Nested, BackupsHeld
  <2>5. fr[i].saved[s] # sv[1] /\ fr[i].saved[s] # sv[2] /\ fr[i].saved[s] \notin {bk[1], bk[2]}
    BY <1>1, <2>3, <2>4, <1>2, Numbers
  <2>6. QED
    BY <1>1, <2>1, <2>2, <2>5, <1>6, <1>9
<1>13. SlotsHeld(g, fr2)
  <2>1. \A i \in 1 .. n, s \in Streams!Std : fr[i].saved[s] # 0 => g[fr[i].saved[s]] \notin {"none"} \cup Regular
    BY <1>1, <1>12
  <2>2. QED
    BY <1>1, <2>1, <1>4 DEF SlotsHeld
<1>14. SlotsApart(fr2)
  BY <1>1, <1>4 DEF Nested, SlotsApart
<1>15. bk2 \in [Streams!Std -> Slot]
  BY <1>1, <1>2, Numbers DEF Streams!None, Slot
<1>16. BackupsHeld(g, fr2, bk2)
  <2>1. SUFFICES ASSUME NEW s \in Streams!Std, bk2[s] # 0
                 PROVE  /\ g[bk2[s]] # "none"
                        /\ \A i \in 1 .. n, u \in Streams!Std : fr[i].saved[u] # bk2[s]
    BY <1>4 DEF BackupsHeld
  <2>2. fr[n + 1].kind # "eval" /\ bk2 = bk /\ bk[s] # 0
    BY <1>1, <2>1 DEF Streams!None
  <2>3. f[bk[s]] # "none" /\ \A i \in 1 .. n, u \in Streams!Std : fr[i].saved[u] # bk[s]
    BY <1>1, <2>2, <1>4 DEF Nested, BackupsHeld
  <2>4. bk[s] # sv[1] /\ bk[s] # sv[2] /\ bk[s] \in Streams!Descriptors \ Streams!Std
    <3>1. \A u \in Streams!Std : fr[n + 1].saved[u] # bk[s]
      BY <1>1, <2>2, <1>2 DEF Nested, BackupsHeld
    <3>2. QED
      BY <1>1, <3>1, <2>2, <1>2, Numbers DEF Slot
  <2>5. QED
    BY <1>1, <2>2, <2>3, <2>4, <1>6, <1>9
<1>17. OneEval(fr2, bk2)
  <2>1. ASSUME \A i \in 1 .. n : fr[i].kind # "eval", NEW s \in Streams!Std PROVE bk2[s] \in {0, 3, 4}
    <3>1. CASE fr[n + 1].kind = "eval"
      BY <1>1, <3>1 DEF Streams!None
    <3>2. CASE fr[n + 1].kind # "eval"
      <4>1. \A i \in 1 .. Len(fr) : fr[i].kind # "eval"
        BY <1>1, <2>1, <3>2, <1>2, OldOrNew
      <4>2. QED
        BY <1>1, <3>2, <4>1 DEF Nested, OneEval
    <3>3. QED
      BY <1>1, <3>1, <3>2
  <2>2. \A i \in 1 .. n, j \in 1 .. n : fr[i].kind = "eval" /\ fr[j].kind = "eval" => i = j
    BY <1>1, <1>4 DEF Nested, OneEval
  <2>3. QED
    BY <1>1, <2>1, <2>2, <1>4 DEF OneEval
<1>18. AllKnown(g, fr2, bk2)
  <2>1. SUFFICES ASSUME NEW d \in Streams!Descriptors \ Streams!Std, g[d] # "none"
                 PROVE  \/ d \in {3, 4} \cup {bk2[1], bk2[2]}
                        \/ \E i \in 1 .. n, s \in Streams!Std : fr2[i].saved[s] = d
    BY <1>1, <1>4 DEF AllKnown
  <2>2. d # sv[1] /\ d # sv[2] /\ t[d] # "none" /\ f[d] # "none"
    BY <1>1, <2>1, <1>6, <1>9
  <2>3. CASE d \in {3, 4}
    BY <1>1, <2>3
  <2>4. CASE d \in {bk[1], bk[2]}
    <3>1. fr[n + 1].kind # "eval"
      BY <1>1, <2>2, <2>4, <1>6
    <3>2. QED
      BY <1>1, <3>1, <2>4
  <2>5. ASSUME NEW i \in 1 .. Len(fr), NEW s \in Streams!Std, fr[i].saved[s] = d
        PROVE  \E k \in 1 .. n, u \in Streams!Std : fr2[k].saved[u] = d
    <3>1. i # n + 1
      BY <1>1, <2>2, <2>5, <1>2, Numbers
    <3>2. i \in 1 .. n
      BY <1>1, <3>1, <1>2, OldOrNew
    <3>3. QED
      BY <1>1, <3>2, <2>5, <1>4
  <2>6. QED
    BY <1>1, <2>2, <2>3, <2>4, <2>5 DEF Nested, AllKnown
<1>19. Nested(g, fr2, bk2)
  BY <1>1, <1>2, <1>4, <1>10, <1>11, <1>13, <1>14, <1>15, <1>16, <1>17, <1>18 DEF Nested
<1>20. ASSUME NEW s \in Streams!Std
       PROVE  /\ g[s] = IF sv[s] = 0 THEN f[s] ELSE f[sv[s]]
              /\ sv[s] # 0 => g[s] \notin Regular
  BY ONLY <1>5, <1>7, <1>9, s \in Streams!Std
<1>21. QED
  BY <1>1, <1>12, <1>19, <1>20

-----------------------------------------------------------------------------
(***************************************************************************)
(* What every command keeps.                                               *)
(***************************************************************************)
StreamsInv ==
  /\ Nested(fds, frames, backup_fd)
  /\ content = written /\ content \in [Regular -> {"empty", "output"}]
  /\ execs \in Nat

LEMMA ReadyIs == ASSUME StreamsInv, Reckless = {} PROVE Ready
  BY RoomLeft DEF StreamsInv, Nested, Ready

LEMMA OpenedIs ==
  ASSUME NEW st, NEW c \in [Regular -> {"empty", "output"}]
  PROVE  Streams!Opened(st, c) \in [Regular -> {"empty", "output"}]
  BY DEF Streams!Opened

\* A stream that was a file is not saved.
LEMMA SavedNoFile ==
  ASSUME Ready, NEW l \in Streams!Lists, NEW kind, kind # "exec", Streams!Careful(l, kind),
         NEW st, NEW b, ListDone(l, st, b)
  PROVE  \A s \in Streams!Std : st.saved[s] # 0 => fds[s] \notin Regular
<1>1. l = <<>> \/ \A s \in Streams!Std : fds[s] \notin Regular
  BY Careful DEF Ready
<1>2. CASE l = <<>>
  <2>1. Len(l) = 0
    BY <1>2
  <2>2. st = Undone(fds)
    BY <2>1 DEF ListDone
  <2>3. st.saved = Streams!None
    BY <2>2 DEF Undone
  <2>4. QED
    BY <2>3 DEF Streams!None
<1>3. QED
  BY <1>1, <1>2

\* What goes back to a stream that is no file empties no file.
LEMMA NoneEmptied ==
  ASSUME NEW f, NEW sv, \A s \in Streams!Std : sv[s] # 0 => f[s] \notin Regular,
         NEW c, c = [e \in Regular |-> c[e]]
  PROVE  Streams!Emptied(f, sv, c) = c
<1>1. \A e \in Regular : ~ \E s \in Streams!Std : sv[s] # 0 /\ f[s] = e
  OBVIOUS
<1>2. QED
  BY <1>1 DEF Streams!Emptied

LEMMA BuiltinKeeps ==
  ASSUME StreamsInv, Reckless = {}, NEW l \in Streams!Lists, Streams!Builtin(l)
  PROVE  /\ Nested(fds', frames', backup_fd') /\ fds' = fds /\ frames' = frames
         /\ content' = written' /\ content' \in [Regular -> {"empty", "output"}]
<1> DEFINE st == Streams!SimpleList(l, TRUE)
           out == st.fds[1]
           Put(c) == [f \in Regular |-> IF st.ok /\ f = out THEN "output" ELSE Streams!Opened(st, c)[f]]
<1>1. /\ Streams!Careful(l, "builtin")
      /\ fds' = Streams!Restored(st.fds, st.saved)
      /\ content' = Streams!Emptied(fds', st.saved, Put(content))
      /\ written' = Put(written) /\ frames' = frames /\ backup_fd' = backup_fd
  BY DEF Streams!Builtin
<1>2. Ready
  BY ReadyIs
<1>3. ListDone(l, st, TRUE)
  BY <1>1, <1>2, SimpleIs
<1>4. Streams!Opened(st, content) \in [Regular -> {"empty", "output"}]
  BY OpenedIs DEF StreamsInv
<1>5. Put(content) \in [Regular -> {"empty", "output"}]
  BY <1>4
<1>6. \A s \in Streams!Std : st.saved[s] # 0 => fds[s] \notin Regular
  BY <1>1, <1>2, <1>3, SavedNoFile
<1> HIDE DEF st, Put, out
<1>7. fds' = fds
  <2>1. Kept(fds, st.fds, st.saved, TRUE) /\ fds \in FdTable
    BY <1>2, <1>3 DEF ListDone, Good, Ready
  <2>2. Streams!Restored(st.fds, st.saved) = fds
    BY <2>1, RestoresKept
  <2>3. QED
    BY <1>1, <2>2
<1>8. content' = Put(content)
  <2>1. Put(content) = [e \in Regular |-> Put(content)[e]]
    BY <1>5
  <2>2. content' = Streams!Emptied(fds, st.saved, Put(content))
    BY <1>1, <1>7
  <2>3. QED
    BY <2>1, <2>2, <1>6, NoneEmptied
<1>9. Nested(fds', frames', backup_fd')
  BY <1>1, <1>7 DEF StreamsInv
<1>10. content' = written'
  BY <1>1, <1>8 DEF StreamsInv
<1>11. QED
  BY <1>1, <1>5, <1>7, <1>8, <1>9, <1>10

LEMMA ExternalKeeps ==
  ASSUME StreamsInv, Reckless = {}, NEW l \in Streams!Lists, Streams!External(l)
  PROVE  /\ Nested(fds', frames', backup_fd') /\ fds' = fds /\ frames' = frames
         /\ content' = written' /\ content' \in [Regular -> {"empty", "output"}]
<1> DEFINE st == Streams!SimpleList(l, FALSE)
<1>1. /\ Streams!Careful(l, "external") /\ fds' = Streams!Prepared(fds, l).fds
      /\ content' = Streams!Opened(st, content) /\ written' = Streams!Opened(st, written)
      /\ frames' = frames /\ backup_fd' = backup_fd
  BY DEF Streams!External
<1> HIDE DEF st
<1>2. ~Streams!Has(l, {"here"})
  BY <1>1, Careful
<1>3. fds' = fds
  BY <1>1, <1>2, PreparedOpensNone
<1>4. content' \in [Regular -> {"empty", "output"}]
  BY <1>1, OpenedIs DEF StreamsInv
<1>5. QED
  BY <1>1, <1>3, <1>4 DEF StreamsInv

LEMMA ExecKeeps ==
  ASSUME StreamsInv, Reckless = {}, NEW l \in Streams!Lists, Streams!Exec(l)
  PROVE  /\ Nested(fds', frames', backup_fd') /\ fds' \in FdTable /\ frames' = frames
         /\ \A d \in Streams!Descriptors \ Streams!Std : fds'[d] = fds[d]
         /\ content' = written' /\ content' \in [Regular -> {"empty", "output"}]
<1> DEFINE st == Streams!SimpleList(l, FALSE)
<1>1. /\ Streams!Careful(l, "exec") /\ fds' = st.fds
      /\ content' = Streams!Opened(st, content) /\ written' = Streams!Opened(st, written)
      /\ frames' = frames /\ backup_fd' = backup_fd
  BY DEF Streams!Exec
<1>2. Ready
  BY ReadyIs
<1>3. ListDone(l, st, FALSE)
  BY <1>1, <1>2, SimpleIs
<1> HIDE DEF st
<1>4. Kept(fds, st.fds, st.saved, FALSE)
  BY <1>3 DEF ListDone, Good
<1>5. /\ st.fds \in FdTable /\ Lit(st.fds)
      /\ \A d \in Streams!Descriptors \ Streams!Std : st.fds[d] = fds[d]
  <2>1. \A s \in Streams!Std : st.saved[s] = 0
    BY <1>4 DEF Kept
  <2>2. QED
    BY <2>1, <1>4, Numbers DEF Kept
<1>6. Nested(fds, frames, backup_fd)
  BY DEF StreamsInv
<1>7. Nested(st.fds, frames, backup_fd)
  BY <1>5, <1>6, SameSlots
<1>8. content' \in [Regular -> {"empty", "output"}]
  BY <1>1, OpenedIs DEF StreamsInv
<1>9. QED
  BY <1>1, <1>5, <1>7, <1>8 DEF StreamsInv

LEMMA EnteredKeeps ==
  ASSUME StreamsInv, NEW kind, NEW st, NEW backup, Streams!Entered(kind, st, backup)
  PROVE  /\ Len(frames) < MaxFrames /\ frames' = Append(frames, [kind |-> kind, saved |-> st.saved])
         /\ backup_fd' = backup
         /\ content' = written' /\ content' \in [Regular -> {"empty", "output"}]
<1>1. content' = Streams!Opened(st, content) /\ written' = Streams!Opened(st, written)
  BY DEF Streams!Entered
<1>2. content' \in [Regular -> {"empty", "output"}]
  BY <1>1, OpenedIs DEF StreamsInv
<1>3. QED
  BY <1>1, <1>2 DEF StreamsInv, Streams!Entered

\* A command with redirections begins: its streams are saved.
LEMMA CompoundKeeps ==
  ASSUME StreamsInv, Reckless = {}, NEW l \in Streams!Lists, Streams!Compound(l)
  PROVE  /\ Nested(fds', frames', backup_fd')
         /\ \E sv : /\ frames' = Append(frames, [kind |-> "compound", saved |-> sv])
                    /\ Kept(fds, fds', sv, TRUE)
         /\ content' = written' /\ content' \in [Regular -> {"empty", "output"}]
<1> DEFINE st == Streams!CompoundList(l)
<1>1. /\ Streams!Careful(l, "compound") /\ fds' = st.fds /\ st.ok
      /\ Streams!Entered("compound", st, backup_fd)
  BY DEF Streams!Compound
<1>2. Ready
  BY ReadyIs
<1>3. ListDone(l, st, TRUE)
  BY <1>1, <1>2, CompoundIs
<1>4. \A s \in Streams!Std : st.saved[s] # 0 => fds[s] \notin Regular
  BY <1>1, <1>2, <1>3, SavedNoFile
<1> HIDE DEF st
<1>5. /\ Len(frames) < MaxFrames /\ frames' = Append(frames, [kind |-> "compound", saved |-> st.saved])
      /\ backup_fd' = backup_fd
      /\ content' = written' /\ content' \in [Regular -> {"empty", "output"}]
  BY <1>1, EnteredKeeps
<1>6. Kept(fds, st.fds, st.saved, TRUE) /\ Nested(fds, frames, backup_fd)
  BY <1>3 DEF ListDone, Good, StreamsInv
<1>7. Nested(st.fds, frames', backup_fd)
  BY <1>4, <1>5, <1>6, EnterNested
<1>8. QED
  BY <1>1, <1>5, <1>6, <1>7

LEMMA FunctionKeeps ==
  ASSUME StreamsInv, Reckless = {}, NEW l \in Streams!Lists, Streams!Function(l)
  PROVE  /\ Nested(fds', frames', backup_fd')
         /\ \E sv : /\ frames' = Append(frames, [kind |-> "function", saved |-> sv])
                    /\ Kept(fds, fds', sv, TRUE)
         /\ content' = written' /\ content' \in [Regular -> {"empty", "output"}]
<1> DEFINE st == Streams!SimpleList(l, FALSE)
<1>1. /\ Streams!Careful(l, "function") /\ fds' = st.fds /\ Streams!Entered("function", st, backup_fd)
  BY DEF Streams!Function
<1>2. Ready
  BY ReadyIs
<1>3. ListDone(l, st, FALSE)
  BY <1>1, <1>2, SimpleIs
<1> HIDE DEF st
<1>4. st.fds = fds /\ st.saved = Streams!None
  <2>1. Len(l) = 0
    BY <1>1, Careful
  <2>2. st = Undone(fds)
    BY <2>1, <1>3 DEF ListDone
  <2>3. QED
    BY <2>2 DEF Undone
<1>5. /\ Len(frames) < MaxFrames /\ frames' = Append(frames, [kind |-> "function", saved |-> Streams!None])
      /\ backup_fd' = backup_fd
      /\ content' = written' /\ content' \in [Regular -> {"empty", "output"}]
  <2>1. /\ Len(frames) < MaxFrames /\ frames' = Append(frames, [kind |-> "function", saved |-> st.saved])
        /\ backup_fd' = backup_fd
        /\ content' = written' /\ content' \in [Regular -> {"empty", "output"}]
    BY <1>1, EnteredKeeps
  <2>2. QED
    BY <2>1, <1>4
<1>6. Kept(fds, fds, Streams!None, TRUE) /\ Nested(fds, frames, backup_fd)
  BY <1>2, KeptStarts DEF Ready, StreamsInv
<1>7. \A s \in Streams!Std : Streams!None[s] # 0 => fds[s] \notin Regular
  BY DEF Streams!None
<1>8. Nested(fds, frames', backup_fd)
  BY <1>5, <1>6, <1>7, EnterNested
<1>9. QED
  BY <1>1, <1>4, <1>5, <1>6, <1>8

LEMMA EvalKeeps ==
  ASSUME StreamsInv, Reckless = {}, NEW l \in Streams!Lists, Streams!Eval(l)
  PROVE  /\ Nested(fds', frames', backup_fd')
         /\ \E g, sv : /\ frames' = Append(frames, [kind |-> "eval", saved |-> sv])
                       /\ Kept(fds, g, sv, TRUE)
                       /\ \A d \in Streams!Descriptors : g[d] # "none" => fds'[d] = g[d]
         /\ content' = written' /\ content' \in [Regular -> {"empty", "output"}]
<1> DEFINE st == Streams!SimpleList(l, TRUE)
           s1 == Streams!Saved(st.fds, 1)
           s2 == Streams!Saved(s1.fds, 2)
           bk == [s \in Streams!Std |-> IF s = 1 THEN s1.at ELSE s2.at]
<1>1. /\ Streams!Careful(l, "eval") /\ fds' = s2.fds /\ Streams!Entered("eval", st, bk)
      /\ \A i \in DOMAIN frames : frames[i].kind # "eval"
  BY DEF Streams!Eval
<1>2. Ready
  BY ReadyIs
<1>3. ListDone(l, st, TRUE)
  BY <1>1, <1>2, SimpleIs
<1>4. \A s \in Streams!Std : st.saved[s] # 0 => fds[s] \notin Regular
  BY <1>1, <1>2, <1>3, SavedNoFile
<1> HIDE DEF st
<1>5. Kept(fds, st.fds, st.saved, TRUE) /\ Nested(fds, frames, backup_fd) /\ Room(fds)
  BY <1>2, <1>3 DEF ListDone, Good, StreamsInv, Ready
<1>6. \A i \in 1 .. Len(frames) : frames[i].kind # "eval"
  BY <1>1, <1>5 DEF Nested
<1> HIDE DEF bk, s2, s1
<1>7. /\ Len(frames) < MaxFrames /\ frames' = Append(frames, [kind |-> "eval", saved |-> st.saved])
      /\ backup_fd' = bk
      /\ content' = written' /\ content' \in [Regular -> {"empty", "output"}]
  BY <1>1, EnteredKeeps
<1>8. PICK x, y \in Streams!Free(st.fds) : x # y
  <2>1. /\ fds \in FdTable /\ Lit(fds) /\ Room(fds)
        /\ \A d \in Streams!Descriptors \ Streams!Std :
              (\A s \in Streams!Std : d # st.saved[s]) => st.fds[d] = fds[d]
    BY <1>5 DEF Nested, Kept
  <2>2. QED
    BY <2>1, TwoLeft
<1>9. Doubled(st.fds, s2.fds, s1.at, s2.at)
  <2>1. st.fds \in FdTable /\ Lit(st.fds)
    BY <1>5 DEF Kept
  <2>2. s1 = Streams!Saved(st.fds, 1) /\ s2 = Streams!Saved(s1.fds, 2)
    BY DEF s1, s2
  <2>3. QED
    BY <1>8, <2>1, <2>2, DoubledIs
<1>10. bk \in [Streams!Std -> Slot] /\ bk[1] = s1.at /\ bk[2] = s2.at
  BY <1>9, Numbers DEF bk, Doubled
<1>11. Doubles(st.fds, s2.fds, bk) /\ NoEval(frames) /\ NoFile(fds, st.saved)
  BY <1>4, <1>6, <1>9, <1>10 DEF Doubles, NoEval, NoFile
<1>12. Nested(s2.fds, frames', bk)
  <2> DEFINE g == st.fds
             sv == st.saved
             h == s2.fds
             fr == frames'
  <2>1. /\ Nested(fds, frames, backup_fd) /\ Len(frames) < MaxFrames
        /\ Kept(fds, g, sv, TRUE) /\ NoFile(fds, sv) /\ NoEval(frames)
        /\ fr = Append(frames, [kind |-> "eval", saved |-> sv]) /\ Doubles(g, h, bk)
    BY <1>5, <1>7, <1>11
  <2> HIDE DEF g, sv, h, fr
  <2>2. Nested(h, fr, bk)
    BY ONLY <2>1, EvalNested
  <2>3. QED
    BY <2>2 DEF h, fr
<1>13. \A d \in Streams!Descriptors : st.fds[d] # "none" => s2.fds[d] = st.fds[d]
  BY <1>11 DEF Doubles, Doubled
<1>14. QED
  BY <1>1, <1>5, <1>7, <1>12, <1>13

\* The innermost of n + 1 commands returns.
Returns(n, e, t) ==
  /\ Splits(frames, n, frames', e)
  /\ Discards(fds, backup_fd, t, e.kind)
  /\ fds' = Streams!Restored(t, e.saved) /\ backup_fd' = Backup(backup_fd, e)
  /\ content' = Streams!Emptied(fds', e.saved, content)
  /\ written' = written

LEMMA ReturnKeeps ==
  ASSUME StreamsInv, Reckless = {}, Streams!Return
  PROVE  \E n, e, t : Returns(n, e, t)
<1> DEFINE n == Len(frames) - 1
           e == frames[Len(frames)]
           t == IF e.kind # "eval" THEN fds
                ELSE [d \in Streams!Descriptors |->
                        IF d \in {backup_fd[s] : s \in Streams!Std} THEN "none" ELSE fds[d]]
<1>1. frames \in Seq(Frame) /\ frames # <<>> /\ fds \in FdTable /\ backup_fd \in [Streams!Std -> Slot]
  BY DEF Streams!Return, StreamsInv, Nested
<1>2. n \in Nat /\ Len(frames) = n + 1 /\ e = frames[n + 1]
  BY <1>1
<1>3. /\ frames' = SubSeq(frames, 1, n) /\ fds' = Streams!Restored(t, e.saved)
      /\ backup_fd' = Backup(backup_fd, e)
      /\ content' = Streams!Emptied(fds', e.saved, content) /\ written' = written
  BY DEF Streams!Return, Backup
<1>4. Discards(fds, backup_fd, t, e.kind)
  BY <1>1, DiscardsOrNot
<1> HIDE DEF t, n, e
<1>5. Splits(frames, n, frames', e)
  BY <1>2, <1>3 DEF Splits
<1>6. QED
  BY <1>3, <1>4, <1>5 DEF Returns

LEMMA ReturnInv ==
  ASSUME StreamsInv, Reckless = {}, Streams!Return
  PROVE  /\ Nested(fds', frames', backup_fd')
         /\ content' = written' /\ content' \in [Regular -> {"empty", "output"}]
<1>1. PICK n, e, t : Returns(n, e, t)
  BY ReturnKeeps
<1> DEFINE sv == e.saved
<1>2. /\ Nested(fds', frames', backup_fd')
      /\ \A s \in Streams!Std : sv[s] # 0 => fds'[s] \notin Regular
  BY <1>1, ReturnNested DEF StreamsInv, Returns
<1> HIDE DEF sv
<1>3. content' = content
  <2>1. content = [d \in Regular |-> content[d]]
    BY DEF StreamsInv
  <2>2. content' = Streams!Emptied(fds', sv, content)
    BY <1>1 DEF sv, Returns
  <2>3. QED
    BY <2>1, <2>2, <1>2, NoneEmptied
<1>4. QED
  BY <1>1, <1>2, <1>3 DEF StreamsInv, Returns

-----------------------------------------------------------------------------
(***************************************************************************)
(* The streams that are left when commands return.                         *)
(***************************************************************************)
LEMMA RestoredTable ==
  ASSUME NEW f \in FdTable, NEW sv \in [Streams!Std -> Slot]
  PROVE  Streams!Restored(f, sv) \in FdTable
<1>1. ASSUME NEW g \in FdTable, NEW s \in Streams!Std PROVE Streams!BackTo(g, sv, s) \in FdTable
  <2>1. CASE sv[s] = 0
    BY <2>1, <1>1 DEF Streams!BackTo
  <2>2. CASE sv[s] # 0
    <3>1. Streams!BackTo(g, sv, s) = [g EXCEPT ![s] = g[sv[s]], ![sv[s]] = "none"]
      BY <2>2 DEF Streams!BackTo
    <3>2. sv[s] \in Streams!Descriptors
      BY <2>2 DEF Slot
    <3>3. g[sv[s]] \in Files /\ "none" \in Files
      BY <3>2 DEF FdTable, Files
    <3>4. QED
      BY <3>1, <3>3 DEF FdTable
  <2>3. QED
    BY <2>1, <2>2
<1>2. Streams!BackTo(f, sv, 1) \in FdTable
  BY <1>1, Numbers
<1>3. QED
  BY <1>1, <1>2, Numbers DEF Streams!Restored

\* a[k] is what the descriptors f are when k of the commands fr have returned.
Unwound(f, fr, a, n) ==
  a = [k \in 0 .. n |-> IF k = 0 THEN f ELSE Streams!Restored(a[k - 1], fr[Len(fr) + 1 - k].saved)]

AfterOf(f, fr, n) ==
  LET t[k \in 0..(Len(fr) - n)] == IF k = 0 THEN f
                                   ELSE Streams!Restored(t[k - 1], fr[Len(fr) + 1 - k].saved)
  IN  t[Len(fr) - n]

LEMMA UnwoundRuns == ASSUME NEW f, NEW fr, NEW n \in Nat PROVE \E a : Unwound(f, fr, a, n)
<1> DEFINE Step(g, k) == Streams!Restored(g, fr[Len(fr) + 1 - k].saved)
           Runs(k) == \E a : a = [l \in 0 .. k |-> IF l = 0 THEN f ELSE Step(a[l - 1], l)]
           S == {k \in Nat : Runs(k)}
<1> HIDE DEF Step
<1>1. Runs(0)
  <2> DEFINE a == [l \in 0 .. 0 |-> f]
  <2>1. a = [l \in 0 .. 0 |-> IF l = 0 THEN f ELSE Step(a[l - 1], l)]
    OBVIOUS
  <2> HIDE DEF a
  <2>2. QED
    BY <2>1
<1>2. ASSUME NEW k \in Nat, Runs(k) PROVE Runs(k + 1)
  <2>1. PICK a : a = [l \in 0 .. k |-> IF l = 0 THEN f ELSE Step(a[l - 1], l)]
    BY <1>2
  <2> DEFINE y == Step(a[k], k + 1)
             b == [l \in 0 .. k + 1 |-> IF l = k + 1 THEN y ELSE a[l]]
  <2>2. \A l \in 0 .. k : b[l] = a[l]
    OBVIOUS
  <2>3. \A l \in 0 .. k + 1 : b[l] = IF l = 0 THEN f ELSE Step(b[l - 1], l)
    <3>1. TAKE l \in 0 .. k + 1
    <3>2. CASE l = k + 1
      <4>1. k \in 0 .. k /\ l - 1 = k /\ l # 0 /\ b[l] = y
        BY <3>2
      <4>2. b[l - 1] = a[k]
        BY <2>2, <4>1
      <4> HIDE DEF b
      <4>3. QED
        BY <3>2, <4>1, <4>2
    <3>3. CASE l = 0
      <4>1. l \in 0 .. k
        BY <3>3
      <4>2. b[l] = a[l] /\ a[l] = f
        BY <2>1, <2>2, <3>3, <4>1
      <4>3. QED
        BY <3>3, <4>2
    <3>4. CASE l # 0 /\ l # k + 1
      <4>1. l \in 0 .. k /\ l - 1 \in 0 .. k
        BY <3>4
      <4>2. b[l] = a[l] /\ b[l - 1] = a[l - 1]
        BY <2>2, <4>1
      <4> HIDE DEF b
      <4>3. a[l] = Step(a[l - 1], l)
        BY <2>1, <3>4, <4>1
      <4>4. QED
        BY <3>4, <4>2, <4>3
    <3>5. QED
      BY <3>2, <3>3, <3>4
  <2>4. b = [l \in 0 .. k + 1 |-> b[l]]
    OBVIOUS
  <2> HIDE DEF b
  <2>5. b = [l \in 0 .. k + 1 |-> IF l = 0 THEN f ELSE Step(b[l - 1], l)]
    BY <2>3, <2>4
  <2>6. QED
    BY <2>5
<1> HIDE DEF Runs
<1>3. S = Nat
  <2>1. S \in SUBSET Nat /\ 0 \in S
    BY <1>1
  <2>2. \A k \in Nat : k \in S => k + 1 \in S
    BY <1>2
  <2> HIDE DEF S
  <2>3. QED
    BY <2>1, <2>2, Induction
<1>4. Runs(n)
  BY <1>3
<1>5. QED
  BY <1>4 DEF Runs, Unwound, Step

LEMMA AfterOfIs ==
  ASSUME NEW f, NEW fr, NEW n, Len(fr) - n \in Nat
  PROVE  \E a : Unwound(f, fr, a, Len(fr) - n) /\ AfterOf(f, fr, n) = a[Len(fr) - n]
<1> DEFINE m == Len(fr) - n
           t == CHOOSE a : a = [k \in 0 .. m |-> IF k = 0 THEN f ELSE Streams!Restored(a[k - 1], fr[Len(fr) + 1 - k].saved)]
<1>1. AfterOf(f, fr, n) = t[m]
  BY DEF AfterOf
<1>2. \E a : Unwound(f, fr, a, m)
  BY UnwoundRuns
<1> HIDE DEF m
<1>3. Unwound(f, fr, t, m)
  BY <1>2 DEF Unwound
<1> HIDE DEF t
<1>4. QED
  BY <1>1, <1>3 DEF m

Adds(fr, e, fr2) == fr2 = Append(fr, e)

\* One command more: its streams go back first.
LEMMA AfterDeeper ==
  ASSUME NEW fr \in Seq(Frame), NEW e \in Frame, NEW fr2, Adds(fr, e, fr2),
         NEW g, NEW n \in 0 .. Len(fr)
  PROVE  AfterOf(g, fr2, n) = AfterOf(Streams!Restored(g, e.saved), fr, n)
<1> DEFINE m == Len(fr) - n
           f == Streams!Restored(g, e.saved)
<1>1. /\ fr2 \in Seq(Frame) /\ Len(fr2) = Len(fr) + 1 /\ fr2[Len(fr) + 1] = e
      /\ \A i \in 1 .. Len(fr) : fr2[i] = fr[i]
  BY AppendedIs DEF Adds
<1>2. Len(fr) \in Nat /\ m \in Nat /\ m = Len(fr) - n /\ Len(fr2) - n = m + 1 /\ m <= Len(fr)
      /\ m + 1 \in Nat
  BY <1>1
<1> HIDE DEF m
<1>3. PICK a : Unwound(f, fr, a, m) /\ AfterOf(f, fr, n) = a[m]
  BY <1>2, AfterOfIs
<1>4. PICK b : Unwound(g, fr2, b, m + 1) /\ AfterOf(g, fr2, n) = b[m + 1]
  BY <1>2, AfterOfIs
<1>5. a[0] = f /\ \A k \in 1 .. m : a[k] = Streams!Restored(a[k - 1], fr[Len(fr) + 1 - k].saved)
  <2> HIDE DEF f
  <2>1. a = [k \in 0 .. m |-> IF k = 0 THEN f ELSE Streams!Restored(a[k - 1], fr[Len(fr) + 1 - k].saved)]
    BY <1>3 DEF Unwound
  <2>2. 0 \in 0 .. m /\ \A k \in 1 .. m : k \in 0 .. m /\ k # 0
    BY <1>2
  <2>3. QED
    BY ONLY <2>1, <2>2
<1>6. b[0] = g /\ \A k \in 1 .. m + 1 : b[k] = Streams!Restored(b[k - 1], fr2[Len(fr2) + 1 - k].saved)
  <2>1. b = [k \in 0 .. m + 1 |-> IF k = 0 THEN g ELSE Streams!Restored(b[k - 1], fr2[Len(fr2) + 1 - k].saved)]
    BY <1>4 DEF Unwound
  <2>2. 0 \in 0 .. m + 1 /\ \A k \in 1 .. m + 1 : k \in 0 .. m + 1 /\ k # 0
    BY <1>2
  <2>3. QED
    BY ONLY <2>1, <2>2
<1> DEFINE S == {k \in Nat : k <= m => b[k + 1] = a[k]}
<1>7. S = Nat
  <2>1. 0 \in S
    <3>1. 1 \in 1 .. m + 1 /\ 1 - 1 = 0 /\ Len(fr2) + 1 - 1 = Len(fr) + 1 /\ 0 + 1 = 1
      BY <1>1, <1>2
    <3>2. b[1] = Streams!Restored(b[1 - 1], fr2[Len(fr2) + 1 - 1].saved)
      BY <1>6, <3>1
    <3>3. QED
      BY <3>1, <3>2, <1>1, <1>5, <1>6
  <2>2. ASSUME NEW k \in Nat, k \in S PROVE k + 1 \in S
    <3>1. SUFFICES ASSUME k + 1 <= m PROVE b[k + 2] = a[k + 1]
      OBVIOUS
    <3>2. b[k + 1] = a[k]
      BY <2>2, <3>1, <1>2
    <3>3. k + 1 \in 1 .. m /\ k + 2 \in 1 .. m + 1 /\ (k + 1) - 1 = k /\ (k + 2) - 1 = k + 1
          /\ Len(fr2) + 1 - (k + 2) = Len(fr) + 1 - (k + 1) /\ Len(fr) + 1 - (k + 1) \in 1 .. Len(fr)
      BY <1>1, <1>2, <3>1
    <3>4. b[k + 2] = Streams!Restored(b[k + 1], fr[Len(fr) + 1 - (k + 1)].saved)
      <4>1. b[k + 2] = Streams!Restored(b[(k + 2) - 1], fr2[Len(fr2) + 1 - (k + 2)].saved)
        BY <1>6, <3>3
      <4>2. QED
        BY <4>1, <3>3, <1>1
    <3>5. a[k + 1] = Streams!Restored(a[k], fr[Len(fr) + 1 - (k + 1)].saved)
      <4>1. a[k + 1] = Streams!Restored(a[(k + 1) - 1], fr[Len(fr) + 1 - (k + 1)].saved)
        BY <1>5, <3>3
      <4>2. QED
        BY <4>1, <3>3
    <3>6. QED
      BY <3>2, <3>4, <3>5
  <2>3. S \in SUBSET Nat
    OBVIOUS
  <2> HIDE DEF S
  <2>4. QED
    BY <2>1, <2>2, <2>3, Induction
<1>8. b[m + 1] = a[m]
  BY <1>7, <1>2
<1>9. QED
  BY <1>3, <1>4, <1>8

\* f and g agree on the streams of commands: on slots of fr, and on s unless a
\* command above the n first has saved it.
Agree(f, g, fr, n, s) ==
  /\ \A i \in 1 .. Len(fr), u \in Streams!Std : fr[i].saved[u] # 0 => f[fr[i].saved[u]] = g[fr[i].saved[u]]
  /\ f[s] = g[s] \/ \E i \in n + 1 .. Len(fr) : fr[i].saved[s] # 0

LEMMA AgreeRestored ==
  ASSUME NEW fr \in Seq(Frame), SlotsApart(fr), NEW n \in Nat, NEW m, n <= m,
         NEW f \in FdTable, NEW g \in FdTable, NEW s \in Streams!Std, Agree(f, g, fr, n, s),
         NEW e, NEW fr2, Splits(fr, m, fr2, e), NEW sv, sv = e.saved,
         NEW f2, f2 = Streams!Restored(f, sv), NEW g2, g2 = Streams!Restored(g, sv)
  PROVE  Agree(f2, g2, fr2, n, s)
<1>0. sv = fr[m + 1].saved /\ fr2 = SubSeq(fr, 1, m) /\ m \in Nat /\ Len(fr) = m + 1
  BY DEF Splits
<1>1. m + 1 \in 1 .. Len(fr) /\ sv \in [Streams!Std -> Slot]
  <2>1. m + 1 \in 1 .. Len(fr)
    BY <1>0
  <2>2. QED
    BY <1>0, <2>1, FrameIs
<1>2. sv[1] # 0 => sv[1] # sv[2]
  <2>1. ASSUME fr[m + 1].saved[1] # 0, fr[m + 1].saved[1] = fr[m + 1].saved[2] PROVE FALSE
    BY <1>1, <2>1, Numbers DEF SlotsApart
  <2>2. QED
    BY <1>0, <2>1
<1>3. /\ \A u \in Streams!Std : f2[u] = IF sv[u] = 0 THEN f[u] ELSE f[sv[u]]
      /\ \A d \in Streams!Descriptors \ Streams!Std :
            f2[d] = IF d = sv[1] \/ d = sv[2] THEN "none" ELSE f[d]
  BY <1>1, <1>2, RestoredIs
<1>4. /\ \A u \in Streams!Std : g2[u] = IF sv[u] = 0 THEN g[u] ELSE g[sv[u]]
      /\ \A d \in Streams!Descriptors \ Streams!Std :
            g2[d] = IF d = sv[1] \/ d = sv[2] THEN "none" ELSE g[d]
  BY <1>1, <1>2, RestoredIs
<1>5. fr2 \in Seq(Frame) /\ Len(fr2) = m /\ \A i \in 1 .. m : fr2[i] = fr[i]
  BY <1>0, FrontIs
<1>6. ASSUME NEW i \in 1 .. m, NEW u \in Streams!Std, fr2[i].saved[u] # 0
      PROVE  f2[fr2[i].saved[u]] = g2[fr2[i].saved[u]]
  <2> DEFINE d == fr[i].saved[u]
  <2>1. i \in 1 .. Len(fr)
    BY <1>0, <1>6
  <2>2. fr2[i].saved[u] = d /\ d \in Streams!Descriptors \ Streams!Std
    BY <1>5, <1>6, <2>1, FrameIs DEF Slot
  <2>3. f[d] = g[d]
    BY <1>5, <1>6, <2>1 DEF Agree
  <2> HIDE DEF d
  <2>4. f2[d] = g2[d]
    BY ONLY <1>3, <1>4, <2>2, <2>3
  <2>5. QED
    BY <2>2, <2>4
<1>7. f2[s] = g2[s] \/ \E i \in n + 1 .. m : fr2[i].saved[s] # 0
  <2>1. CASE sv[s] # 0
    <3>1. f[fr[m + 1].saved[s]] = g[fr[m + 1].saved[s]]
      BY <1>0, <2>1, <1>1 DEF Agree
    <3>2. f[sv[s]] = g[sv[s]]
      BY <1>0, <3>1
    <3>3. QED
      BY ONLY <1>3, <1>4, <2>1, <3>2, s \in Streams!Std
  <2>2. CASE sv[s] = 0 /\ f[s] = g[s]
    BY ONLY <1>3, <1>4, <2>2, s \in Streams!Std
  <2>3. CASE sv[s] = 0 /\ f[s] # g[s]
    <3>1. PICK i \in n + 1 .. m + 1 : fr[i].saved[s] # 0
      BY <1>0, <2>3 DEF Agree
    <3>2. i # m + 1
      BY <1>0, <2>3, <3>1
    <3>3. i \in n + 1 .. m /\ i \in 1 .. m
      BY <1>0, <3>1, <3>2
    <3>4. QED
      BY <3>1, <3>3, <1>5
  <2>4. QED
    BY <2>1, <2>2, <2>3
<1>8. QED
  BY <1>5, <1>6, <1>7 DEF Agree

LEMMA AfterBase ==
  ASSUME NEW f, NEW fr \in Seq(Frame) PROVE AfterOf(f, fr, Len(fr)) = f
<1>1. Len(fr) \in Nat /\ Len(fr) - Len(fr) = 0 /\ Len(fr) - Len(fr) \in Nat
  OBVIOUS
<1>2. PICK a : Unwound(f, fr, a, Len(fr) - Len(fr)) /\ AfterOf(f, fr, Len(fr)) = a[Len(fr) - Len(fr)]
  BY <1>1, AfterOfIs
<1>3. a = [k \in 0 .. 0 |-> IF k = 0 THEN f ELSE Streams!Restored(a[k - 1], fr[Len(fr) + 1 - k].saved)]
  BY <1>1, <1>2 DEF Unwound
<1>4. a[0] = f
  <2>1. 0 \in 0 .. 0
    OBVIOUS
  <2>2. QED
    BY ONLY <1>3, <2>1
<1>5. QED
  BY <1>1, <1>2, <1>4

LEMMA AfterFront ==
  ASSUME NEW fr \in Seq(Frame), NEW m, NEW fr2, NEW e, Splits(fr, m, fr2, e),
         NEW n \in 0 .. m, NEW f
  PROVE  AfterOf(f, fr, n) = AfterOf(Streams!Restored(f, e.saved), fr2, n)
<1>0. m \in Nat /\ Len(fr) = m + 1 /\ fr2 = SubSeq(fr, 1, m) /\ e = fr[m + 1]
  BY DEF Splits
<1>1. fr2 \in Seq(Frame) /\ Len(fr2) = m /\ \A i \in 1 .. m : fr2[i] = fr[i]
  BY <1>0, FrontIs
<1>2. m + 1 \in 1 .. Len(fr) /\ fr[m + 1] \in Frame
  BY <1>0, FrameIs
<1>3. fr = Append(fr2, e)
  <2>1. /\ Append(fr2, e) \in Seq(Frame) /\ Len(Append(fr2, e)) = m + 1
        /\ Append(fr2, e)[m + 1] = e /\ \A i \in 1 .. m : Append(fr2, e)[i] = fr2[i]
    BY <1>0, <1>1, <1>2, AppendedIs
  <2> DEFINE h == Append(fr2, e)
  <2> HIDE DEF h
  <2>2. h \in Seq(Frame) /\ Len(h) = m + 1 /\ \A i \in 1 .. m + 1 : h[i] = fr[i]
    <3>1. h \in Seq(Frame) /\ Len(h) = m + 1 /\ h[m + 1] = e /\ \A i \in 1 .. m : h[i] = fr2[i]
      BY <2>1 DEF h
    <3>2. ASSUME NEW i \in 1 .. m + 1 PROVE h[i] = fr[i]
      <4>1. CASE i \in 1 .. m
        BY <3>1, <4>1, <1>1
      <4>2. CASE i = m + 1
        BY <3>1, <4>2, <1>0
      <4>3. QED
        BY <4>1, <4>2, <1>0, OldOrNew
    <3>3. QED
      BY <3>1, <3>2
  <2>3. h = fr
    BY <2>2, <1>0, SeqEqual
  <2>4. QED
    BY <2>3 DEF h
<1>4. e \in Frame /\ n \in 0 .. Len(fr2) /\ Adds(fr2, e, fr)
  BY <1>0, <1>1, <1>2, <1>3 DEF Adds
<1>5. QED
  BY ONLY <1>1, <1>4, AfterDeeper

\* Tables that agree so are the same when all but n commands have returned.
LEMMA AfterAgree ==
  ASSUME NEW fr \in Seq(Frame), SlotsApart(fr), NEW f \in FdTable, NEW g \in FdTable,
         NEW s \in Streams!Std, NEW n \in 0 .. Len(fr), Agree(f, g, fr, n, s)
  PROVE  AfterOf(f, fr, n)[s] = AfterOf(g, fr, n)[s]
<1> DEFINE P(x, h, k) == SlotsApart(h) /\ Agree(x[1], x[2], h, n, s) /\ Len(h) = n + k
           Q(x, h) == AfterOf(x[1], h, n)[s] = AfterOf(x[2], h, n)[s]
           S == {k \in Nat : \A x \in FdTable \X FdTable : \A h \in Seq(Frame) : P(x, h, k) => Q(x, h)}
<1>0. n \in Nat
  OBVIOUS
<1>1. 0 \in S
  <2>1. ASSUME NEW x \in FdTable \X FdTable, NEW h \in Seq(Frame), P(x, h, 0) PROVE Q(x, h)
    <3>1. Len(h) = n
      BY <2>1
    <3>2. AfterOf(x[1], h, n) = x[1] /\ AfterOf(x[2], h, n) = x[2]
      BY <3>1, AfterBase
    <3>3. x[1][s] = x[2][s]
      BY <2>1, <3>1 DEF Agree
    <3>4. QED
      BY <3>2, <3>3
  <2> HIDE DEF P, Q
  <2>2. QED
    BY <2>1
<1>2. ASSUME NEW k \in Nat, k \in S PROVE k + 1 \in S
  <2>1. ASSUME NEW x \in FdTable \X FdTable, NEW h \in Seq(Frame), P(x, h, k + 1) PROVE Q(x, h)
    <3> DEFINE m == n + k
               e == h[m + 1]
               sv == e.saved
               f2 == Streams!Restored(x[1], sv)
               g2 == Streams!Restored(x[2], sv)
               h2 == SubSeq(h, 1, m)
    <3>1. SlotsApart(h) /\ Agree(x[1], x[2], h, n, s) /\ Len(h) = m + 1 /\ m \in Nat /\ n \in 0 .. m
          /\ n <= m /\ m + 1 \in 1 .. Len(h) /\ x[1] \in FdTable /\ x[2] \in FdTable
      BY <2>1, <1>0
    <3>2. m = n + k
      OBVIOUS
    <3> HIDE DEF m, P
    <3>3. h2 \in Seq(Frame) /\ Len(h2) = m /\ \A i \in 1 .. m : h2[i] = h[i]
      BY <3>1, FrontIs
    <3>0. Splits(h, m, h2, e)
      BY <3>1 DEF Splits
    <3>4. sv \in [Streams!Std -> Slot]
      BY <3>1, FrameIs
    <3>5. f2 \in FdTable /\ g2 \in FdTable
      <4> HIDE DEF sv
      <4>1. QED
        BY <3>1, <3>4, RestoredTable
    <3>6. Agree(f2, g2, h2, n, s)
      <4>1. /\ Splits(h, m, h2, e) /\ sv = e.saved /\ x[1] \in FdTable /\ x[2] \in FdTable
            /\ SlotsApart(h) /\ Agree(x[1], x[2], h, n, s) /\ n <= m /\ n \in Nat
            /\ f2 = Streams!Restored(x[1], sv) /\ g2 = Streams!Restored(x[2], sv)
        BY <3>0, <3>1, <1>0
      <4> DEFINE x1 == x[1]
                 x2 == x[2]
      <4> HIDE DEF x1, x2, e, sv, f2, g2, h2
      <4>2. QED
        BY <4>1, AgreeRestored
    <3>7. AfterOf(x[1], h, n) = AfterOf(f2, h2, n) /\ AfterOf(x[2], h, n) = AfterOf(g2, h2, n)
      <4>1. n \in 0 .. m /\ Splits(h, m, h2, e) /\ sv = e.saved
        BY <3>0, <3>1
      <4> HIDE DEF h2, e
      <4>2. QED
        BY <4>1, AfterFront
    <3> HIDE DEF f2, g2, h2, e
    <3>8. SlotsApart(h2)
      <4>1. \A i \in 1 .. m : i \in 1 .. Len(h)
        BY <3>1
      <4>2. QED
        BY <3>1, <3>3, <4>1 DEF SlotsApart
    <3>9. P(<<f2, g2>>, h2, k)
      BY <3>2, <3>3, <3>6, <3>8 DEF P
    <3> HIDE DEF Q
    <3>10. Q(<<f2, g2>>, h2)
      <4>1. <<f2, g2>> \in FdTable \X FdTable
        BY <3>5
      <4>2. QED
        BY <4>1, <3>3, <3>9, <1>2
    <3>11. AfterOf(f2, h2, n)[s] = AfterOf(g2, h2, n)[s]
      BY <3>10 DEF Q
    <3>12. QED
      BY <3>7, <3>11 DEF Q
  <2> HIDE DEF P, Q
  <2>2. QED
    BY <2>1
<1>3. S = Nat
  <2>1. S \in SUBSET Nat
    OBVIOUS
  <2> HIDE DEF S
  <2>2. QED
    BY <1>1, <1>2, <2>1, Induction
<1>4. PICK k \in Nat : Len(fr) = n + k
  <2>1. Len(fr) - n \in Nat /\ Len(fr) = n + (Len(fr) - n)
    OBVIOUS
  <2>2. QED
    BY <2>1
<1>5. P(<<f, g>>, fr, k)
  BY <1>4
<1> HIDE DEF P, Q
<1>6. Q(<<f, g>>, fr)
  <2>1. <<f, g>> \in FdTable \X FdTable /\ k \in S
    BY <1>3
  <2>2. QED
    BY <2>1, <1>5
<1>7. QED
  BY <1>6 DEF Q

-----------------------------------------------------------------------------
(***************************************************************************)
(* What a step does to the streams that are left later.                    *)
(***************************************************************************)
\* The streams are the same when only n commands are left.
Stays(f, fr, f2, fr2, n) == \A s \in Streams!Std : AfterOf(f2, fr2, n)[s] = AfterOf(f, fr, n)[s]

LEMMA AgreeStays ==
  ASSUME NEW fr \in Seq(Frame), SlotsApart(fr), NEW f \in FdTable, NEW g \in FdTable,
         \A s \in Streams!Std : f[s] = g[s],
         \A i \in 1 .. Len(fr), u \in Streams!Std : fr[i].saved[u] # 0 => f[fr[i].saved[u]] = g[fr[i].saved[u]],
         NEW n \in 0 .. Len(fr)
  PROVE  Stays(f, fr, g, fr, n)
<1>1. ASSUME NEW s \in Streams!Std PROVE AfterOf(f, fr, n)[s] = AfterOf(g, fr, n)[s]
  <2>1. Agree(f, g, fr, n, s)
    BY DEF Agree
  <2>2. QED
    BY <2>1, AfterAgree
<1>2. QED
  BY <1>1 DEF Stays

\* The streams of the command that begins are put back when it is done.
LEMMA BeganStays ==
  ASSUME NEW f, NEW fr, NEW bk, Nested(f, fr, bk), NEW g, NEW sv, Kept(f, g, sv, TRUE),
         NEW e, e \in Frame, e.saved = sv, NEW fr2, Adds(fr, e, fr2),
         NEW h \in FdTable, \A d \in Streams!Descriptors : g[d] # "none" => h[d] = g[d],
         NEW n \in 0 .. Len(fr)
  PROVE  Stays(f, fr, h, fr2, n)
<1>1. /\ fr \in Seq(Frame) /\ f \in FdTable /\ SlotsApart(fr) /\ g \in FdTable /\ Lit(g)
      /\ sv \in [Streams!Std -> Slot] /\ (sv[1] # 0 => sv[1] # sv[2])
  BY DEF Nested, Kept
<1> DEFINE r == Streams!Restored(h, sv)
<1>2. AfterOf(h, fr2, n) = AfterOf(r, fr, n)
  BY <1>1, AfterDeeper
<1>3. /\ \A u \in Streams!Std : r[u] = IF sv[u] = 0 THEN h[u] ELSE h[sv[u]]
      /\ \A d \in Streams!Descriptors \ Streams!Std :
            r[d] = IF d = sv[1] \/ d = sv[2] THEN "none" ELSE h[d]
  BY <1>1, RestoredIs
<1>4. r \in FdTable
  BY <1>1, RestoredTable
<1> HIDE DEF r
<1>5. ASSUME NEW s \in Streams!Std PROVE f[s] = r[s]
  <2>1. CASE sv[s] = 0
    <3>1. g[s] = f[s] /\ g[s] # "none" /\ s \in Streams!Descriptors
      BY <2>1, <1>1, Numbers DEF Kept, Lit
    <3>2. QED
      BY <3>1, <2>1, <1>3
  <2>2. CASE sv[s] # 0
    <3>1. g[sv[s]] = f[s] /\ sv[s] \in Streams!Descriptors
      BY <2>2, <1>1 DEF Kept, Slot
    <3>2. f[s] # "none"
      BY DEF Nested, Lit
    <3>3. QED
      BY <3>1, <3>2, <2>2, <1>3
  <2>3. QED
    BY <2>1, <2>2
<1>6. ASSUME NEW i \in 1 .. Len(fr), NEW u \in Streams!Std, fr[i].saved[u] # 0
      PROVE  f[fr[i].saved[u]] = r[fr[i].saved[u]]
  <2> DEFINE d == fr[i].saved[u]
  <2>1. d \in Streams!Descriptors \ Streams!Std
    BY <1>1, <1>6, FrameIs DEF Slot
  <2>2. f[d] # "none"
    BY <1>6 DEF Nested, SlotsHeld
  <2> HIDE DEF d
  <2>3. \A s \in Streams!Std : d # sv[s]
    BY <2>1, <2>2, Numbers DEF Kept
  <2>4. g[d] = f[d]
    BY <2>1, <2>3 DEF Kept
  <2>5. r[d] = h[d] /\ h[d] = g[d]
    BY <2>1, <2>2, <2>3, <2>4, <1>3, Numbers
  <2>6. QED
    BY <2>4, <2>5 DEF d
<1>7. Stays(f, fr, r, fr, n)
  BY <1>1, <1>4, <1>5, <1>6, AgreeStays
<1>8. QED
  BY <1>2, <1>7 DEF Stays

\* The command that returns puts its streams back now.
LEMMA EndedStays ==
  ASSUME NEW f, NEW fr, NEW bk, Nested(f, fr, bk), NEW m, NEW fr2, NEW e, Splits(fr, m, fr2, e),
         NEW t, Discards(f, bk, t, e.kind),
         NEW sv, sv = e.saved, NEW g, g = Streams!Restored(t, sv), NEW n \in 0 .. m
  PROVE  Stays(f, fr, g, fr2, n)
<1> DEFINE r == Streams!Restored(f, sv)
           bk2 == Backup(bk, e)
<1>0. m \in Nat /\ Len(fr) = m + 1 /\ fr2 = SubSeq(fr, 1, m) /\ e = fr[m + 1]
  BY DEF Splits
<1>1. /\ Nested(g, fr2, bk2)
      /\ \A s \in Streams!Std : g[s] = IF sv[s] = 0 THEN f[s] ELSE f[sv[s]]
      /\ \A i \in 1 .. m, s \in Streams!Std :
            fr[i].saved[s] # 0 => g[fr[i].saved[s]] = f[fr[i].saved[s]]
  <2>1. bk2 = Backup(bk, e)
    OBVIOUS
  <2> HIDE DEF bk2
  <2>2. QED
    BY <2>1, ReturnNested
<1>2. fr \in Seq(Frame) /\ f \in FdTable /\ m + 1 \in 1 .. Len(fr)
  BY <1>0 DEF Nested
<1>3. /\ fr2 \in Seq(Frame) /\ Len(fr2) = m
      /\ \A i \in 1 .. m : fr2[i] = fr[i] /\ i \in 1 .. Len(fr) /\ i # m + 1
  <2>1. \A i \in 1 .. m : i \in 1 .. Len(fr) /\ i # m + 1
    BY <1>0
  <2>2. fr2 \in Seq(Frame) /\ Len(fr2) = m /\ \A i \in 1 .. m : fr2[i] = fr[i]
    BY <1>0, <1>2, FrontIs
  <2>3. QED
    BY <2>1, <2>2
<1>4. sv \in [Streams!Std -> Slot] /\ sv = fr[m + 1].saved
  BY <1>0, <1>2, FrameIs
<1>5. sv[1] # 0 => sv[1] # sv[2]
  <2>1. ASSUME fr[m + 1].saved[1] # 0, fr[m + 1].saved[1] = fr[m + 1].saved[2] PROVE FALSE
    BY <1>2, <2>1, Numbers DEF Nested, SlotsApart
  <2>2. QED
    BY <1>4, <2>1
<1>6. AfterOf(f, fr, n) = AfterOf(r, fr2, n)
  BY <1>2, AfterFront
<1>7. /\ \A u \in Streams!Std : r[u] = IF sv[u] = 0 THEN f[u] ELSE f[sv[u]]
      /\ \A d \in Streams!Descriptors \ Streams!Std :
            r[d] = IF d = sv[1] \/ d = sv[2] THEN "none" ELSE f[d]
  BY <1>2, <1>4, <1>5, RestoredIs
<1>8. r \in FdTable
  BY <1>2, <1>4, RestoredTable
<1> HIDE DEF r, bk2
<1>9. \A s \in Streams!Std : r[s] = g[s]
  BY <1>1, <1>7
<1>10. ASSUME NEW i \in 1 .. Len(fr2), NEW u \in Streams!Std, fr2[i].saved[u] # 0
       PROVE  r[fr2[i].saved[u]] = g[fr2[i].saved[u]]
  <2> DEFINE d == fr[i].saved[u]
  <2>0. i \in 1 .. m
    BY <1>3
  <2>1. fr2[i].saved[u] = d /\ i \in 1 .. Len(fr) /\ i # m + 1 /\ d # 0
    BY <1>3, <1>10, <2>0
  <2>2. d \in Streams!Descriptors \ Streams!Std
    BY <1>2, <2>1, FrameIs DEF Slot
  <2>3. \A s \in Streams!Std : d # fr[m + 1].saved[s]
    BY <1>2, <2>1 DEF Nested, SlotsApart
  <2>4. g[d] = f[d]
    BY <1>1, <2>0, <2>1
  <2> HIDE DEF d
  <2>5. r[d] = f[d]
    BY <2>2, <2>3, <1>4, <1>7, Numbers
  <2>6. QED
    BY <2>1, <2>4, <2>5
<1>11. SlotsApart(fr2) /\ g \in FdTable /\ n \in 0 .. Len(fr2)
  BY <1>1, <1>3 DEF Nested
<1>12. Stays(r, fr2, g, fr2, n)
  BY <1>3, <1>8, <1>9, <1>10, <1>11, AgreeStays
<1>13. QED
  BY <1>6, <1>12 DEF Stays

LEMMA StreamsStart == ASSUME Streams!Init PROVE StreamsInv
<1>1. Nested(fds, frames, backup_fd)
  BY StartsNested
<1>2. content = [f \in Regular |-> "empty"] /\ written = content /\ execs = 0
  BY DEF Streams!Init
<1>3. QED
  BY <1>1, <1>2 DEF StreamsInv

LEMMA StreamsSteps ==
  ASSUME StreamsInv, Reckless = {}, [Streams!Next]_(Streams!vars) PROVE StreamsInv'
<1>1. ASSUME NEW l \in Streams!Lists,
             Streams!Builtin(l) \/ Streams!External(l) \/ Streams!Exec(l)
               \/ Streams!Compound(l) \/ Streams!Function(l) \/ Streams!Eval(l)
      PROVE  StreamsInv'
  <2>1. execs' = execs \/ execs' = execs + 1
    <3>0. ASSUME NEW kind, NEW st, NEW backup, Streams!Entered(kind, st, backup) PROVE execs' = execs
      BY <3>0 DEF Streams!Entered
    <3>1. CASE Streams!Builtin(l)
      BY <3>1 DEF Streams!Builtin
    <3>2. CASE Streams!External(l)
      BY <3>2 DEF Streams!External
    <3>3. CASE Streams!Exec(l)
      BY <3>3 DEF Streams!Exec
    <3>4. CASE Streams!Compound(l)
      BY <3>0, <3>4 DEF Streams!Compound
    <3>5. CASE Streams!Function(l)
      BY <3>0, <3>5 DEF Streams!Function
    <3>6. CASE Streams!Eval(l)
      BY <3>0, <3>6 DEF Streams!Eval
    <3>7. QED
      BY <1>1, <3>1, <3>2, <3>3, <3>4, <3>5, <3>6
  <2>2. /\ Nested(fds', frames', backup_fd')
        /\ content' = written' /\ content' \in [Regular -> {"empty", "output"}]
    <3>1. CASE Streams!Builtin(l)
      BY <3>1, BuiltinKeeps
    <3>2. CASE Streams!External(l)
      BY <3>2, ExternalKeeps
    <3>3. CASE Streams!Exec(l)
      BY <3>3, ExecKeeps
    <3>4. CASE Streams!Compound(l)
      BY <3>4, CompoundKeeps
    <3>5. CASE Streams!Function(l)
      BY <3>5, FunctionKeeps
    <3>6. CASE Streams!Eval(l)
      BY <3>6, EvalKeeps
    <3>7. QED
      BY <1>1, <3>1, <3>2, <3>3, <3>4, <3>5, <3>6
  <2>3. QED
    <3>1. execs' \in Nat
      BY <2>1 DEF StreamsInv
    <3>2. QED
      BY <2>2, <3>1 DEF StreamsInv
<1>2. ASSUME Streams!Return PROVE StreamsInv'
  <2>1. execs' \in Nat
    BY <1>2 DEF StreamsInv, Streams!Return
  <2>2. QED
    BY <1>2, <2>1, ReturnInv DEF StreamsInv
<1>3. ASSUME UNCHANGED Streams!vars PROVE StreamsInv'
  BY <1>3 DEF Streams!vars, StreamsInv
<1>4. QED
  BY <1>1, <1>2, <1>3 DEF Streams!Next

\* Every command but exec leaves the streams as they were for the n commands around it.
LEMMA LeavesStreams ==
  ASSUME StreamsInv, Reckless = {}, [Streams!Next]_(Streams!vars),
         \A l \in Streams!Lists : ~Streams!Exec(l), NEW n \in 0 .. Streams!Returns
  PROVE  Stays(fds, frames, fds', frames', n)
<1>1. /\ frames \in Seq(Frame) /\ Len(frames) \in Nat /\ Nested(fds, frames, backup_fd)
      /\ fds \in FdTable
  BY DEF StreamsInv, Nested
<1>2. ASSUME fds' = fds, frames' = frames PROVE Stays(fds, frames, fds', frames', n)
  BY <1>2 DEF Stays
<1>3. ASSUME NEW kind \in {"compound", "function", "eval"}, Nested(fds', frames', backup_fd'),
             \E g, sv : /\ frames' = Append(frames, [kind |-> kind, saved |-> sv])
                        /\ Kept(fds, g, sv, TRUE)
                        /\ \A d \in Streams!Descriptors : g[d] # "none" => fds'[d] = g[d]
      PROVE  Stays(fds, frames, fds', frames', n)
  <2>1. PICK g, sv : /\ frames' = Append(frames, [kind |-> kind, saved |-> sv])
                     /\ Kept(fds, g, sv, TRUE)
                     /\ \A d \in Streams!Descriptors : g[d] # "none" => fds'[d] = g[d]
    BY <1>3
  <2> DEFINE e == [kind |-> kind, saved |-> sv]
  <2>2. e \in Frame /\ e.saved = sv
    BY <2>1 DEF Frame, Kept
  <2> HIDE DEF e
  <2>3. Adds(frames, e, frames')
    BY <2>1 DEF Adds, e
  <2>4. Len(frames') = Len(frames) + 1
    BY <1>1, <2>2, <2>3, AppendedIs DEF Adds
  <2>5. n \in 0 .. Len(frames)
    BY <1>1, <2>4 DEF Streams!Returns
  <2>6. fds' \in FdTable
    BY <1>3 DEF Nested
  <2>7. QED
    BY <1>1, <2>1, <2>2, <2>3, <2>5, <2>6, BeganStays
<1>4. ASSUME NEW l \in Streams!Lists,
             Streams!Builtin(l) \/ Streams!External(l) \/ Streams!Compound(l)
               \/ Streams!Function(l) \/ Streams!Eval(l)
      PROVE  Stays(fds, frames, fds', frames', n)
  <2>1. CASE Streams!Builtin(l)
    BY <2>1, <1>2, BuiltinKeeps
  <2>2. CASE Streams!External(l)
    <3>1. fds' = fds /\ frames' = frames
      BY <2>2, ExternalKeeps
    <3>2. QED
      BY <3>1, <1>2
  <2>3. CASE Streams!Compound(l)
    <3>1. Nested(fds', frames', backup_fd')
      BY <2>3, CompoundKeeps
    <3>2. PICK sv : /\ frames' = Append(frames, [kind |-> "compound", saved |-> sv])
                    /\ Kept(fds, fds', sv, TRUE)
      BY <2>3, CompoundKeeps
    <3>3. \A d \in Streams!Descriptors : fds'[d] # "none" => fds'[d] = fds'[d]
      OBVIOUS
    <3>4. QED
      BY <3>1, <3>2, <3>3, <1>3
  <2>4. CASE Streams!Function(l)
    <3>1. Nested(fds', frames', backup_fd')
      BY <2>4, FunctionKeeps
    <3>2. PICK sv : /\ frames' = Append(frames, [kind |-> "function", saved |-> sv])
                    /\ Kept(fds, fds', sv, TRUE)
      BY <2>4, FunctionKeeps
    <3>3. \A d \in Streams!Descriptors : fds'[d] # "none" => fds'[d] = fds'[d]
      OBVIOUS
    <3>4. QED
      BY <3>1, <3>2, <3>3, <1>3
  <2>5. CASE Streams!Eval(l)
    BY <2>5, <1>3, EvalKeeps
  <2>6. QED
    BY <1>4, <2>1, <2>2, <2>3, <2>4, <2>5
<1>5. ASSUME Streams!Return PROVE Stays(fds, frames, fds', frames', n)
  <2>1. PICK m, e, t : Returns(m, e, t)
    BY <1>5, ReturnKeeps
  <2>2. Splits(frames, m, frames', e) /\ Discards(fds, backup_fd, t, e.kind)
        /\ fds' = Streams!Restored(t, e.saved)
    BY <2>1 DEF Returns
  <2>3. m \in Nat /\ Len(frames) = m + 1 /\ frames' = SubSeq(frames, 1, m)
    BY <2>2 DEF Splits
  <2>4. Len(frames') = m
    BY <1>1, <2>3, FrontIs
  <2>5. n \in 0 .. m
    BY <2>3, <2>4 DEF Streams!Returns
  <2>6. QED
    BY <1>1, <2>2, <2>5, EndedStays
<1>6. CASE UNCHANGED Streams!vars
  BY <1>2, <1>6 DEF Streams!vars
<1>7. QED
  BY <1>4, <1>5, <1>6 DEF Streams!Next

\* exec changes them, but not those that a command around it has redirected.
LEMMA ExecLeaves ==
  ASSUME StreamsInv, Reckless = {}, NEW l \in Streams!Lists, Streams!Exec(l),
         NEW n \in 0 .. Len(frames), NEW s \in Streams!Std
  PROVE  \/ AfterOf(fds', frames', n)[s] = AfterOf(fds, frames, n)[s]
         \/ execs' > execs /\ \A i \in n + 1 .. Len(frames) : frames[i].saved[s] = 0
<1>1. execs' > execs
  BY DEF Streams!Exec, StreamsInv
<1>2. CASE \A i \in n + 1 .. Len(frames) : frames[i].saved[s] = 0
  BY <1>1, <1>2
<1>3. CASE \E i \in n + 1 .. Len(frames) : frames[i].saved[s] # 0
  <2>1. /\ frames \in Seq(Frame) /\ SlotsApart(frames) /\ fds \in FdTable
    BY DEF StreamsInv, Nested
  <2>2. fds' \in FdTable /\ frames' = frames
        /\ \A d \in Streams!Descriptors \ Streams!Std : fds[d] = fds'[d]
    BY ExecKeeps
  <2>3. ASSUME NEW i \in 1 .. Len(frames), NEW u \in Streams!Std, frames[i].saved[u] # 0
        PROVE  fds[frames[i].saved[u]] = fds'[frames[i].saved[u]]
    <3>1. frames[i].saved[u] \in Streams!Descriptors \ Streams!Std
      BY <2>1, <2>3, FrameIs DEF Slot
    <3>2. QED
      BY <2>2, <3>1
  <2>4. Agree(fds, fds', frames, n, s)
    BY <1>3, <2>3 DEF Agree
  <2>5. AfterOf(fds, frames, n)[s] = AfterOf(fds', frames, n)[s]
    BY <2>1, <2>2, <2>4, AfterAgree
  <2>6. QED
    BY <2>2, <2>5
<1>4. QED
  BY <1>2, <1>3

LEMMA StreamsStepsReturn ==
  ASSUME StreamsInv, Reckless = {}, [Streams!Next]_(Streams!vars) PROVE Streams!StepReturnsStreams
<1>1. ASSUME NEW n \in 0 .. Streams!Returns, NEW s \in Streams!Std
      PROVE  \/ AfterOf(fds', frames', n)[s] = AfterOf(fds, frames, n)[s]
             \/ execs' > execs /\ \A i \in (n+1)..Len(frames) : frames[i].saved[s] = 0
  <2>1. CASE \A l \in Streams!Lists : ~Streams!Exec(l)
    BY <1>1, <2>1, LeavesStreams DEF Stays
  <2>2. CASE \E l \in Streams!Lists : Streams!Exec(l)
    <3>1. PICK l \in Streams!Lists : Streams!Exec(l)
      BY <2>2
    <3>2. frames' = frames
      BY <3>1, ExecKeeps
    <3>3. n \in 0 .. Len(frames)
      BY <1>1, <3>2 DEF Streams!Returns
    <3>4. QED
      BY <3>1, <3>3, ExecLeaves
  <2>3. QED
    BY <2>1, <2>2
<1>2. ASSUME NEW n PROVE Streams!After(n) = AfterOf(fds, frames, n) /\ Streams!After(n)' = AfterOf(fds', frames', n)
  BY DEF Streams!After, AfterOf
<1>3. QED
  BY <1>1, <1>2 DEF Streams!StepReturnsStreams

\* What ShellState's steps are in the part of the streams.
LEMMA StreamsStep ==
  ASSUME [Next]_vars, part' = "streams" \/ part = "streams"
  PROVE  part = "streams" /\ part' = "streams" /\ [Streams!Next]_(Streams!vars)
<1>1. part = "streams" /\ part' = "streams"
  BY DEF Next, vars
<1>2. UNCHANGED vars => UNCHANGED Streams!vars
  BY DEF vars, streams, Streams!vars
<1>3. Next => Streams!Next
  BY <1>1 DEF Next
<1>4. QED
  BY <1>1, <1>2, <1>3

LEMMA StreamsCount == \A S : Streams!Cardinality(S) = Cardinality(S)
  BY DEF Streams!Cardinality, Cardinality

LEMMA PairIsTwo ==
  ASSUME NEW a, NEW b, a # b PROVE Cardinality({a, b}) = 2 /\ IsFiniteSet({a, b})
<1>1. Cardinality({a}) = 1 /\ IsFiniteSet({a})
  BY FS_Singleton
<1>2. Cardinality({a} \cup {b}) = 2 /\ IsFiniteSet({a} \cup {b})
  BY <1>1, FS_AddElement
<1>3. {a} \cup {b} = {a, b}
  OBVIOUS
<1>4. QED
  BY <1>2, <1>3

\* The streams are a part of the shell's state like the others.
InStreams == part = "streams" => StreamsInv

LEMMA StreamsSafe == ASSUME Reckless = {} PROVE Spec => []InStreams
<1>1. Init => InStreams
  BY StreamsStart DEF Init, InStreams
<1>2. InStreams /\ [Next]_vars => InStreams'
  BY StreamsStep, StreamsSteps DEF InStreams
<1>3. QED
  BY <1>1, <1>2, PTL DEF Spec

(* Whatever the commands did with their descriptors, at most the two duplicates *)
(* of an eval's caller stay open without anybody knowing them: save_std() and   *)
(* restore_stds(), the here-documents and the opened files close all others     *)
(* (backend/redirect.c:62, 75, 233, 522).                                       *)
THEOREM OnlyBackupsLost == ASSUME Reckless = {} PROVE Spec => []FewLost
<1>1. InStreams => FewLost
  <2> SUFFICES ASSUME StreamsInv PROVE Streams!FewLost
    BY DEF InStreams, FewLost
  <2>1. AllKnown(fds, frames, backup_fd) /\ frames \in Seq(Frame)
    BY DEF StreamsInv, Nested
  <2>2. DOMAIN frames = 1 .. Len(frames)
    BY <2>1
  <2>3. Streams!Lost \subseteq {3, 4}
    BY <2>1, <2>2 DEF Streams!Lost, AllKnown, Streams!Std
  <2>4. Cardinality({3, 4}) = 2 /\ Cardinality(Streams!Std) = 2 /\ IsFiniteSet({3, 4})
    <3>1. 3 # 4 /\ 1 # 2
      OBVIOUS
    <3>2. Cardinality({3, 4}) = 2 /\ IsFiniteSet({3, 4})
      BY <3>1, PairIsTwo
    <3>3. Cardinality({1, 2}) = 2
      BY <3>1, PairIsTwo
    <3>4. QED
      BY <3>2, <3>3 DEF Streams!Std
  <2>5. Cardinality(Streams!Lost) \in Nat /\ Cardinality(Streams!Lost) <= Cardinality({3, 4})
    BY <2>3, <2>4, FS_Subset, FS_CardinalityType
  <2>6. Cardinality(Streams!Lost) <= Cardinality(Streams!Std)
    BY <2>4, <2>5
  <2>7. QED
    BY <2>6, StreamsCount DEF Streams!FewLost
<1>2. QED
  BY <1>1, StreamsSafe, PTL

(* What a command wrote to a file is in it until the file is opened again:      *)
(* restore_stds() empties only files that a stream was before the command, and  *)
(* no command has such a stream saved (backend/redirect.c:75).                  *)
THEOREM OutputStays == ASSUME Reckless = {} PROVE Spec => []OutputKept
<1>1. InStreams => OutputKept
  BY DEF InStreams, OutputKept, Streams!OutputKept, StreamsInv
<1>2. QED
  BY <1>1, StreamsSafe, PTL

(* redirect_prep() and redirect_do() give a builtin the streams that its        *)
(* redirections ask for one after the other, although they are carried out by   *)
(* descriptor, with the saved streams between them, or they fail                *)
(* (backend/redirect.c:216, 233, 522).                                          *)
THEOREM BuiltinsGetTheirStreams == ASSUME Reckless = {} PROVE Spec => []AllOrNothing
<1>1. InStreams => AllOrNothing
  <2> SUFFICES ASSUME StreamsInv, NEW l \in Streams!Lists, Streams!Careful(l, "builtin"),
                      Streams!SimpleList(l, TRUE).ok, NEW s \in Streams!Std
               PROVE  Streams!SimpleList(l, TRUE).fds[s] = Streams!Meant(l)[s]
    BY DEF InStreams, AllOrNothing, Streams!AllOrNothing
  <2>1. Ready
    BY ReadyIs
  <2>2. ListDone(l, Streams!SimpleList(l, TRUE), TRUE)
    BY <2>1, SimpleIs
  <2>3. QED
    BY <2>2 DEF ListDone
<1>2. QED
  BY <1>1, StreamsSafe, PTL

(* No command changes the streams that those around it will have when it is     *)
(* done; only exec does, and not those that one of them has redirected          *)
(* (backend/redirect.c:62, 75, 709).                                            *)
THEOREM StreamsComeBack == ASSUME Reckless = {} PROVE Spec => StreamsReturn
<1>1. InStreams /\ [Next]_vars => (part = "streams" => Streams!StepReturnsStreams)
  <2> SUFFICES ASSUME StreamsInv, [Next]_vars, part = "streams" PROVE Streams!StepReturnsStreams
    BY DEF InStreams
  <2>1. [Streams!Next]_(Streams!vars)
    BY StreamsStep DEF vars
  <2>2. QED
    BY <2>1, StreamsStepsReturn
<1>2. QED
  BY <1>1, StreamsSafe, PTL DEF Spec, StreamsReturn
=============================================================================
