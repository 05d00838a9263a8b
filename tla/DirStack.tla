----------------------------- MODULE DirStack -----------------------------
(***************************************************************************)
(* The directory stack (builtins/dirstack.c): a doubly linked list whose   *)
(* top is the current directory, its length in stack_count, and the        *)
(* builtins that push, pop, exchange, rotate and extract its entries.      *)
(***************************************************************************)
EXTENDS Integers, Sequences, FiniteSetsExt, SequencesExt

CONSTANTS
    Dirs,
    Rash,       \* what users do that goes wrong, see Rashness
    MaxNodes    \* bound: entries allocated at a time

Rashness ==
    {"stalePrev", \* pushd, dunique, dextract or the saving of the list, where some prev is wrong
     "dunique",   \* pushd, with dunique set, of the directory at the top
     "saveDirs",  \* a login shell loads what the one before it has saved
     "noCd",      \* -n, where it changes the top
     "rmdir"}     \* a directory on the stack is removed

Node == 1..MaxNodes
NULL == 0

VARIABLES
    list,   \* [path, next, prev : functions of Node, top, count]; path is "" where free
    cwd

vars == <<list, cwd>>

\* The nodes from n on, by next or by prev, and the NULL at the end, if there is one.
Follow(link, n) ==
    LET walk[ns \in Seq(Node)] ==
            LET m == link[Last(ns)]
            IN  IF m = NULL \/ Len(ns) > MaxNodes THEN Append(ns, m) ELSE walk[Append(ns, m)]
    IN  IF n = NULL THEN <<NULL>> ELSE walk[<<n>>]
Nodes(s) == Front(Follow(s.next, s.top))
Paths(s) == LET ns == Nodes(s) IN [k \in DOMAIN ns |-> s.path[ns[k]]]

Mirrored(s) == LET ns == Nodes(s)
               IN  \A k \in DOMAIN ns : s.prev[ns[k]] = IF k = 1 THEN NULL ELSE ns[k-1]
MayUsePrev == "stalePrev" \in Rash \/ Mirrored(list)

Nowhere == [path |-> [n \in Node |-> ""], next |-> [n \in Node |-> NULL],
            prev |-> [n \in Node |-> NULL], top |-> NULL, count |-> 0]

FreeNodes(s) == {n \in Node : s.path[n] = ""}

\* push_dir() at the top, or in front of what follows the top.
Push(s, d, second) ==
    LET n    == Min(FreeNodes(s))
        old  == IF second THEN s.next[s.top] ELSE s.top
        prev == IF old = NULL THEN NULL ELSE s.prev[old]
        next == IF prev = NULL THEN s.next ELSE [s.next EXCEPT ![prev] = n]
    IN  [path |-> [s.path EXCEPT ![n] = d],
         next |-> [(IF second THEN [next EXCEPT ![s.top] = n] ELSE next) EXCEPT ![n] = old],
         prev |-> [m \in Node |-> IF m = n THEN prev ELSE IF m = old THEN n ELSE s.prev[m]],
         top |-> IF second THEN s.top ELSE n,
         count |-> s.count + 1]

Freed(s, n) == [s EXCEPT !.path[n] = "", !.next[n] = NULL, !.prev[n] = NULL, !.count = @ - 1]

FromPaths(ps) == FoldRight(LAMBDA d, s : Push(s, d, FALSE), ps, Nowhere)

Init == \E d \in Dirs : list = Push(Nowhere, d, FALSE) /\ cwd = d

\* The stack becomes s, and unless -n is given do_cd() goes to its top, if that is
\* still there.
Goes(s, cd) ==
    LET d == s.path[s.top]
    IN  /\ "noCd" \in Rash \/ cd \/ d = cwd
        /\ list' = s
        /\ cwd' \in (IF cd THEN {d} ELSE {cwd}) \cup (IF "rmdir" \in Rash THEN {cwd} ELSE {})
-----------------------------------------------------------------------------
\* cd dir, cd -, and pushd dir.
Cd(d) ==
    /\ FreeNodes(list) # {} /\ MayUsePrev
    /\ list' = Push(list, d, FALSE) /\ cwd' = d

\* pushd dir where dunique is set: the removal of the top forgets the rest.
Unlink(s, n) ==
    LET before == s.prev[n]
        after  == s.next[n]
        next   == IF before = NULL THEN s.next ELSE [s.next EXCEPT ![before] = after]
        prev   == IF after = NULL THEN s.prev ELSE [s.prev EXCEPT ![after] = before]
    IN  [s EXCEPT !.next = next, !.prev = prev]

Unique(s, d) ==
    LET gone == SelectSeq(Nodes(s), LAMBDA n : s.path[n] = d)
    IN  FoldLeft(LAMBDA t, n : [Freed(Unlink(t, n), n) EXCEPT !.top = IF @ = n THEN NULL ELSE @], s, gone)

PushdUnique(d) ==
    LET s == Unique(list, d)
    IN  /\ FreeNodes(s) # {} /\ MayUsePrev
        /\ "dunique" \in Rash \/ list.path[list.top] # d
        /\ list' = Push(s, d, FALSE) /\ cwd' = d

\* pushd -n dir: the second entry, if there is one.
PushdN(d) ==
    /\ FreeNodes(list) # {} /\ MayUsePrev
    /\ list.next[list.top] # NULL \/ "noCd" \in Rash
    /\ list' = Push(list, d, list.next[list.top] # NULL)
    /\ UNCHANGED cwd

\* pushd: the third entry keeps its prev.
Exchanged ==
    LET a == list.top
        b == list.next[a]
    IN  [list EXCEPT !.top = b, !.next[a] = list.next[b], !.prev[a] = b, !.next[b] = a, !.prev[b] = NULL]
Exchange(cd) == list.count >= 2 /\ Goes(Exchanged, cd)

RotatedLinked(k) == [list EXCEPT !.top = Nodes(list)[k+1],
                                 !.next = [@ EXCEPT ![Last(Nodes(list))] = list.top]]

\* pushd +k: no prev changes.
Rotated(k) ==
    LET ns == Nodes(list)
    IN  [list EXCEPT !.top = ns[k+1],
                     !.next = [@ EXCEPT ![Last(ns)] = list.top, ![ns[k]] = NULL]]
Rotate(k, cd) == k \in 1..Len(Nodes(list))-1 /\ Goes(Rotated(k), cd)

\* pushd +k where dextract is set.
Extracted(k) ==
    LET n == Nodes(list)[k+1]
    IN  [Unlink(list, n) EXCEPT !.prev[n] = NULL, !.next[n] = list.top, !.top = n]
Extract(k, cd) == k \in 1..Len(Nodes(list))-1 /\ MayUsePrev /\ Goes(Extracted(k), cd)

\* popd
Popped == LET top == list.next[list.top]
          IN  [Freed(list, list.top) EXCEPT !.top = top, !.prev[top] = NULL]
Popd(cd) == list.count >= 2 /\ Goes(Popped, cd)

\* popd +k: the entry after it keeps its prev.
PoppedAt(k) ==
    LET n == Nodes(list)[k+1]
        s == Freed(list, n)
    IN  IF k = 0 THEN [s EXCEPT !.top = list.next[n]]
        ELSE [s EXCEPT !.next[Nodes(list)[k]] = list.next[n]]
PopdAt(k, cd) == list.count >= 2 /\ k \in 0..Len(Nodes(list))-1 /\ Goes(PoppedAt(k), cd)

\* dirs -c
DirsClear ==
    /\ list' = [Nowhere EXCEPT !.path[list.top] = list.path[list.top], !.top = list.top,
                               !.prev[list.top] = list.prev[list.top], !.count = 1]
    /\ UNCHANGED cwd

\* DIRSTACK=...: the list in the order given; the final cd pushes the top again
\* where the last cd was to another directory.
AssignDirstack(ps) ==
    /\ list' = IF Last(ps) = Head(ps) THEN FromPaths(ps) ELSE Push(FromPaths(ps), Head(ps), FALSE)
    /\ cwd' = Head(ps)

\* save_dirstack() writes the entries from the last to the first, by prev.
Saved == LET ns == Front(Follow(list.prev, Last(Nodes(list))))
         IN  [k \in DOMAIN ns |-> list.path[ns[k]]]

\* exit, and the next shell: load_dirstack() counts each entry twice.
Restart(d, login) ==
    /\ MayUsePrev
    /\ IF login
       THEN /\ "saveDirs" \in Rash
            /\ list' = LET s == FromPaths(Reverse(Saved)) IN [s EXCEPT !.count = 2 * @]
            /\ cwd' = Last(Saved)
       ELSE /\ list' = Push(Nowhere, d, FALSE) /\ cwd' = d

Next ==
    \/ \E d \in Dirs : Cd(d) \/ PushdUnique(d) \/ PushdN(d)
    \/ \E d \in Dirs, login \in BOOLEAN : Restart(d, login)
    \/ \E cd \in BOOLEAN : Exchange(cd) \/ Popd(cd)
    \/ \E k \in 0..MaxNodes-1, cd \in BOOLEAN : Rotate(k, cd) \/ Extract(k, cd) \/ PopdAt(k, cd)
    \/ \E d, e \in Dirs : AssignDirstack(<<d, e>>)
    \/ DirsClear

Spec == Init /\ [][Next]_vars
-----------------------------------------------------------------------------
TypeOK ==
    /\ list \in [path : [Node -> Dirs \cup {""}], next : [Node -> Node \cup {NULL}],
                 prev : [Node -> Node \cup {NULL}], top : Node \cup {NULL}, count : Nat]
    /\ cwd \in Dirs

\* The entries that can be reached are allocated and stack_count in number, and the
\* first is the current directory.
OneList ==
    /\ list.top # NULL /\ Last(Follow(list.next, list.top)) = NULL
    /\ Len(Nodes(list)) = list.count
    /\ \A n \in ToSet(Nodes(list)) : list.path[n] # ""
    /\ list.path[list.top] = cwd

\* The builtins do to the sequence of directories what their manual page says, and
\* what is saved is that sequence.
AsManual ==
    LET ds == Paths(list)
    IN  /\ list.count >= 2 =>
              /\ Paths(Exchanged) = <<ds[2], ds[1]>> \o SubSeq(ds, 3, Len(ds))
              /\ Paths(Popped) = Tail(ds)
              /\ \A k \in 1..Len(ds) : Paths(PoppedAt(k-1)) = RemoveAt(ds, k)
        /\ \A k \in 1..Len(ds)-1 :
              /\ Paths(Rotated(k)) = SubSeq(ds, k+1, Len(ds)) \o SubSeq(ds, 1, k)
              /\ MayUsePrev => Paths(Extracted(k)) = <<ds[k+1]>> \o RemoveAt(ds, k+1)
        /\ MayUsePrev => Saved = Reverse(ds)
        /\ MayUsePrev /\ FreeNodes(list) # {} => \A d \in Dirs :
              /\ Paths(Push(list, d, FALSE)) = <<d>> \o ds
              /\ Len(ds) > 1 => Paths(Push(list, d, TRUE)) = <<ds[1], d>> \o Tail(ds)
              /\ "dunique" \in Rash \/ d # ds[1] =>
                    Paths(Push(Unique(list, d), d, FALSE)) = <<d>> \o SelectSeq(ds, LAMBDA e : e # d)
=============================================================================
