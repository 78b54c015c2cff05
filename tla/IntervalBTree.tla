--------------------------- MODULE IntervalBTree ---------------------------
(***************************************************************************)
(* Dmn_IntervalBTree: a degree-2 B-tree of inclusive intervals with the    *)
(* largest end of every subtree, the overlay state of every entry and the  *)
(* callbacks that report its changes.  An entry is named by its insertion  *)
(* ordinal; `entry` holds the records the nodes point to.                  *)
(***************************************************************************)
EXTENDS Integers, FiniteSets, Sequences, SequencesExt, TLC

CONSTANTS
  Ranges,      \* pairs <<start, end>> the callers use, invalid ones included
  AddRanges,   \* those given to add()
  Values,      \* payloads; a larger one outranks a smaller one
  ByEnd,       \* TRUE: a canonical comparator that looks at the end only
  Ranked,      \* TRUE: a priority evaluator is installed
  Callbacks,   \* what add() is given: Own or None
  Failing,     \* payloads whose callback throws
  Snapshots,   \* canonical sequences given to reconstructFromCanonical
  MaxOrdinal,  \* bound: insertions of one life of the tree
  MaxRegs      \* bound: callback registrations

VARIABLES
  root,        \* m_root: <<>> or <<node>>
  entry,       \* ordinal -> entry record
  size,        \* m_size
  nextOrdinal, \* m_nextOrdinal
  regs,        \* m_callbackRegistrations: sequence of [id, matches]
  nextReg,     \* m_nextCallbackRegistrationId
  told,        \* transitions reported by the last call, in order
  outcome      \* what the last call returned

vars == <<root, entry, size, nextOrdinal, regs, nextReg, told, outcome>>

MinimumDegree == 2
NoEnd == -1
None == 0      \* no callback
Own == -1      \* the callback given to add()

IsValid(r) == r[1] <= r[2]

Overlaps(a, b) == IsValid(a) /\ IsValid(b) /\ a[1] <= b[2] /\ b[1] <= a[2]

(***************************************************************************)
(* Classification.  The code clips and sorts the overlaps and sweeps over  *)
(* them; ps is the set of clipped ranges, and a gap is a range that starts *)
(* after the end covered by all the ranges sorted before it.               *)
(***************************************************************************)
SortedBefore(a, b) == a[1] < b[1] \/ (a[1] = b[1] /\ a[2] < b[2])

MaxOf(S) == CHOOSE x \in S : \A y \in S : y <= x

MinOf(S) == CHOOSE x \in S : \A y \in S : x <= y

Gap(ps) ==
  \E p \in ps : LET before == {q \in ps : SortedBefore(q, p)} IN
    before # {} /\ p[1] > MaxOf({q[2] : q \in before}) + 1

ClassifyTopology(r, overlaps) ==
  LET ps == {<<MaxOf({r[1], o[1]}), MinOf({r[2], o[2]})>> : o \in overlaps}
      left == MinOf({p[1] : p \in ps}) = r[1]
      right == MaxOf({p[2] : p \in ps}) = r[2]
      full == left /\ ~Gap(ps) /\ right
      contained == \E o \in overlaps : r[1] < o[1] /\ o[2] < r[2]
  IN CASE overlaps = {} -> "clear"
       [] overlaps # {} /\ full -> "full"
       [] overlaps # {} /\ ~full ->
            CASE contained /\ r[1] < MinOf({o[1] : o \in overlaps})
                           /\ r[2] > MaxOf({o[2] : o \in overlaps}) -> "covering"
              [] left /\ right -> "both"
              [] left /\ ~right -> "left"
              [] right /\ ~left -> "right"
              [] OTHER -> "clear"

RangeLess(a, b) ==
  IF ByEnd /\ a[2] # b[2] THEN a[2] < b[2] ELSE SortedBefore(a, b)

EntryLess(e, a, b) ==
  IF e[a].range = e[b].range THEN a < b ELSE RangeLess(e[a].range, e[b].range)

-----------------------------------------------------------------------------
(* Nodes: k the entries, c the children (none in a leaf), m the largest end *)

IsLeaf(n) == n.c = <<>>

\* Mutant: the children are left out.
RefreshEntriesOnly(e, n) ==
  [n EXCEPT !.m = MaxOf({NoEnd} \cup {e[n.k[i]].range[2] : i \in DOMAIN n.k})]

Refresh(e, n) ==
  [n EXCEPT !.m = MaxOf({NoEnd} \cup {e[n.k[i]].range[2] : i \in DOMAIN n.k}
                                \cup {n.c[i].m : i \in DOMAIN n.c})]

RECURSIVE InOrder(_)
InOrder(n) ==
  IF IsLeaf(n) THEN n.k
  ELSE FoldLeft(LAMBDA s, i : s \o <<n.k[i]>> \o InOrder(n.c[i + 1]),
                InOrder(n.c[1]), [i \in DOMAIN n.k |-> i])

Entries(r) == IF r = <<>> THEN <<>> ELSE InOrder(r[1])

\* collectEntriesInOrder, then the test against every other entry
CalculateState(e, r, x) ==
  LET others == {o \in ToSet(Entries(r)) : o # x /\ Overlaps(e[x].range, e[o].range)}
  IN [top |-> ~(Ranked /\ \E o \in others : e[o].value > e[x].value),
      topology |-> ClassifyTopology(e[x].range, {e[o].range : o \in others})]

Part(e, ks, cs) == Refresh(e, [k |-> ks, c |-> cs, m |-> NoEnd])

\* i is the position of the full child
SplitChild(e, n, i) ==
  LET d == MinimumDegree
      x == n.c[i]
      low == Part(e, SubSeq(x.k, 1, d - 1), SubSeq(x.c, 1, MinOf({d, Len(x.c)})))
      high == Part(e, SubSeq(x.k, d + 1, 2 * d - 1), SubSeq(x.c, d + 1, Len(x.c)))
  IN Part(e, InsertAt(n.k, i, x.k[d]), InsertAt(ReplaceAt(n.c, i, low), i + 1, high))

RECURSIVE InsertNonFull(_, _, _)
InsertNonFull(e, n, x) ==
  LET i == 1 + MaxOf({0} \cup {j \in DOMAIN n.k : ~EntryLess(e, x, n.k[j])})
      full == Len(n.c[i].k) = 2 * MinimumDegree - 1
      s == IF full THEN SplitChild(e, n, i) ELSE n
      at == IF full /\ EntryLess(e, s.k[i], x) THEN i + 1 ELSE i
  IN IF IsLeaf(n) THEN Part(e, InsertAt(n.k, i, x), <<>>)
     ELSE Part(e, s.k, ReplaceAt(s.c, at, InsertNonFull(e, s.c[at], x)))

\* the structural part of insertEntry()
InsertRoot(e, r, x) ==
  LET old == IF r = <<>> THEN [k |-> <<>>, c |-> <<>>, m |-> NoEnd] ELSE r[1]
      grown == IF Len(old.k) = 2 * MinimumDegree - 1
                 THEN SplitChild(e, [k |-> <<>>, c |-> <<old>>, m |-> NoEnd], 1)
                 ELSE old
  IN <<InsertNonFull(e, grown, x)>>

BorrowFromPrevious(e, n, i) ==
  LET x == n.c[i]
      s == n.c[i - 1]
  IN Part(e, ReplaceAt(n.k, i - 1, Last(s.k)),
       [n.c EXCEPT
          ![i] = Part(e, <<n.k[i - 1]>> \o x.k,
                      IF IsLeaf(x) THEN x.c ELSE <<Last(s.c)>> \o x.c),
          ![i - 1] = Part(e, Front(s.k), IF IsLeaf(x) THEN s.c ELSE Front(s.c))])

BorrowFromNext(e, n, i) ==
  LET x == n.c[i]
      s == n.c[i + 1]
  IN Part(e, ReplaceAt(n.k, i, Head(s.k)),
       [n.c EXCEPT
          ![i] = Part(e, Append(x.k, n.k[i]),
                      IF IsLeaf(x) THEN x.c ELSE Append(x.c, Head(s.c))),
          ![i + 1] = Part(e, Tail(s.k), IF IsLeaf(x) THEN s.c ELSE Tail(s.c))])

MergeChildren(e, n, i) ==
  LET a == n.c[i]
      b == n.c[i + 1]
  IN Part(e, RemoveAt(n.k, i),
          RemoveAt(ReplaceAt(n.c, i, Part(e, Append(a.k, n.k[i]) \o b.k, a.c \o b.c)),
                   i + 1))

Lean(n) == Len(n.k) = MinimumDegree - 1

\* both return the entry taken out and the node that is left
RECURSIVE RemoveMaximum(_, _)
RemoveMaximum(e, n) ==
  LET i == Len(n.c)
      b == CASE Lean(n.c[i]) /\ i > 1 /\ ~Lean(n.c[i - 1]) -> BorrowFromPrevious(e, n, i)
             [] Lean(n.c[i]) /\ i > 1 /\ Lean(n.c[i - 1]) -> MergeChildren(e, n, i - 1)
             [] OTHER -> n
      sub == RemoveMaximum(e, Last(b.c))
  IN IF IsLeaf(n) THEN [x |-> Last(n.k), n |-> Part(e, Front(n.k), <<>>)]
     ELSE [x |-> sub.x, n |-> Part(e, b.k, ReplaceAt(b.c, Len(b.c), sub.n))]

RECURSIVE RemoveMinimum(_, _)
RemoveMinimum(e, n) ==
  LET b == CASE Lean(n.c[1]) /\ Len(n.c) > 1 /\ ~Lean(n.c[2]) -> BorrowFromNext(e, n, 1)
             [] Lean(n.c[1]) /\ Len(n.c) > 1 /\ Lean(n.c[2]) -> MergeChildren(e, n, 1)
             [] OTHER -> n
      sub == RemoveMinimum(e, Head(b.c))
  IN IF IsLeaf(n) THEN [x |-> Head(n.k), n |-> Part(e, Tail(n.k), <<>>)]
     ELSE [x |-> sub.x, n |-> Part(e, b.k, ReplaceAt(b.c, 1, sub.n))]

\* the child that is to lose an entry first gets one to spare
Fill(e, n, i) ==
  CASE ~Lean(n.c[i]) -> [n |-> n, i |-> i]
    [] Lean(n.c[i]) /\ i > 1 /\ ~Lean(n.c[i - 1]) ->
         [n |-> BorrowFromPrevious(e, n, i), i |-> i]
    [] Lean(n.c[i]) /\ ~(i > 1 /\ ~Lean(n.c[i - 1])) ->
         IF i <= Len(n.k)
           THEN [n |-> IF ~Lean(n.c[i + 1]) THEN BorrowFromNext(e, n, i)
                                             ELSE MergeChildren(e, n, i), i |-> i]
           ELSE [n |-> MergeChildren(e, n, i - 1), i |-> i - 1]

RECURSIVE EraseEntry(_, _, _)
EraseEntry(e, n, t) ==
  LET i == MinOf({Len(n.k) + 1} \cup {j \in DOMAIN n.k : ~EntryLess(e, n.k[j], t)})
      found == i <= Len(n.k) /\ n.k[i] = t
      f == Fill(e, n, i)
      m == MergeChildren(e, n, i)
      p == RemoveMaximum(e, n.c[i])
      s == RemoveMinimum(e, n.c[i + 1])
  IN CASE IsLeaf(n) -> IF found THEN Part(e, RemoveAt(n.k, i), <<>>) ELSE n
       [] ~IsLeaf(n) /\ found ->
            CASE ~Lean(n.c[i]) -> Part(e, ReplaceAt(n.k, i, p.x), ReplaceAt(n.c, i, p.n))
              [] Lean(n.c[i]) /\ ~Lean(n.c[i + 1]) ->
                   Part(e, ReplaceAt(n.k, i, s.x), ReplaceAt(n.c, i + 1, s.n))
              [] OTHER -> Part(e, m.k, ReplaceAt(m.c, i, EraseEntry(e, m.c[i], t)))
       [] ~IsLeaf(n) /\ ~found ->
            Part(e, f.n.k, ReplaceAt(f.n.c, f.i, EraseEntry(e, f.n.c[f.i], t)))

EraseRoot(e, r, t) ==
  LET n == EraseEntry(e, r[1], t)
  IN IF n.k # <<>> THEN <<n>> ELSE IF IsLeaf(n) THEN <<>> ELSE <<n.c[1]>>

RECURSIVE HasOverlapInSubtree(_, _)
HasOverlapInSubtree(n, r) ==
  /\ n.m >= r[1]
  /\ \/ \E i \in DOMAIN n.k : Overlaps(entry[n.k[i]].range, r)
     \/ \E i \in DOMAIN n.c : HasOverlapInSubtree(n.c[i], r)

HasOverlap(r) == IsValid(r) /\ root # <<>> /\ HasOverlapInSubtree(root[1], r)

RECURSIVE VisitOverlappingInOrder(_, _)
VisitOverlappingInOrder(n, r) ==
  LET hit(x) == IF Overlaps(entry[x].range, r) THEN <<x>> ELSE <<>>
      below(i) == IF IsLeaf(n) THEN <<>> ELSE VisitOverlappingInOrder(n.c[i], r)
  IN IF n.m < r[1] THEN <<>>
     ELSE FoldLeft(LAMBDA s, i : s \o hit(n.k[i]) \o below(i + 1), below(1),
                   [i \in DOMAIN n.k |-> i])

FindOverlapping(r) ==
  IF root = <<>> THEN <<>> ELSE VisitOverlappingInOrder(root[1], r)

QueryTopology(r, v) ==
  LET os == ToSet(FindOverlapping(r))
  IN [top |-> ~(Ranked /\ \E o \in os : entry[o].value > v),
      topology |-> ClassifyTopology(r, {entry[o].range : o \in os})]

-----------------------------------------------------------------------------
(* Mutations *)

\* updateStatesAndNotify(): the states of xs, and the callbacks of those that
\* changed, up to the first that throws
Updated(e, r, xs) ==
  [o \in ToSet(xs) |-> [e[o] EXCEPT !.state = CalculateState(e, r, o)]] @@ e

\* Mutant: a change of rank is not a transition.
TransitionsOfTopology(e, r, xs) ==
  SelectSeq(xs, LAMBDA o :
    e[o].cb # None /\ CalculateState(e, r, o).topology # e[o].state.topology)

Transitions(e, r, xs) ==
  SelectSeq(xs, LAMBDA o : e[o].cb # None /\ CalculateState(e, r, o) # e[o].state)

Reported(e, ts) ==
  LET bad == {i \in DOMAIN ts : e[ts[i]].value \in Failing}
  IN IF bad = {} THEN ts ELSE SubSeq(ts, 1, MinOf(bad))

Notify(e, r, xs, result) ==
  LET ts == Transitions(e, r, xs)
      reported == Reported(e, ts)
      state(o) == CalculateState(e, r, o)
  IN /\ entry' = Updated(e, r, xs)
     /\ told' = [i \in DOMAIN reported |-> <<reported[i], e[reported[i]].state, state(reported[i])>>]
     /\ outcome' = IF \E i \in DOMAIN ts : e[ts[i]].value \in Failing THEN "throws" ELSE result

\* the entries of a tree after one more is put in, states of the overlapped not yet updated
WithEntry(e, r2, x, new) ==
  e @@ (x :> [new EXCEPT !.state = CalculateState(e @@ (x :> new), r2, x)])

NewEntry(range, v, c) ==
  [range |-> range, value |-> v, cb |-> c, state |-> [top |-> TRUE, topology |-> "clear"]]

Rejected == outcome' = "invalid" /\ told' = <<>> /\ UNCHANGED <<root, entry, size, nextOrdinal>>

\* add() and addWithTopology(), whose result is the query made before
Add(range, v, c) ==
  /\ nextOrdinal < MaxOrdinal
  /\ UNCHANGED <<regs, nextReg>>
  /\ IF ~IsValid(range) THEN Rejected
     ELSE LET x == nextOrdinal
              r2 == InsertRoot(entry @@ (x :> NewEntry(range, v, c)), root, x)
              old == SelectSeq(Entries(root), LAMBDA o : Overlaps(entry[o].range, range))
          IN /\ root' = r2
             /\ size' = size + 1
             /\ nextOrdinal' = nextOrdinal + 1
             /\ Notify(WithEntry(entry, r2, x, NewEntry(range, v, c)), r2, old,
                       QueryTopology(range, v).topology)

Without(e, xs) == [o \in DOMAIN e \ xs |-> e[o]]

\* findExactEntry(); vs are the payloads the matcher accepts
FindExact(range, vs) ==
  SelectSeq(Entries(root), LAMBDA o : entry[o].range = range /\ entry[o].value \in vs)

RemoveByRange(range, vs) ==
  /\ UNCHANGED <<regs, nextReg>>
  /\ nextOrdinal' = nextOrdinal
  /\ LET hits == FindExact(range, vs)
         t == hits[1]
         r2 == EraseRoot(entry, root, t)
         old == SelectSeq(Entries(root), LAMBDA o : o # t /\ Overlaps(entry[o].range, range))
     IN \/ ~IsValid(range) /\ Rejected
        \/ /\ IsValid(range) /\ hits = <<>>
           /\ outcome' = "none" /\ told' = <<>> /\ UNCHANGED <<root, entry, size>>
        \/ /\ IsValid(range) /\ hits # <<>>
           /\ root' = r2
           /\ size' = size - 1
           /\ Notify(Without(entry, {t}), r2, old, "removed")

RemoveAllOverlapping(range) ==
  /\ UNCHANGED <<regs, nextReg>>
  /\ nextOrdinal' = nextOrdinal
  /\ LET all == Entries(root)
         hits == SelectSeq(all, LAMBDA o : Overlaps(entry[o].range, range))
         r2 == FoldLeft(LAMBDA r, t : EraseRoot(entry, r, t), root, hits)
         old == SelectSeq(all, LAMBDA o :
                  /\ o \notin ToSet(hits)
                  /\ \E t \in ToSet(hits) : Overlaps(entry[o].range, entry[t].range))
     IN \/ ~IsValid(range) /\ Rejected
        \/ /\ IsValid(range) /\ hits = <<>>
           /\ outcome' = "none" /\ told' = <<>> /\ UNCHANGED <<root, entry, size>>
        \/ /\ IsValid(range) /\ hits # <<>>
           /\ root' = r2
           /\ size' = size - Len(hits)
           /\ Notify(Without(entry, ToSet(hits)), r2, old, "removed")

Emptied(result) ==
  /\ root' = <<>> /\ entry' = <<>> /\ size' = 0 /\ nextOrdinal' = 0
  /\ told' = <<>> /\ outcome' = result
  /\ UNCHANGED <<regs, nextReg>>

Clear == Emptied("cleared")

\* the payloads go to the caller, in canonical order
EnumerateCanonicalMove == Emptied("moved")

\* callbackForReconstruction(): the first registration that matches
CallbackFor(v) ==
  LET hits == SelectSeq(regs, LAMBDA g : v \in g.matches)
  IN IF hits = <<>> THEN None ELSE hits[1].id

RECURSIVE Load(_, _, _)
Load(snap, e, r) ==
  LET x == Cardinality(DOMAIN e)
      s == snap[x + 1]
      new == NewEntry(s[1], s[2], CallbackFor(s[2]))
      r2 == InsertRoot(e @@ (x :> new), r, x)
      old == SelectSeq(Entries(r), LAMBDA o : Overlaps(e[o].range, s[1]))
  IN IF x = Len(snap) THEN <<e, r>>
     ELSE Load(snap, Updated(WithEntry(e, r2, x, new), r2, old), r2)

ReconstructFromCanonical(snap) ==
  /\ UNCHANGED <<regs, nextReg>>
  /\ told' = <<>>
  /\ IF \E i \in DOMAIN snap : ~IsValid(snap[i][1]) THEN Rejected
     ELSE LET loaded == Load(snap, <<>>, <<>>)
          IN /\ entry' = loaded[1] /\ root' = loaded[2]
             /\ size' = Len(snap) /\ nextOrdinal' = Len(snap)
             /\ outcome' = "loaded"

RegisterStateCallback(vs) ==
  /\ nextReg <= MaxRegs
  /\ regs' = Append(regs, [id |-> nextReg, matches |-> vs])
  /\ nextReg' = nextReg + 1
  /\ told' = <<>> /\ outcome' = "registered"
  /\ UNCHANGED <<root, entry, size, nextOrdinal>>

UnregisterStateCallback(g) ==
  /\ \E i \in DOMAIN regs : regs[i].id = g
  /\ regs' = SelectSeq(regs, LAMBDA x : x.id # g)
  /\ entry' = [o \in DOMAIN entry |->
                 IF entry[o].cb = g THEN [entry[o] EXCEPT !.cb = None] ELSE entry[o]]
  /\ told' = <<>> /\ outcome' = "unregistered"
  /\ UNCHANGED <<root, size, nextOrdinal, nextReg>>

Init ==
  /\ root = <<>> /\ entry = <<>> /\ size = 0 /\ nextOrdinal = 0
  /\ regs = <<>> /\ nextReg = 1 /\ told = <<>> /\ outcome = "new"

Next ==
  \/ \E r \in AddRanges, v \in Values, c \in Callbacks : Add(r, v, c)
  \/ \E r \in Ranges, vs \in {Values} \cup {{v} : v \in Values} : RemoveByRange(r, vs)
  \/ \E r \in Ranges : RemoveAllOverlapping(r)
  \/ Clear
  \/ EnumerateCanonicalMove
  \/ \E s \in Snapshots : ReconstructFromCanonical(s)
  \/ \E v \in Values : RegisterStateCallback({v})
  \/ \E g \in 1..MaxRegs : UnregisterStateCallback(g)

Spec == Init /\ [][Next]_vars
-----------------------------------------------------------------------------
RECURSIVE Depths(_)
Depths(n) == IF IsLeaf(n) THEN {0} ELSE {d + 1 : d \in UNION {Depths(n.c[i]) : i \in DOMAIN n.c}}

RECURSIVE Nodes(_)
Nodes(n) == {n} \cup UNION {Nodes(n.c[i]) : i \in DOMAIN n.c}

\* After any sequence of insertions, removals and reconstructions the tree is a
\* B-tree: all leaves at one depth, every node with 1 to 3 entries and one
\* child more than entries, the entries in canonical order, and m_size, the
\* entries and every m_subtreeMaxEnd agree with what the nodes hold.
BTreeShape ==
  /\ size = Cardinality(DOMAIN entry)
  /\ ToSet(Entries(root)) = DOMAIN entry /\ Len(Entries(root)) = size
  /\ root = <<>> <=> size = 0
  /\ LET s == Entries(root) IN \A i \in 1..(Len(s) - 1) : EntryLess(entry, s[i], s[i + 1])
  /\ root # <<>> =>
       /\ Cardinality(Depths(root[1])) = 1
       /\ \A n \in Nodes(root[1]) :
            /\ Len(n.k) \in (MinimumDegree - 1)..(2 * MinimumDegree - 1)
            /\ n.c # <<>> => Len(n.c) = Len(n.k) + 1
            /\ n.m = MaxOf({entry[o].range[2] : o \in ToSet(InOrder(n))})

\* Pruning by m_subtreeMaxEnd never hides an entry: the queries find exactly
\* the overlapping entries, in canonical order.
QueriesComplete ==
  \A r \in Ranges :
    LET hits == SelectSeq(Entries(root), LAMBDA o : Overlaps(entry[o].range, r))
    IN IsValid(r) => FindOverlapping(r) = hits /\ (HasOverlap(r) <=> hits # <<>>)

Meaning(r, others) ==
  LET points == r[1]..r[2]
      covered == {p \in points : \E o \in others : o[1] <= p /\ p <= o[2]}
      l == r[1] \in covered
      h == r[2] \in covered
  IN CASE covered = {} -> "clear"
       [] covered # {} /\ covered = points -> "full"
       [] covered # {} /\ covered # points ->
            IF l THEN (IF h THEN "both" ELSE "left") ELSE (IF h THEN "right" ELSE "covering")

\* Only the entries that overlap the one put in or taken out are recomputed,
\* yet every stored state is current, and the sweep of classifyTopology()
\* yields what the enumerators of Dmn_OverlayTopology say point by point.
StatesCurrent ==
  \A x \in DOMAIN entry :
    LET others == {o \in DOMAIN entry \ {x} : Overlaps(entry[o].range, entry[x].range)}
    IN /\ entry[x].state.topology = Meaning(entry[x].range, {entry[o].range : o \in others})
       /\ entry[x].state.top = ~(Ranked /\ \E o \in others : entry[o].value > entry[x].value)

Changed == {o \in DOMAIN entry \cap DOMAIN entry' :
              entry[o].cb # None /\ entry[o].state # entry'[o].state}

\* Every entry with a callback whose state a mutation changed is told once, of
\* its old and new state; a callback that throws ends the round but does not
\* undo the mutation.  Loading a snapshot tells nobody.
ChangesReported ==
  [][/\ \A i \in DOMAIN told' :
          /\ told'[i][1] \in Changed
          /\ told'[i] = <<told'[i][1], entry[told'[i][1]].state, entry'[told'[i][1]].state>>
          /\ \A j \in DOMAIN told' : told'[i][1] = told'[j][1] => i = j
     /\ outcome' \notin {"throws", "loaded"} => Len(told') = Cardinality(Changed)]_vars
=============================================================================
