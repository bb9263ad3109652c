------------------------------- MODULE ArrayChanges -------------------------------
(***************************************************************************)
(* How knockout tells what changed in an array: the edit script between    *)
(* two contents (compareArrays, a Levenshtein distance that looks at a     *)
(* band of the matrix only), the script that a known operation has by      *)
(* itself (cacheDiffForKnownOperation), and how foreach follows a script   *)
(* with the nodes of its rows (setDomNodeChildrenFromArrayMapping).        *)
(*                                                                         *)
(* Positions count from 1.                                                 *)
(***************************************************************************)
EXTENDS Integers, Sequences, SequencesExt, FiniteSetsExt

NotMoved == 0

Added(v, i) == [status |-> "added", value |-> v, index |-> i, moved |-> NotMoved]
Deleted(v, i) == [status |-> "deleted", value |-> v, index |-> i, moved |-> NotMoved]

(***************************************************************************)
(* The matrix: rows for the short array, columns for the long one.         *)
(***************************************************************************)
FirstColumn(row) == IF row = 0 THEN 0 ELSE row - 1
LastColumn(row, sml, big) ==
  LET range == IF Len(big) = Len(sml) THEN 1 ELSE Len(big) - Len(sml) IN
  IF row + range < Len(big) THEN row + range ELSE Len(big)
Band(row, sml, big) == FirstColumn(row) .. LastColumn(row, sml, big)

EditDistance(sml, big) ==
  LET maxDistance == Len(sml) + Len(big) + 1
      cell[c \in (0 .. Len(sml)) \X (-1 .. Len(big))] ==
        LET s == c[1]
            b == c[2]
        IN IF b \notin Band(s, sml, big) THEN maxDistance
           ELSE IF b = 0 THEN s + 1
           ELSE IF s = 0 THEN b + 1
           ELSE IF sml[s] = big[b] THEN cell[<<s - 1, b - 1>>]
           ELSE 1 + Min({cell[<<s - 1, b>>], cell[<<s, b - 1>>]})
  IN cell

\* The path through the matrix, from its end to its beginning: what is only
\* in the long array and what is only in the short one, last first.
PathThrough(cell, sml, big) ==
  LET cells == {c \in (0 .. Len(sml)) \X (0 .. Len(big)) : c[2] \in Band(c[1], sml, big)}
      path[c \in cells] ==
        LET s == c[1]
            b == c[2]
            step == cell[c] - 1
            west == b > 0 /\ cell[<<s, b - 1>>] = step
            north == s > 0 /\ cell[<<s - 1, b>>] = step
        IN IF s + b = 0 THEN <<>>
           ELSE IF west THEN <<[long |-> TRUE, at |-> b]>> \o path[<<s, b - 1>>]
           ELSE IF north THEN <<[long |-> FALSE, at |-> s]>> \o path[<<s - 1, b>>]
           ELSE path[<<s - 1, b - 1>>]
  IN path[<<Len(sml), Len(big)>>]

Differences(sml, big) == PathThrough(EditDistance(sml, big), sml, big)

(***************************************************************************)
(* findMovesInArrayComparison: each entry of the one kind is matched with  *)
(* the first one of the other kind that has its value and is not matched   *)
(* yet, until "limit" comparisons in a row have failed; 0 is no limit.     *)
(***************************************************************************)
NoLimit == 0

Matched(acc, script, left, right, limit, i) ==
  LET free == {j \in DOMAIN script : script[j].status = right /\ \A m \in acc.pairs : m[2] # j}
      same == {j \in free : script[j].value = script[i].value}
  IN IF script[i].status # left \/ (limit # NoLimit /\ acc.failed >= limit) THEN acc
     ELSE IF same = {} THEN [acc EXCEPT !.failed = @ + Cardinality(free)]
     ELSE [pairs |-> acc.pairs \cup {<<i, Min(same)>>}, failed |-> 0]

Matches(script, left, right, limit) ==
  FoldLeft(LAMBDA acc, i : Matched(acc, script, left, right, limit, i),
           [pairs |-> {}, failed |-> 0], [i \in 1 .. Len(script) |-> i]).pairs

FindMoves(script, left, right, limit) ==
  {<<script[m[1]].index, script[m[2]].index>> : m \in Matches(script, left, right, limit)}

\* The script with its moves marked, on the deletion and on the addition.
\* "moves" has the position in the old array first.
MarkMoves(script, moves) ==
  [i \in 1 .. Len(script) |->
    LET entry == script[i]
        here == IF entry.status = "deleted" THEN 1 ELSE 2
        move == {m \in moves : m[here] = entry.index}
    IN IF move = {} THEN entry ELSE [entry EXCEPT !.moved = (CHOOSE m \in move : TRUE)[3 - here]]]

(***************************************************************************)
(* ko.utils.compareArrays with the "sparse" option.  What is only in the   *)
(* new array was added, be it the long one or the short one.               *)
(***************************************************************************)
Entry(p, array, isNew) == IF isNew THEN Added(array[p.at], p.at) ELSE Deleted(array[p.at], p.at)

Entries(path, sml, big, grows) ==
  [i \in DOMAIN path |-> IF path[i].long THEN Entry(path[i], big, grows) ELSE Entry(path[i], sml, ~grows)]

\* What is only in the short array is looked for in the long one.
MovesIn(entries, grows, limit) ==
  IF grows THEN FindMoves(entries, "deleted", "added", limit)
  ELSE {<<m[2], m[1]>> : m \in FindMoves(entries, "added", "deleted", limit)}

Marked(entries, grows, limit) == MarkMoves(Reverse(entries), MovesIn(entries, grows, limit))

CompareArrays(old, new) ==
  IF Len(old) < Len(new) THEN Marked(Entries(Differences(old, new), old, new, TRUE), TRUE, 10 * Len(old))
  ELSE Marked(Entries(Differences(new, old), new, old, FALSE), FALSE, 10 * Len(new))

(***************************************************************************)
(* What a script has to say of two contents: its deletions are items of    *)
(* the old ones and its additions items of the new ones, each in the order *)
(* of their positions; the items it does not name are the same on both     *)
(* sides, in the same order; and none of those is between two entries on   *)
(* one side and not on the other.                                          *)
(***************************************************************************)
Named(script, status) == {script[i].index : i \in {j \in DOMAIN script : script[j].status = status}}

\* The entry comes after an item that is at "o" and was kept at "n".
Later(entry, o, n) == entry.index > (IF entry.status = "deleted" THEN o ELSE n)

Tells(script, old, new) ==
  LET left == DOMAIN old \ Named(script, "deleted")
      right == DOMAIN new \ Named(script, "added")
  IN /\ \A i \in DOMAIN script :
          \/ script[i].status = "deleted" /\ script[i].index \in DOMAIN old /\ script[i].value = old[script[i].index]
          \/ script[i].status = "added" /\ script[i].index \in DOMAIN new /\ script[i].value = new[script[i].index]
     /\ \A i, j \in DOMAIN script :
          i < j /\ script[i].status = script[j].status => script[i].index < script[j].index
     /\ \E at \in [left -> right] :
          /\ \A n \in right : \E o \in left : at[o] = n
          /\ \A o \in left : new[at[o]] = old[o]
          /\ \A o, p \in left : o < p => at[o] < at[p]
          /\ \A o \in left, i, j \in DOMAIN script :
               i < j /\ Later(script[i], o, at[o]) => Later(script[j], o, at[o])

(***************************************************************************)
(* What the marks of a script have to say: the other side of an entry that *)
(* moved is an entry that moved, with the same value and here as its other *)
(* side; and, unless the search gave up, no two entries are left that      *)
(* could have been matched.                                                *)
(***************************************************************************)
MovesPair(script) ==
  \A i \in DOMAIN script :
    script[i].moved # NotMoved =>
      \E j \in DOMAIN script : /\ script[j].status # script[i].status
                               /\ script[j].value = script[i].value
                               /\ script[j].index = script[i].moved
                               /\ script[j].moved = script[i].index

NoMoveMissed(script) ==
  \A i, j \in DOMAIN script :
    script[i].status # script[j].status /\ script[i].moved = NotMoved /\ script[j].moved = NotMoved
      => script[i].value # script[j].value

(***************************************************************************)
(* The native operations and the scripts of those that are known.          *)
(***************************************************************************)
SpliceEnd(array, start, count) == Min({start + count, Len(array) + 1})

\* array.splice(start - 1, count, ...args)
Spliced(array, start, count, args) ==
  SubSeq(array, 1, start - 1) \o args \o SubSeq(array, SpliceEnd(array, start, count), Len(array))

\* What is deleted and what is added at a position.
SplicedAt(array, start, count, args, i) ==
  (IF i < SpliceEnd(array, start, count) THEN <<Deleted(array[i], i)>> ELSE <<>>)
  \o (IF i < start + Len(args) THEN <<Added(args[i - start + 1], i)>> ELSE <<>>)

\* The first position behind both.
ScriptEnd(array, start, count, args) == Max({SpliceEnd(array, start, count), start + Len(args), start})

SpliceScript(array, start, count, args) ==
  FoldLeft(LAMBDA script, i : script \o SplicedAt(array, start, count, args, i), <<>>,
           [k \in 1 .. ScriptEnd(array, start, count, args) - start |-> start + k - 1])

SpliceDiff(array, start, count, args) ==
  LET script == SpliceScript(array, start, count, args)
  IN MarkMoves(script, FindMoves(script, "deleted", "added", NoLimit))

PushDiff(array, args) == [i \in 1 .. Len(args) |-> Added(args[i], Len(array) + i)]
UnshiftDiff(args) == [i \in 1 .. Len(args) |-> Added(args[i], i)]
PopDiff(array) == IF array = <<>> THEN <<>> ELSE <<Deleted(Last(array), Len(array))>>
ShiftDiff(array) == IF array = <<>> THEN <<>> ELSE <<Deleted(Head(array), 1)>>

(***************************************************************************)
(* foreach.  "last" are the rows of the last time, and the new rows are    *)
(* made of them and of new ones: [row, new] where "row" is an old row or   *)
(* the value of a new one.  "first" are the positions of the rows that the *)
(* script says moved.                                                      *)
(***************************************************************************)
Row(r) == [row |-> r, new |-> FALSE]
NewRow(v) == [row |-> v, new |-> TRUE]

\* The old rows from the next one on, as many as "count", are retained.
Retain(acc, last, count) ==
  [acc EXCEPT !.rows = @ \o [i \in 1 .. count |-> Row(last[acc.next + i - 1])],
              !.next = @ + count]

\* How many there are before position "to" when the count is at "from".
Before(from, to) == IF from < to THEN to - from ELSE 0

ApplyEntry(acc, last, entry) ==
  IF entry.status = "deleted" THEN
    LET kept == Retain(acc, last, Before(acc.next, entry.index)) IN
    [kept EXCEPT !.next = @ + 1,
                 !.gone = IF entry.moved = NotMoved THEN @ \cup {last[kept.next]} ELSE @]
  ELSE
    LET kept == Retain(acc, last, Before(Len(acc.rows) + 1, entry.index)) IN
    IF entry.moved = NotMoved THEN [kept EXCEPT !.rows = Append(@, NewRow(entry.value))]
    ELSE [kept EXCEPT !.rows = Append(@, Row(last[entry.moved])),
                      !.first = Append(@, Len(kept.rows) + 1)]

\* length: of the array as it is now.
ApplyScript(last, script, length) ==
  LET acc == FoldLeft(LAMBDA a, entry : ApplyEntry(a, last, entry),
                      [rows |-> <<>>, next |-> 1, gone |-> {}, first |-> <<>>], script)
  IN Retain(acc, last, Before(Len(acc.rows), length))

\* The nodes that are left when some are taken out of the document.
Without(dom, out) == FoldLeft(LAMBDA left, n : IF n \in out THEN left ELSE Append(left, n), <<>>, dom)

\* The position of a node, 0 for none; and the node that follows it, the first
\* one for none.
Place(dom, node) == Max({0} \cup {i \in DOMAIN dom : <<dom[i]>> = node})

NextSibling(dom, node) == IF Place(dom, node) < Len(dom) THEN <<dom[Place(dom, node) + 1]>> ELSE <<>>

\* insertAfter: the node leaves its place.  No node before it: to the front.
InsertAfter(dom, node, before) ==
  LET rest == Without(dom, {node}) IN
  SubSeq(rest, 1, Place(rest, before)) \o <<node>> \o SubSeq(rest, Place(rest, before) + 1, Len(rest))

\* The last of the rows before this one that has a node already.
NodeBefore(rows, at) ==
  LET old == {i \in 1 .. at - 1 : ~rows[i].new} IN IF old = {} THEN <<>> ELSE <<rows[Max(old)].row>>

MoveFirst(dom, result) ==
  FoldLeft(LAMBDA d, i : InsertAfter(d, result.rows[i].row, NodeBefore(result.rows, i)), dom, result.first)

LastMoved(result) == IF result.first = <<>> THEN <<>> ELSE <<result.rows[Last(result.first)].row>>

\* The nodes of the rows are put in their order, each behind the one before it
\* unless it is there already.  The first one has the node that was moved last
\* before it, wherever that is.
PutNext(acc, node) ==
  LET dom == IF acc.next = <<node>> THEN acc.dom ELSE InsertAfter(acc.dom, node, acc.last)
  IN [dom |-> dom, last |-> <<node>>, next |-> NextSibling(dom, <<node>>)]

PutInOrder(dom, last, nodes) ==
  FoldLeft(PutNext, [dom |-> dom, last |-> last, next |-> NextSibling(dom, <<>>)], nodes).dom

\* The nodes in the document once the script is followed; the node of a new
\* row is node[value].
NodeOf(row, node) == IF row.new THEN node[row.row] ELSE row.row

Rearranged(dom, result, node) ==
  PutInOrder(MoveFirst(Without(dom, result.gone), result), LastMoved(result),
             [i \in 1 .. Len(result.rows) |-> NodeOf(result.rows[i], node)])

=============================================================================
