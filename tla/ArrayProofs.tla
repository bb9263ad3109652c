------------------------------- MODULE ArrayProofs -------------------------------
(***************************************************************************)
(* Theorems about how the tables of the management site follow an array    *)
(* that changes (ArrayChanges), for arrays of any length: what the script  *)
(* of a change tells of the two contents, which of its entries are moves,  *)
(* and what is in the document once foreach has followed it.               *)
(***************************************************************************)
EXTENDS ArrayChanges, FiniteSetTheorems, SequenceTheorems, TLAPS

-----------------------------------------------------------------------------
(* Induction, as a fact about sets of natural numbers.                     *)

\* Every set of natural numbers that has a member has a smallest one.
LEMMA SmallestMember ==
  ASSUME NEW T \in SUBSET Nat, T # {}
  PROVE  \E n \in T : \A m \in T : n <= m
<1> DEFINE R == OpToRel(<, Nat)
<1>1. IsWellFoundedOn(R, Nat)
  BY NatLessThanWellFounded
<1>2. R = {ss \in Nat \X Nat : ss[1] < ss[2]}
  BY DEF OpToRel
<1> HIDE DEF R
<1>3. PICK n \in T : \A m \in T : ~ (<<m, n>> \in R)
  BY <1>1, WFMin
<1>4. ASSUME NEW m \in T PROVE n <= m
  <2>1. <<m, n>> \in Nat \X Nat /\ <<m, n>> \notin R
    BY <1>3
  <2>2. ~ (<<m, n>>[1] < <<m, n>>[2])
    BY <1>2, <2>1
  <2>3. QED
    BY <2>2
<1>5. QED
  BY <1>4

\* A set that has 0, and with n also n + 1, has every natural number.
LEMMA SetInduction ==
  ASSUME NEW S, 0 \in S, \A n \in Nat : n \in S => n + 1 \in S
  PROVE  Nat \subseteq S
<1> SUFFICES ASSUME Nat \ S # {} PROVE FALSE
  OBVIOUS
<1>1. PICK n \in Nat \ S : \A m \in Nat \ S : n <= m
  BY SmallestMember
<1>2. n - 1 \in Nat /\ n - 1 \in S
  BY <1>1
<1>3. QED
  BY <1>1, <1>2

\* The largest number of a set is its last one.
LEMMA LargestMember ==
  ASSUME NEW k \in Nat, NEW t \in SUBSET (1..(k + 1)), k + 1 \in t
  PROVE  (CHOOSE i \in t : \A j \in t : i >= j) = k + 1
<1>1. \A x \in t : k + 1 >= x
  OBVIOUS
<1>2. \A x \in t : (\A y \in t : x >= y) => x = k + 1
  OBVIOUS
<1> QED
  BY <1>1, <1>2

-----------------------------------------------------------------------------
(* What a fold over a sequence computes: the last of the values that begin *)
(* with the base and follow from one another, one for each item.           *)

\* The steps of the folds of ArrayChanges, and what each knows of its context.
Step(kind, acc, p, q, r, u, x) ==
  IF kind = "match" THEN Matched(acc, p, q, r, u, x)
  ELSE IF kind = "splice" THEN acc \o SplicedAt(p, q, r, u, x)
  ELSE IF kind = "follow" THEN ApplyEntry(acc, p, x)
  ELSE IF kind = "leave" THEN (IF x \in p THEN acc ELSE Append(acc, x))
  ELSE IF kind = "move" THEN InsertAfter(acc, p.rows[x].row, NodeBefore(p.rows, x))
  ELSE PutNext(acc, x)

\* FoldLeft, as the definitions of the community modules unfold.
Iterate(h, kind, base, p, q, r, u, s, D) ==
  [t \in SUBSET D |->
    IF t = {} THEN base
    ELSE LET x == CHOOSE i \in t : \A j \in t : i >= j IN Step(kind, h[t \ {x}], p, q, r, u, s[x])]

Folded(kind, base, p, q, r, u, s) ==
  (CHOOSE h : h = Iterate(h, kind, base, p, q, r, u, s, DOMAIN s))[DOMAIN s]

\* "acc" has what is reached after every item, and 0 has the base.
InSteps(acc, kind, base, p, q, r, u, s) ==
  /\ acc[0] = base
  /\ \A k \in DOMAIN s : acc[k] = Step(kind, acc[k - 1], p, q, r, u, s[k])

\* The recursion has a solution: one step after the other.
LEMMA Iterates ==
  ASSUME NEW n \in Nat, NEW kind, NEW base, NEW p, NEW q, NEW r, NEW u, NEW s
  PROVE  \E h : h = Iterate(h, kind, base, p, q, r, u, s, 1..n)
<1> DEFINE Pass(h, k) == Iterate(h, kind, base, p, q, r, u, s, 1..k)
           largest(t) == CHOOSE i \in t : \A j \in t : i >= j
           Reached == {k \in Nat : \E h : h = Pass(h, k)}
<1>1. 0 \in Reached
  <2> DEFINE h == [t \in SUBSET (1..0) |-> base]
  <2>1. SUBSET (1..0) = {{}}
    OBVIOUS
  <2>2. h = Pass(h, 0)
    BY <2>1 DEF Iterate
  <2> QED
    BY <2>2
<1>2. ASSUME NEW k \in Nat, k \in Reached PROVE k + 1 \in Reached
  <2>1. PICK g : g = Pass(g, k)
    BY <1>2
  <2> DEFINE h == [t \in SUBSET (1..(k + 1)) |->
                     IF k + 1 \in t THEN Step(kind, g[t \ {k + 1}], p, q, r, u, s[k + 1]) ELSE g[t]]
  <2>2. ASSUME NEW t \in SUBSET (1..(k + 1)), k + 1 \notin t PROVE h[t] = g[t] /\ t \in SUBSET (1..k)
    BY <2>2
  <2> HIDE DEF h
  <2>3. ASSUME NEW t \in SUBSET (1..(k + 1)) PROVE h[t] = Pass(h, k + 1)[t]
    <3>1. CASE k + 1 \in t
      <4>1. largest(t) = k + 1
        BY <3>1, LargestMember
      <4>2. h[t \ {k + 1}] = g[t \ {k + 1}]
        BY <2>2
      <4>3. h[t] = Step(kind, g[t \ {k + 1}], p, q, r, u, s[k + 1])
        BY <3>1 DEF h
      <4> QED
        BY <3>1, <4>1, <4>2, <4>3 DEF Iterate
    <3>2. CASE k + 1 \notin t /\ t # {}
      <4>1. h[t] = g[t] /\ t \in SUBSET (1..k)
        BY <2>2, <3>2
      <4>2. g[t] = Step(kind, g[t \ {largest(t)}], p, q, r, u, s[largest(t)])
        BY <2>1, <3>2, <4>1 DEF Iterate
      <4>3. h[t \ {largest(t)}] = g[t \ {largest(t)}]
        BY <2>2, <3>2
      <4> QED
        BY <3>2, <4>1, <4>2, <4>3 DEF Iterate
    <3>3. CASE t = {}
      <4>1. h[t] = g[t] /\ t \in SUBSET (1..k)
        BY <2>2, <3>3
      <4> QED
        BY <2>1, <3>3, <4>1 DEF Iterate
    <3> QED
      BY <3>1, <3>2, <3>3
  <2>4. h = [t \in SUBSET (1..(k + 1)) |-> h[t]]
    BY DEF h
  <2>5. h = Pass(h, k + 1)
    BY <2>3, <2>4 DEF Iterate
  <2> QED
    BY <2>5
<1>3. n \in Reached
  <2> HIDE DEF Reached
  <2> QED
    BY <1>1, <1>2, SetInduction
<1> QED
  BY <1>3

\* A fold over a sequence goes through it, from the first item to the last.
LEMMA FoldedInSteps ==
  ASSUME NEW n \in Nat, NEW kind, NEW base, NEW p, NEW q, NEW r, NEW u, NEW s, DOMAIN s = 1..n
  PROVE  \E acc : InSteps(acc, kind, base, p, q, r, u, s) /\ acc[n] = Folded(kind, base, p, q, r, u, s)
<1> DEFINE iter == CHOOSE h : h = Iterate(h, kind, base, p, q, r, u, s, DOMAIN s)
<1>1. iter = Iterate(iter, kind, base, p, q, r, u, s, 1..n)
  BY Iterates
<1>2. Folded(kind, base, p, q, r, u, s) = iter[1..n]
  BY DEF Folded
<1> HIDE DEF iter
<1> DEFINE acc == [k \in 0..n |-> iter[1..k]]
<1>3. acc[0] = base
  <2>1. 1..0 = {} /\ {} \in SUBSET (1..n) /\ 0 \in 0..n
    OBVIOUS
  <2>2. iter[{}] = base
    BY <1>1, <2>1 DEF Iterate
  <2> QED
    BY <2>1, <2>2
<1>4. ASSUME NEW k \in 1..n PROVE acc[k] = Step(kind, acc[k - 1], p, q, r, u, s[k])
  <2> DEFINE largest == CHOOSE i \in 1..k : \A j \in 1..k : i >= j
  <2>1. k - 1 \in Nat /\ (k - 1) + 1 = k /\ k - 1 \in 0..n /\ k \in 0..n
    OBVIOUS
  <2>2. largest = k
    BY <2>1, LargestMember
  <2>3. k \in 1..k /\ 1..k \in SUBSET (1..n)
    OBVIOUS
  <2>4. (1..k) \ {k} = 1..(k - 1)
    <3>1. \A x : x \in (1..k) \ {k} <=> x \in 1..(k - 1)
      OBVIOUS
    <3> QED
      BY <3>1
  <2>5. iter[1..k] = Step(kind, iter[(1..k) \ {largest}], p, q, r, u, s[largest])
    BY <1>1, <2>3 DEF Iterate
  <2> QED
    BY <2>1, <2>2, <2>4, <2>5
<1>5. acc[n] = Folded(kind, base, p, q, r, u, s)
  BY <1>2
<1> HIDE DEF acc
<1> QED
  BY <1>3, <1>4, <1>5 DEF InSteps, Step

LEMMA SmallestOf ==
  ASSUME NEW T \in SUBSET Nat, T # {}
  PROVE  Min(T) \in T /\ \A m \in T : Min(T) <= m
<1>1. \E n \in T : \A m \in T : n <= m
  BY SmallestMember
<1> QED
  BY <1>1 DEF Min

LEMMA MatchingSteps ==
  ASSUME NEW script, NEW left, NEW right, NEW limit, NEW n \in Nat, n = Len(script)
  PROVE  \E acc : /\ acc[0] = [pairs |-> {}, failed |-> 0]
                  /\ \A k \in 1..n : acc[k] = Matched(acc[k - 1], script, left, right, limit, k)
                  /\ Matches(script, left, right, limit) = acc[n].pairs
<1> DEFINE base == [pairs |-> {}, failed |-> 0]
           s == [i \in 1..Len(script) |-> i]
           whole == FoldLeft(LAMBDA acc, i : Matched(acc, script, left, right, limit, i), base, s)
<1>1. Matches(script, left, right, limit) = whole.pairs
  BY DEF Matches
<1>2. whole = Folded("match", base, script, left, right, limit, s)
  <2> DEFINE P(h) == h = [t \in SUBSET DOMAIN s |->
                            IF t = {} THEN base
                            ELSE LET x == CHOOSE i \in t : \A j \in t : i >= j
                                 IN Matched(h[t \ {x}], script, left, right, limit, s[x])]
             Q(h) == h = Iterate(h, "match", base, script, left, right, limit, s, DOMAIN s)
  <2>1. \A h : P(h) <=> Q(h)
    BY DEF Iterate, Step
  <2>2. whole = (CHOOSE h : P(h))[DOMAIN s]
    BY DEF FoldLeft, MapThenFoldSet, Max
  <2>3. Folded("match", base, script, left, right, limit, s) = (CHOOSE h : Q(h))[DOMAIN s]
    BY DEF Folded
  <2> HIDE DEF P, Q
  <2>4. (CHOOSE h : P(h)) = (CHOOSE h : Q(h))
    BY <2>1, Zenon
  <2> QED
    BY <2>2, <2>3, <2>4
<1>3. PICK acc : /\ InSteps(acc, "match", base, script, left, right, limit, s)
                 /\ acc[n] = Folded("match", base, script, left, right, limit, s)
  <2>1. DOMAIN s = 1..n
    OBVIOUS
  <2> HIDE DEF s, base
  <2> QED
    BY <2>1, FoldedInSteps
<1> HIDE DEF whole
<1> QED
  BY <1>1, <1>2, <1>3 DEF InSteps, Step

ApplySteps(acc, last, script, length, n) ==
  /\ acc[0] = [rows |-> <<>>, next |-> 1, gone |-> {}, first |-> <<>>]
  /\ \A k \in 1..n : acc[k] = ApplyEntry(acc[k - 1], last, script[k])
  /\ ApplyScript(last, script, length) = Retain(acc[n], last, Before(Len(acc[n].rows), length))

LEMMA ApplyingSteps ==
  ASSUME NEW last, NEW script, NEW length, NEW n \in Nat, DOMAIN script = 1..n
  PROVE  \E acc : ApplySteps(acc, last, script, length, n)
<1> DEFINE base == [rows |-> <<>>, next |-> 1, gone |-> {}, first |-> <<>>]
           whole == FoldLeft(LAMBDA a, entry : ApplyEntry(a, last, entry), base, script)
<1>1. whole = Folded("follow", base, last, 0, 0, 0, script)
  <2> DEFINE P(h) == h = [t \in SUBSET DOMAIN script |->
                            IF t = {} THEN base
                            ELSE LET x == CHOOSE i \in t : \A j \in t : i >= j
                                 IN ApplyEntry(h[t \ {x}], last, script[x])]
             Q(h) == h = Iterate(h, "follow", base, last, 0, 0, 0, script, DOMAIN script)
  <2>1. \A h : P(h) <=> Q(h)
    BY DEF Iterate, Step
  <2>2. whole = (CHOOSE h : P(h))[DOMAIN script]
    BY DEF FoldLeft, MapThenFoldSet, Max
  <2>3. Folded("follow", base, last, 0, 0, 0, script) = (CHOOSE h : Q(h))[DOMAIN script]
    BY DEF Folded
  <2> HIDE DEF P, Q
  <2>4. (CHOOSE h : P(h)) = (CHOOSE h : Q(h))
    BY <2>1, Zenon
  <2> QED
    BY <2>2, <2>3, <2>4
<1>2. PICK acc : /\ InSteps(acc, "follow", base, last, 0, 0, 0, script)
                 /\ acc[n] = Folded("follow", base, last, 0, 0, 0, script)
  <2> HIDE DEF base
  <2> QED
    BY FoldedInSteps
<1>3. ApplyScript(last, script, length) = Retain(whole, last, Before(Len(whole.rows), length))
  BY DEF ApplyScript
<1> HIDE DEF whole
<1> QED
  BY <1>1, <1>2, <1>3 DEF InSteps, Step, ApplySteps

SpliceSteps(acc, array, start, count, args, n) ==
  /\ acc[0] = <<>>
  /\ \A k \in 1..n : acc[k] = acc[k - 1] \o SplicedAt(array, start, count, args, start + k - 1)
  /\ SpliceScript(array, start, count, args) = acc[n]

LEMMA SplicingSteps ==
  ASSUME NEW array, NEW start, NEW count, NEW args, NEW n \in Nat,
         n = ScriptEnd(array, start, count, args) - start
  PROVE  \E acc : SpliceSteps(acc, array, start, count, args, n)
<1> DEFINE end == ScriptEnd(array, start, count, args)
           s == [k \in 1..end - start |-> start + k - 1]
           whole == FoldLeft(LAMBDA script, i : script \o SplicedAt(array, start, count, args, i), <<>>, s)
<1>3. SpliceScript(array, start, count, args) = whole
  BY DEF SpliceScript
<1> HIDE DEF end
<1>1. whole = Folded("splice", <<>>, array, start, count, args, s)
  <2> DEFINE P(h) == h = [t \in SUBSET DOMAIN s |->
                            IF t = {} THEN <<>>
                            ELSE LET x == CHOOSE i \in t : \A j \in t : i >= j
                                 IN h[t \ {x}] \o SplicedAt(array, start, count, args, s[x])]
             Q(h) == h = Iterate(h, "splice", <<>>, array, start, count, args, s, DOMAIN s)
  <2>1. \A h : P(h) <=> Q(h)
    BY DEF Iterate, Step
  <2>2. whole = (CHOOSE h : P(h))[DOMAIN s]
    BY DEF FoldLeft, MapThenFoldSet, Max
  <2>3. Folded("splice", <<>>, array, start, count, args, s) = (CHOOSE h : Q(h))[DOMAIN s]
    BY DEF Folded
  <2> HIDE DEF P, Q
  <2>4. (CHOOSE h : P(h)) = (CHOOSE h : Q(h))
    BY <2>1, Zenon
  <2> QED
    BY <2>2, <2>3, <2>4
<1>4. DOMAIN s = 1..n
  BY DEF end
<1>2. PICK acc : /\ InSteps(acc, "splice", <<>>, array, start, count, args, s)
                 /\ acc[n] = Folded("splice", <<>>, array, start, count, args, s)
  <2> HIDE DEF s
  <2> QED
    BY <1>4, FoldedInSteps
<1> HIDE DEF whole
<1> QED
  BY <1>1, <1>2, <1>3, <1>4 DEF InSteps, Step, SpliceSteps

LeaveSteps(acc, dom, out, n) ==
  /\ acc[0] = <<>>
  /\ \A k \in 1..n : acc[k] = IF dom[k] \in out THEN acc[k - 1] ELSE Append(acc[k - 1], dom[k])
  /\ Without(dom, out) = acc[n]

LEMMA LeavingSteps ==
  ASSUME NEW dom, NEW out, NEW n \in Nat, DOMAIN dom = 1..n
  PROVE  \E acc : LeaveSteps(acc, dom, out, n)
<1> DEFINE whole == FoldLeft(LAMBDA left, x : IF x \in out THEN left ELSE Append(left, x), <<>>, dom)
<1>1. Without(dom, out) = whole
  BY DEF Without
<1>2. whole = Folded("leave", <<>>, out, 0, 0, 0, dom)
  <2> DEFINE P(h) == h = [t \in SUBSET DOMAIN dom |->
                            IF t = {} THEN <<>>
                            ELSE LET x == CHOOSE i \in t : \A j \in t : i >= j
                                 IN IF dom[x] \in out THEN h[t \ {x}] ELSE Append(h[t \ {x}], dom[x])]
             Q(h) == h = Iterate(h, "leave", <<>>, out, 0, 0, 0, dom, DOMAIN dom)
  <2>1. \A h : P(h) <=> Q(h)
    BY DEF Iterate, Step
  <2>2. whole = (CHOOSE h : P(h))[DOMAIN dom]
    BY DEF FoldLeft, MapThenFoldSet, Max
  <2>3. Folded("leave", <<>>, out, 0, 0, 0, dom) = (CHOOSE h : Q(h))[DOMAIN dom]
    BY DEF Folded
  <2> HIDE DEF P, Q
  <2>4. (CHOOSE h : P(h)) = (CHOOSE h : Q(h))
    BY <2>1, Zenon
  <2> QED
    BY <2>2, <2>3, <2>4
<1>3. PICK acc : /\ InSteps(acc, "leave", <<>>, out, 0, 0, 0, dom)
                 /\ acc[n] = Folded("leave", <<>>, out, 0, 0, 0, dom)
  BY FoldedInSteps
<1> HIDE DEF whole
<1> QED
  BY <1>1, <1>2, <1>3 DEF InSteps, Step, LeaveSteps

MoveSteps(acc, dom, result, n) ==
  /\ acc[0] = dom
  /\ \A k \in 1..n : acc[k] = InsertAfter(acc[k - 1], result.rows[result.first[k]].row,
                                         NodeBefore(result.rows, result.first[k]))
  /\ MoveFirst(dom, result) = acc[n]

LEMMA MovingSteps ==
  ASSUME NEW dom, NEW result, NEW n \in Nat, DOMAIN result.first = 1..n
  PROVE  \E acc : MoveSteps(acc, dom, result, n)
<1> DEFINE first == result.first
           whole == FoldLeft(LAMBDA d, i : InsertAfter(d, result.rows[i].row, NodeBefore(result.rows, i)), dom, first)
<1>1. MoveFirst(dom, result) = whole
  BY DEF MoveFirst
<1>2. whole = Folded("move", dom, result, 0, 0, 0, first)
  <2> DEFINE P(h) == h = [t \in SUBSET DOMAIN first |->
                            IF t = {} THEN dom
                            ELSE LET x == CHOOSE i \in t : \A j \in t : i >= j
                                 IN InsertAfter(h[t \ {x}], result.rows[first[x]].row, NodeBefore(result.rows, first[x]))]
             Q(h) == h = Iterate(h, "move", dom, result, 0, 0, 0, first, DOMAIN first)
  <2>1. \A h : P(h) <=> Q(h)
    BY DEF Iterate, Step
  <2>2. whole = (CHOOSE h : P(h))[DOMAIN first]
    BY DEF FoldLeft, MapThenFoldSet, Max
  <2>3. Folded("move", dom, result, 0, 0, 0, first) = (CHOOSE h : Q(h))[DOMAIN first]
    BY DEF Folded
  <2> HIDE DEF P, Q
  <2>4. (CHOOSE h : P(h)) = (CHOOSE h : Q(h))
    BY <2>1, Zenon
  <2> QED
    BY <2>2, <2>3, <2>4
<1>3. PICK acc : /\ InSteps(acc, "move", dom, result, 0, 0, 0, first)
                 /\ acc[n] = Folded("move", dom, result, 0, 0, 0, first)
  BY FoldedInSteps
<1> HIDE DEF whole
<1> QED
  BY <1>1, <1>2, <1>3 DEF InSteps, Step, MoveSteps

PutSteps(acc, dom, last, nodes, n) ==
  /\ acc[0] = [dom |-> dom, last |-> last, next |-> NextSibling(dom, <<>>)]
  /\ \A k \in 1..n : acc[k] = PutNext(acc[k - 1], nodes[k])
  /\ PutInOrder(dom, last, nodes) = acc[n].dom

LEMMA PuttingSteps ==
  ASSUME NEW dom, NEW last, NEW nodes, NEW n \in Nat, DOMAIN nodes = 1..n
  PROVE  \E acc : PutSteps(acc, dom, last, nodes, n)
<1> DEFINE base == [dom |-> dom, last |-> last, next |-> NextSibling(dom, <<>>)]
           whole == FoldLeft(PutNext, base, nodes)
<1>1. PutInOrder(dom, last, nodes) = whole.dom
  BY DEF PutInOrder
<1>2. whole = Folded("put", base, 0, 0, 0, 0, nodes)
  <2> DEFINE P(h) == h = [t \in SUBSET DOMAIN nodes |->
                            IF t = {} THEN base
                            ELSE LET x == CHOOSE i \in t : \A j \in t : i >= j
                                 IN PutNext(h[t \ {x}], nodes[x])]
             Q(h) == h = Iterate(h, "put", base, 0, 0, 0, 0, nodes, DOMAIN nodes)
  <2>1. \A h : P(h) <=> Q(h)
    BY DEF Iterate, Step
  <2>2. whole = (CHOOSE h : P(h))[DOMAIN nodes]
    BY DEF FoldLeft, MapThenFoldSet, Max
  <2>3. Folded("put", base, 0, 0, 0, 0, nodes) = (CHOOSE h : Q(h))[DOMAIN nodes]
    BY DEF Folded
  <2> HIDE DEF P, Q
  <2>4. (CHOOSE h : P(h)) = (CHOOSE h : Q(h))
    BY <2>1, Zenon
  <2> QED
    BY <2>2, <2>3, <2>4
<1>3. PICK acc : /\ InSteps(acc, "put", base, 0, 0, 0, 0, nodes)
                 /\ acc[n] = Folded("put", base, 0, 0, 0, 0, nodes)
  <2> HIDE DEF base
  <2> QED
    BY FoldedInSteps
<1> HIDE DEF whole
<1> QED
  BY <1>1, <1>2, <1>3 DEF InSteps, Step, PutSteps

-----------------------------------------------------------------------------
(* Which entries of a script are moves (findMovesInArrayComparison).       *)

\* The pairs are entries of the two kinds with the same value, and no entry
\* is in two pairs.
IsMatching(pairs, script, left, right) ==
  /\ \A m \in pairs : \E i, j \in DOMAIN script : /\ m = <<i, j>>
                                                /\ script[i].status = left /\ script[j].status = right
                                                /\ script[i].value = script[j].value
  /\ \A m, o \in pairs : m[1] = o[1] <=> m[2] = o[2]

\* No entry up to the k-th one could be matched with one that is not.
IsMaximal(pairs, script, left, right, k) ==
  \A i \in 1..k, j \in DOMAIN script :
    /\ script[i].status = left /\ script[j].status = right
    /\ \A m \in pairs : m[1] # i /\ m[2] # j
    => script[i].value # script[j].value

\* The search, after the k-th entry.
SearchedTo(acc, script, left, right, k) ==
  /\ acc = [pairs |-> acc.pairs, failed |-> acc.failed]
  /\ IsMatching(acc.pairs, script, left, right)
  /\ \A m \in acc.pairs : m[1] \in 1..k

LEMMA MatchedOnce ==
  ASSUME NEW n \in Nat, NEW script, DOMAIN script = 1..n, NEW left, NEW right, NEW limit \in Nat,
         NEW k \in 1..n, NEW acc, SearchedTo(acc, script, left, right, k - 1),
         NEW next, next = Matched(acc, script, left, right, limit, k)
  PROVE  /\ SearchedTo(next, script, left, right, k)
         /\ limit = NoLimit \/ (acc.failed \in Nat /\ acc.failed < limit)
              => (IsMaximal(acc.pairs, script, left, right, k - 1) => IsMaximal(next.pairs, script, left, right, k))
<1>0. /\ acc = [pairs |-> acc.pairs, failed |-> acc.failed]
      /\ IsMatching(acc.pairs, script, left, right)
      /\ \A m \in acc.pairs : m[1] \in 1..(k - 1)
  BY DEF SearchedTo
<1> DEFINE free == {j \in DOMAIN script : script[j].status = right /\ \A m \in acc.pairs : m[2] # j}
           same == {j \in free : script[j].value = script[k].value}
           stops == script[k].status # left \/ (limit # NoLimit /\ acc.failed >= limit)
<1>1. stops => next = acc
  BY DEF Matched
<1>2. ~stops /\ same = {} => next = [acc EXCEPT !.failed = @ + Cardinality(free)]
  BY DEF Matched
<1>3. ~stops /\ same # {} => next = [pairs |-> acc.pairs \cup {<<k, Min(same)>>}, failed |-> 0]
  BY DEF Matched
<1>4. same # {} => Min(same) \in same
  <2>1. same \in SUBSET Nat
    OBVIOUS
  <2> HIDE DEF same
  <2> QED
    BY <2>1, SmallestOf
<1>5. CASE stops \/ same = {}
  <2>1. next.pairs = acc.pairs /\ next = [pairs |-> next.pairs, failed |-> next.failed]
    <3>1. CASE stops
      <4> HIDE DEF stops
      <4> QED
        BY <1>0, <1>1, <3>1
    <3>2. CASE ~stops /\ same = {}
      <4> DEFINE size == acc.failed + Cardinality(free)
      <4>1. next = [acc EXCEPT !.failed = size]
        <5> HIDE DEF stops, same
        <5> QED
          BY <1>2, <3>2
      <4> HIDE DEF size
      <4>2. next = [pairs |-> acc.pairs, failed |-> size]
        BY <1>0, <4>1
      <4> QED
        BY <4>2
    <3> QED
      BY <1>5, <3>1, <3>2
  <2>2. ASSUME limit = NoLimit \/ (acc.failed \in Nat /\ acc.failed < limit),
               IsMaximal(acc.pairs, script, left, right, k - 1)
        PROVE  IsMaximal(acc.pairs, script, left, right, k)
    <3>1. script[k].status = left => same = {}
      <4>1. script[k].status = left => ~stops
        BY <2>2
      <4> HIDE DEF stops, same
      <4> QED
        BY <1>5, <4>1
    <3>2. ASSUME NEW i \in 1..k, NEW j \in DOMAIN script, script[i].status = left, script[j].status = right,
                 \A m \in acc.pairs : m[1] # i /\ m[2] # j
          PROVE  script[i].value # script[j].value
      <4>1. CASE i = k
        BY <3>1, <3>2, <4>1
      <4>2. CASE i # k
        BY <2>2, <3>2, <4>2 DEF IsMaximal
      <4> QED
        BY <4>1, <4>2
    <3> QED
      BY <3>2 DEF IsMaximal
  <2>3. \A m \in acc.pairs : m[1] \in 1..k
    BY <1>0
  <2> HIDE DEF stops, same
  <2> QED
    BY <1>0, <2>1, <2>2, <2>3 DEF SearchedTo
<1>6. CASE ~stops /\ same # {}
  <2> DEFINE j == Min(same)
             pairs == acc.pairs \cup {<<k, j>>}
  <2>1. next = [pairs |-> pairs, failed |-> 0]
    <3> HIDE DEF stops, same
    <3> QED
      BY <1>3, <1>6
  <2>2. j \in DOMAIN script /\ script[j].status = right /\ script[j].value = script[k].value
        /\ script[k].status = left /\ \A m \in acc.pairs : m[2] # j
    BY <1>4, <1>6
  <2> HIDE DEF j
  <2>3. \A m \in acc.pairs : m[1] # k
    BY <1>0
  <2>4. IsMatching(pairs, script, left, right)
    BY <1>0, <2>2, <2>3 DEF IsMatching
  <2>5. \A m \in pairs : m[1] \in 1..k
    BY <1>0
  <2>6. ASSUME IsMaximal(acc.pairs, script, left, right, k - 1)
        PROVE  IsMaximal(pairs, script, left, right, k)
    <3> SUFFICES ASSUME NEW i \in 1..k, NEW l \in DOMAIN script,
                        script[i].status = left, script[l].status = right,
                        \A m \in pairs : m[1] # i /\ m[2] # l
                 PROVE  script[i].value # script[l].value
      BY DEF IsMaximal
    <3>1. i # k
      <4>1. <<k, j>> \in pairs /\ <<k, j>>[1] = k
        OBVIOUS
      <4> QED
        BY <4>1
    <3> QED
      BY <2>6, <3>1 DEF IsMaximal
  <2> HIDE DEF pairs
  <2>7. next.pairs = pairs /\ next = [pairs |-> next.pairs, failed |-> next.failed]
    BY <2>1
  <2> QED
    BY <2>4, <2>5, <2>6, <2>7 DEF SearchedTo
<1> QED
  BY <1>5, <1>6

\* The entries of the one kind are in the reverse order of their positions,
\* and there are at most ten of the other kind.
FewEntries(script, left, right, size) ==
  /\ \A i, j \in DOMAIN script :
       i < j /\ script[i].status = left /\ script[j].status = left => script[i].index > script[j].index
  /\ \A i \in DOMAIN script : script[i].status = left => script[i].index \in 1..size
  /\ \A i \in DOMAIN script : script[i].status = right => script[i].index \in 1..10
  /\ \A i, j \in DOMAIN script :
       script[i].status = right /\ script[j].status = right /\ script[i].index = script[j].index => i = j

\* Ten comparisons at most have failed for each entry so far.
FewFailed(acc, script, left, size, k) ==
  \E low \in 0..size : /\ acc.failed \in 0..(10 * (size - low))
                       /\ \A i \in DOMAIN script : i > k /\ script[i].status = left => script[i].index <= low

LEMMA FewAreFree ==
  ASSUME NEW n \in Nat, NEW script, DOMAIN script = 1..n, NEW left, NEW right, NEW size \in Nat,
         FewEntries(script, left, right, size), NEW free \in SUBSET (1..n),
         \A i \in free : script[i].status = right
  PROVE  Cardinality(free) \in 0..10
<1> DEFINE f == [i \in free |-> script[i].index]
<1>1. f \in [free -> 1..10]
  BY DEF FewEntries
<1>2. \A i, j \in free : f[i] = f[j] => i = j
  BY DEF FewEntries
<1>3. IsFiniteSet(free) /\ IsFiniteSet(1..10) /\ Cardinality(1..10) = 10
  <2>1. IsFiniteSet(1..n) /\ IsFiniteSet(1..10) /\ Cardinality(1..10) = 10
    <3>1. 0 \in Int /\ 1 \in Int /\ 10 \in Int /\ n \in Int
      OBVIOUS
    <3>2. IsFiniteSet(1..n) /\ IsFiniteSet(1..10) /\ Cardinality(1..10) = IF 1 > 10 THEN 0 ELSE (10 - 1) + 1
      BY <3>1, FS_Interval, Zenon
    <3> QED
      BY <3>2
  <2> QED
    BY <2>1, FS_Subset
<1>4. f \in Injection(free, 1..10)
  BY <1>1, <1>2 DEF Injection, IsInjective
<1>5. Cardinality(free) <= Cardinality(1..10)
  BY <1>3, <1>4, FS_Injection
<1> QED
  BY <1>3, <1>5, FS_CardinalityType

LEMMA TenMore ==
  ASSUME NEW c \in Int, NEW d \in Int, d >= c + 1, NEW a, NEW b, a \in 0..(10 * c), b \in 0..10
  PROVE  a + b \in 0..(10 * d)
OBVIOUS

LEMMA FailedOnce ==
  ASSUME NEW n \in Nat, NEW script, DOMAIN script = 1..n, NEW left, NEW right, NEW size \in Nat,
         FewEntries(script, left, right, size), NEW k \in 1..n, NEW acc,
         acc = [pairs |-> acc.pairs, failed |-> acc.failed],
         FewFailed(acc, script, left, size, k - 1),
         NEW next, next = Matched(acc, script, left, right, 10 * size, k)
  PROVE  /\ FewFailed(next, script, left, size, k)
         /\ script[k].status = left => acc.failed \in Nat /\ acc.failed < 10 * size
<1> DEFINE free == {j \in DOMAIN script : script[j].status = right /\ \A m \in acc.pairs : m[2] # j}
           same == {j \in free : script[j].value = script[k].value}
           stops == script[k].status # left \/ (10 * size # NoLimit /\ acc.failed >= 10 * size)
<1>1. stops => next = acc
  BY DEF Matched
<1>2. ~stops /\ same = {} => next = [acc EXCEPT !.failed = @ + Cardinality(free)]
  BY DEF Matched
<1>3. ~stops /\ same # {} => next = [pairs |-> acc.pairs \cup {<<k, Min(same)>>}, failed |-> 0]
  BY DEF Matched
<1>4. Cardinality(free) \in 0..10
  BY FewAreFree, SMTT(40)
<1> HIDE DEF same
<1>5. PICK low \in 0..size : /\ acc.failed \in 0..(10 * (size - low))
                           /\ \A i \in DOMAIN script : i > k - 1 /\ script[i].status = left => script[i].index <= low
  BY DEF FewFailed
<1>6. CASE script[k].status # left
  <2>1. next = acc
    BY <1>1, <1>6
  <2>2. \A i \in DOMAIN script : i > k /\ script[i].status = left => script[i].index <= low
    BY <1>5
  <2> QED
    BY <1>5, <1>6, <2>1, <2>2 DEF FewFailed
<1>7. CASE script[k].status = left
  <2> DEFINE x == script[k].index
  <2>1. x \in 1..size /\ x <= low /\ x - 1 \in 0..size
    BY <1>5, <1>7 DEF FewEntries
  <2>2. \A i \in DOMAIN script : i > k /\ script[i].status = left => script[i].index \in Nat /\ script[i].index < x
    BY <1>7 DEF FewEntries
  <2>3. \A i \in DOMAIN script : i > k /\ script[i].status = left => script[i].index <= x - 1
    BY <2>1, <2>2
  <2> HIDE DEF x
  <2>4. acc.failed \in Nat /\ acc.failed < 10 * size
    BY <1>5, <2>1
  <2>5. ~stops
    BY <1>7, <2>4 DEF NoLimit
  <2> DEFINE more == acc.failed + Cardinality(free)
  <2>6. more \in 0..(10 * (size - (x - 1)))
    <3> DEFINE a == acc.failed
               b == Cardinality(free)
               c == size - low
               d == size - (x - 1)
    <3>1. a \in 0..(10 * c) /\ b \in 0..10
      BY <1>4, <1>5
    <3>2. c \in Int /\ d \in Int /\ d >= c + 1
      BY <2>1
    <3> HIDE DEF a, b, c, d
    <3>3. a + b \in 0..(10 * d)
      BY <3>1, <3>2, TenMore
    <3> QED
      BY <3>3 DEF a, b, d
  <2>7. next.failed = more \/ next.failed = 0
    <3>1. ~stops /\ same = {} => next = [acc EXCEPT !.failed = more]
      BY <1>2
    <3> HIDE DEF more, free, stops
    <3>2. CASE same = {}
      <4>1. next = [acc EXCEPT !.failed = more]
        BY <2>5, <3>1, <3>2
      <4>2. next = [pairs |-> acc.pairs, failed |-> more]
        BY <4>1
      <4> QED
        BY <4>2
    <3>3. CASE same # {}
      BY <1>3, <2>5, <3>3
    <3> QED
      BY <3>2, <3>3
  <2> HIDE DEF more, free, stops
  <2>8. next.failed \in 0..(10 * (size - (x - 1)))
    BY <2>1, <2>6, <2>7
  <2> QED
    BY <2>1, <2>3, <2>4, <2>8 DEF FewFailed
<1> QED
  BY <1>6, <1>7

\* What findMovesInArrayComparison matches: with no limit, or with one that a
\* few entries do not reach, it misses no pair.
LEMMA MatchesFound ==
  ASSUME NEW n \in Nat, NEW script, DOMAIN script = 1..n, Len(script) = n, NEW left, NEW right, NEW limit \in Nat,
         NEW pairs, pairs = Matches(script, left, right, limit)
  PROVE  /\ IsMatching(pairs, script, left, right)
         /\ limit = NoLimit \/ (\E size \in Nat : limit = 10 * size /\ FewEntries(script, left, right, size))
              => IsMaximal(pairs, script, left, right, n)
<1>1. PICK acc : /\ acc[0] = [pairs |-> {}, failed |-> 0]
                 /\ \A k \in 1..n : acc[k] = Matched(acc[k - 1], script, left, right, limit, k)
                 /\ Matches(script, left, right, limit) = acc[n].pairs
  <2>1. n = Len(script)
    OBVIOUS
  <2> QED
    BY <2>1, MatchingSteps
<1> DEFINE Few(size) == limit = 10 * size /\ FewEntries(script, left, right, size)
           Ample == limit = NoLimit \/ (\E size \in Nat : Few(size))
           Good(k) == /\ SearchedTo(acc[k], script, left, right, k)
                      /\ Ample => IsMaximal(acc[k].pairs, script, left, right, k)
                      /\ \A size \in Nat : Few(size) => FewFailed(acc[k], script, left, size, k)
           S == {k \in Nat : k <= n => Good(k)}
<1>2. 0 \in S
  <2>1. acc[0].pairs = {} /\ acc[0] = [pairs |-> acc[0].pairs, failed |-> acc[0].failed] /\ acc[0].failed = 0
    BY <1>1
  <2>2. SearchedTo(acc[0], script, left, right, 0) /\ IsMaximal(acc[0].pairs, script, left, right, 0)
    BY <2>1 DEF IsMatching, IsMaximal, SearchedTo
  <2>3. ASSUME NEW size \in Nat, Few(size) PROVE FewFailed(acc[0], script, left, size, 0)
    <3>1. size \in 0..size /\ acc[0].failed \in 0..(10 * (size - size))
      BY <2>1
    <3>2. \A i \in DOMAIN script : script[i].status = left => script[i].index <= size
      BY <2>3 DEF FewEntries
    <3> QED
      BY <3>1, <3>2 DEF FewFailed
  <2> HIDE DEF Few, Ample
  <2> QED
    BY <2>2, <2>3
<1>3. ASSUME NEW k \in Nat, k \in S PROVE k + 1 \in S
  <2> SUFFICES ASSUME k + 1 <= n PROVE Good(k + 1)
    <3> HIDE DEF Good
    <3> QED
      OBVIOUS
  <2>1. Good(k) /\ k + 1 \in 1..n /\ (k + 1) - 1 = k
    <3> HIDE DEF Good
    <3> QED
      BY <1>3
  <2>2. acc[k + 1] = Matched(acc[k], script, left, right, limit, k + 1)
    BY <1>1, <2>1
  <2>3. SearchedTo(acc[k], script, left, right, (k + 1) - 1)
    BY <2>1
  <2>4. /\ SearchedTo(acc[k + 1], script, left, right, k + 1)
        /\ limit = NoLimit \/ (acc[k].failed \in Nat /\ acc[k].failed < limit)
             => (IsMaximal(acc[k].pairs, script, left, right, (k + 1) - 1)
                  => IsMaximal(acc[k + 1].pairs, script, left, right, k + 1))
    <3> HIDE DEF Good
    <3> QED
      BY <2>1, <2>2, <2>3, MatchedOnce
  <2>5. acc[k] = [pairs |-> acc[k].pairs, failed |-> acc[k].failed]
    BY <2>1 DEF SearchedTo
  <2>6. ASSUME NEW size \in Nat, Few(size)
        PROVE  /\ FewFailed(acc[k + 1], script, left, size, k + 1)
               /\ script[k + 1].status = left => acc[k].failed \in Nat /\ acc[k].failed < 10 * size
    <3>1. FewFailed(acc[k], script, left, size, (k + 1) - 1)
      BY <2>1, <2>6
    <3>2. FewEntries(script, left, right, size) /\ acc[k + 1] = Matched(acc[k], script, left, right, 10 * size, k + 1)
      BY <2>2, <2>6
    <3> HIDE DEF Good, Few
    <3> QED
      BY <2>1, <2>5, <3>1, <3>2, FailedOnce
  <2>7. ASSUME Ample PROVE IsMaximal(acc[k + 1].pairs, script, left, right, k + 1)
    <3>1. IsMaximal(acc[k].pairs, script, left, right, (k + 1) - 1)
      BY <2>1, <2>7
    <3>2. CASE limit = NoLimit
      BY <2>4, <3>1, <3>2
    <3>3. CASE \E size \in Nat : Few(size)
      <4>1. PICK size \in Nat : Few(size)
        BY <3>3
      <4>2. script[k + 1].status = left => acc[k].failed \in Nat /\ acc[k].failed < limit
        BY <2>6, <4>1
      <4>3. CASE script[k + 1].status = left
        BY <2>4, <3>1, <4>2, <4>3
      <4>4. CASE script[k + 1].status # left
        <5>1. acc[k + 1] = acc[k]
          BY <2>2, <4>4 DEF Matched
        <5> QED
          BY <2>1, <3>1, <4>4, <5>1 DEF IsMaximal
      <4> QED
        BY <4>3, <4>4
    <3> QED
      BY <2>7, <3>2, <3>3
  <2> HIDE DEF Few, Ample
  <2> QED
    BY <2>4, <2>6, <2>7
<1>4. n \in S
  <2> HIDE DEF S
  <2> QED
    BY <1>2, <1>3, SetInduction
<1>5. Good(n)
  BY <1>4
<1> HIDE DEF Few
<1> QED
  BY <1>1, <1>5 DEF SearchedTo, Few

\* Entries without marks.
Plain(script) == \A i \in DOMAIN script : \E v, k : script[i] = Added(v, k) \/ script[i] = Deleted(v, k)

\* No two entries of one kind have the same position.
OncePerSide(script) ==
  \A i, j \in DOMAIN script :
    script[i].status = script[j].status /\ script[i].index = script[j].index => i = j

\* The place that an entry has in a move.
Side(entry) == IF entry.status = "deleted" THEN 1 ELSE 2

\* The moves relate a deletion and an addition of the same value, each of them
\* once.
AreMoves(moves, script) ==
  /\ \A m \in moves : \E i, j \in DOMAIN script : /\ m = <<script[i].index, script[j].index>>
                                                /\ script[i].status = "deleted" /\ script[j].status = "added"
                                                /\ script[i].value = script[j].value
  /\ \A m, o \in moves : m[1] = o[1] <=> m[2] = o[2]

\* A deletion and an addition that are in no move have different values.
AllMoves(moves, script) ==
  \A i, j \in DOMAIN script :
    /\ script[i].status = "deleted" /\ script[j].status = "added"
    /\ \A m \in moves : m[1] # script[i].index /\ m[2] # script[j].index
    => script[i].value # script[j].value

\* What the marks change, and what they do not.
LEMMA MarkedEntries ==
  ASSUME NEW n \in Nat, NEW script, DOMAIN script = 1..n, Len(script) = n, Plain(script), NEW moves,
         NEW marked, marked = MarkMoves(script, moves)
  PROVE  /\ DOMAIN marked = 1..n
         /\ \A i \in 1..n :
              /\ marked[i].status = script[i].status
              /\ marked[i].index = script[i].index
              /\ marked[i].value = script[i].value
              /\ (\A m \in moves : m[Side(script[i])] # script[i].index) => marked[i].moved = NotMoved
              /\ (\E m \in moves : m[Side(script[i])] = script[i].index)
                   => \E m \in moves : m[Side(script[i])] = script[i].index
                                       /\ marked[i].moved = m[3 - Side(script[i])]
<1> DEFINE move(entry) == {m \in moves : m[Side(entry)] = entry.index}
           Mark(entry) == IF move(entry) = {} THEN entry
                          ELSE [entry EXCEPT !.moved = (CHOOSE m \in move(entry) : TRUE)[3 - Side(entry)]]
<1>1. marked = [i \in 1..n |-> Mark(script[i])]
  BY DEF MarkMoves, Side
<1>2. ASSUME NEW i \in 1..n
      PROVE  /\ marked[i].status = script[i].status
             /\ marked[i].index = script[i].index
             /\ marked[i].value = script[i].value
             /\ move(script[i]) = {} => marked[i].moved = NotMoved
             /\ move(script[i]) # {} => \E m \in move(script[i]) : marked[i].moved = m[3 - Side(script[i])]
  <2> DEFINE entry == script[i]
  <2>1. PICK v, k : entry = Added(v, k) \/ entry = Deleted(v, k)
    BY DEF Plain
  <2>2. marked[i] = Mark(entry)
    <3> HIDE DEF Mark
    <3> QED
      BY <1>1
  <2> HIDE DEF entry
  <2> DEFINE m == CHOOSE t \in move(entry) : TRUE
             other == m[3 - Side(entry)]
  <2>3. move(entry) = {} => marked[i] = entry
    BY <2>2
  <2>4. move(entry) # {} => m \in move(entry) /\ marked[i] = [entry EXCEPT !.moved = other]
    BY <2>2
  <2>5. /\ entry.moved = NotMoved
        /\ \A t : LET e == [entry EXCEPT !.moved = t] IN
                  e.status = entry.status /\ e.index = entry.index /\ e.value = entry.value /\ e.moved = t
    BY <2>1 DEF Added, Deleted
  <2> HIDE DEF move, m, other
  <2>6. move(entry) # {} => /\ marked[i].status = entry.status /\ marked[i].index = entry.index
                           /\ marked[i].value = entry.value /\ marked[i].moved = other
    BY <2>4, <2>5
  <2>7. move(entry) # {} => \E t \in move(entry) : marked[i].moved = t[3 - Side(entry)]
    BY <2>4, <2>6 DEF other
  <2> QED
    BY <2>3, <2>5, <2>6, <2>7 DEF entry
<1>3. DOMAIN marked = 1..n
  BY <1>1
<1> HIDE DEF Mark
<1> QED
  BY <1>2, <1>3

\* Marks of moves pair deletions with additions.
LEMMA MarksPair ==
  ASSUME NEW n \in Nat, NEW script, DOMAIN script = 1..n, Len(script) = n, Plain(script),
         OncePerSide(script), NEW moves, AreMoves(moves, script)
  PROVE  /\ MovesPair(MarkMoves(script, moves))
         /\ AllMoves(moves, script) /\ (\A k \in 1..n : script[k].index # NotMoved)
              => NoMoveMissed(MarkMoves(script, moves))
<1> DEFINE marked == MarkMoves(script, moves)
<1>1. /\ DOMAIN marked = 1..n
      /\ \A i \in 1..n :
           /\ marked[i].status = script[i].status
           /\ marked[i].index = script[i].index
           /\ marked[i].value = script[i].value
           /\ (\A m \in moves : m[Side(script[i])] # script[i].index) => marked[i].moved = NotMoved
           /\ (\E m \in moves : m[Side(script[i])] = script[i].index)
                => \E m \in moves : m[Side(script[i])] = script[i].index
                                    /\ marked[i].moved = m[3 - Side(script[i])]
  BY MarkedEntries
<1> HIDE DEF marked
<1>2. \A i \in 1..n : script[i].status \in {"added", "deleted"}
  BY DEF Plain, Added, Deleted
<1>3. ASSUME NEW i \in 1..n, marked[i].moved # NotMoved
      PROVE  \E j \in 1..n : /\ marked[j].status # marked[i].status
                             /\ marked[j].value = marked[i].value
                             /\ marked[j].index = marked[i].moved
                             /\ marked[j].moved = marked[i].index
  <2>1. PICK m \in moves : m[Side(script[i])] = script[i].index /\ marked[i].moved = m[3 - Side(script[i])]
    BY <1>1, <1>3
  <2>2. PICK d, a \in 1..n : /\ m = <<script[d].index, script[a].index>>
                            /\ script[d].status = "deleted" /\ script[a].status = "added"
                            /\ script[d].value = script[a].value
    BY DEF AreMoves
  <2>3. m[1] = script[d].index /\ m[2] = script[a].index
    BY <2>2
  <2>4. CASE script[i].status = "deleted"
    <3>1. Side(script[i]) = 1 /\ 3 - Side(script[i]) = 2 /\ Side(script[a]) = 2 /\ 3 - Side(script[a]) = 1
      BY <2>2, <2>4 DEF Side
    <3>2. i = d
      BY <2>1, <2>2, <2>3, <2>4, <3>1 DEF OncePerSide
    <3>3. PICK o \in moves : o[2] = script[a].index /\ marked[a].moved = o[1]
      BY <1>1, <2>3, <3>1
    <3>4. o[1] = m[1]
      BY <2>3, <3>3 DEF AreMoves
    <3> QED
      BY <1>1, <2>1, <2>2, <2>3, <3>1, <3>2, <3>3, <3>4
  <2>5. CASE script[i].status = "added"
    <3>1. Side(script[i]) = 2 /\ 3 - Side(script[i]) = 1 /\ Side(script[d]) = 1 /\ 3 - Side(script[d]) = 2
      BY <2>2, <2>5 DEF Side
    <3>2. i = a
      BY <2>1, <2>2, <2>3, <2>5, <3>1 DEF OncePerSide
    <3>3. PICK o \in moves : o[1] = script[d].index /\ marked[d].moved = o[2]
      BY <1>1, <2>3, <3>1
    <3>4. o[2] = m[2]
      BY <2>3, <3>3 DEF AreMoves
    <3> QED
      BY <1>1, <2>1, <2>2, <2>3, <3>1, <3>2, <3>3, <3>4
  <2> QED
    BY <1>2, <2>4, <2>5
<1>4. ASSUME AllMoves(moves, script), NEW i \in 1..n, NEW j \in 1..n,
             script[i].status = "deleted", script[j].status = "added",
             marked[i].moved = NotMoved, marked[j].moved = NotMoved,
             \A k \in 1..n : script[k].index # NotMoved
      PROVE  script[i].value # script[j].value
  <2>1. Side(script[i]) = 1 /\ Side(script[j]) = 2 /\ 3 - 1 = 2 /\ 3 - 2 = 1
    BY <1>4 DEF Side
  <2>2. \A m \in moves : m[1] # NotMoved /\ m[2] # NotMoved
    BY <1>4 DEF AreMoves
  <2>3. \A m \in moves : m[1] # script[i].index
    BY <1>1, <1>4, <2>1, <2>2
  <2>4. \A m \in moves : m[2] # script[j].index
    BY <1>1, <1>4, <2>1, <2>2
  <2> QED
    BY <1>4, <2>3, <2>4 DEF AllMoves
<1>5. MovesPair(marked)
  <2>1. DOMAIN marked = 1..n
    BY <1>1
  <2> QED
    BY <1>3, <2>1, Zenon DEF MovesPair
<1>6. ASSUME AllMoves(moves, script), \A k \in 1..n : script[k].index # NotMoved,
             NEW i \in 1..n, NEW j \in 1..n, marked[i].status # marked[j].status,
             marked[i].moved = NotMoved, marked[j].moved = NotMoved
      PROVE  marked[i].value # marked[j].value
  <2>1. CASE script[i].status = "deleted" /\ script[j].status = "added"
    BY <1>1, <1>4, <1>6, <2>1
  <2>2. CASE script[j].status = "deleted" /\ script[i].status = "added"
    BY <1>1, <1>4, <1>6, <2>2
  <2> QED
    BY <1>1, <1>2, <1>6, <2>1, <2>2
<1> QED
  BY <1>1, <1>5, <1>6 DEF NoMoveMissed, marked

\* The search cannot give up.
Ample(script, left, right, limit) ==
  limit = NoLimit \/ \E size \in Nat : limit = 10 * size /\ FewEntries(script, left, right, size)

LEMMA MovesFound ==
  ASSUME NEW n \in Nat, NEW script, DOMAIN script = 1..n, Len(script) = n, OncePerSide(script),
         NEW limit \in Nat, NEW left, NEW right, NEW moves, moves = FindMoves(script, left, right, limit)
  PROVE  /\ \A m \in moves : \E i, j \in DOMAIN script : /\ m = <<script[i].index, script[j].index>>
                                                       /\ script[i].status = left /\ script[j].status = right
                                                       /\ script[i].value = script[j].value
         /\ \A m, o \in moves : m[1] = o[1] <=> m[2] = o[2]
         /\ Ample(script, left, right, limit)
              => \A i, j \in DOMAIN script :
                   /\ script[i].status = left /\ script[j].status = right
                   /\ \A m \in moves : m[1] # script[i].index /\ m[2] # script[j].index
                   => script[i].value # script[j].value
<1> DEFINE pairs == Matches(script, left, right, limit)
           at(m) == <<script[m[1]].index, script[m[2]].index>>
<1>1. moves = {at(m) : m \in pairs}
  BY DEF FindMoves
<1>2. /\ IsMatching(pairs, script, left, right)
      /\ Ample(script, left, right, limit) => IsMaximal(pairs, script, left, right, n)
  BY MatchesFound DEF Ample
<1> HIDE DEF pairs
<1>3. ASSUME NEW m \in pairs
      PROVE  /\ m[1] \in 1..n /\ m[2] \in 1..n
             /\ script[m[1]].status = left /\ script[m[2]].status = right
             /\ script[m[1]].value = script[m[2]].value
  <2>1. PICK i, j \in DOMAIN script : /\ m = <<i, j>>
                                     /\ script[i].status = left /\ script[j].status = right
                                     /\ script[i].value = script[j].value
    BY <1>2 DEF IsMatching
  <2>2. m[1] = i /\ m[2] = j
    BY <2>1
  <2> QED
    BY <2>1, <2>2
<1>4. ASSUME NEW m \in moves
      PROVE  \E i, j \in DOMAIN script : /\ m = <<script[i].index, script[j].index>>
                                         /\ script[i].status = left /\ script[j].status = right
                                         /\ script[i].value = script[j].value
  <2>1. PICK p \in pairs : m = at(p)
    BY <1>1
  <2> QED
    BY <1>3, <2>1
<1>5. ASSUME NEW m \in moves, NEW o \in moves PROVE m[1] = o[1] <=> m[2] = o[2]
  <2>1. PICK p, q \in pairs : m = at(p) /\ o = at(q)
    BY <1>1
  <2>2. p[1] = q[1] <=> p[2] = q[2]
    BY <1>2 DEF IsMatching
  <2>3. /\ m[1] = script[p[1]].index /\ m[2] = script[p[2]].index
        /\ o[1] = script[q[1]].index /\ o[2] = script[q[2]].index
    BY <2>1
  <2>4. m[1] = o[1] <=> p[1] = q[1]
    BY <1>3, <2>3 DEF OncePerSide
  <2>5. m[2] = o[2] <=> p[2] = q[2]
    BY <1>3, <2>3 DEF OncePerSide
  <2> QED
    BY <2>2, <2>4, <2>5
<1>6. ASSUME Ample(script, left, right, limit), NEW i \in 1..n, NEW j \in 1..n,
             script[i].status = left, script[j].status = right,
             \A m \in moves : m[1] # script[i].index /\ m[2] # script[j].index
      PROVE  script[i].value # script[j].value
  <2>1. ASSUME NEW p \in pairs PROVE p[1] # i /\ p[2] # j
    <3>1. at(p) \in moves /\ at(p)[1] = script[p[1]].index /\ at(p)[2] = script[p[2]].index
      BY <1>1
    <3> QED
      BY <1>6, <3>1
  <2> QED
    BY <1>2, <1>6, <2>1 DEF IsMaximal
<1> QED
  BY <1>4, <1>5, <1>6

\* The moves that a search finds are moves, whichever kind it starts from.
LEMMA FoundAreMoves ==
  ASSUME NEW n \in Nat, NEW script, DOMAIN script = 1..n, Len(script) = n, OncePerSide(script),
         NEW limit \in Nat, NEW grows \in BOOLEAN, NEW moves, moves = MovesIn(script, grows, limit)
  PROVE  /\ AreMoves(moves, script)
         /\ grows /\ Ample(script, "deleted", "added", limit) => AllMoves(moves, script)
         /\ ~grows /\ Ample(script, "added", "deleted", limit) => AllMoves(moves, script)
<1>1. CASE grows
  <2>1. moves = FindMoves(script, "deleted", "added", limit)
    BY <1>1 DEF MovesIn
  <2>2. /\ \A m \in moves : \E i, j \in DOMAIN script : /\ m = <<script[i].index, script[j].index>>
                                                       /\ script[i].status = "deleted" /\ script[j].status = "added"
                                                       /\ script[i].value = script[j].value
        /\ \A m, o \in moves : m[1] = o[1] <=> m[2] = o[2]
        /\ Ample(script, "deleted", "added", limit)
             => \A i, j \in DOMAIN script :
                  /\ script[i].status = "deleted" /\ script[j].status = "added"
                  /\ \A m \in moves : m[1] # script[i].index /\ m[2] # script[j].index
                  => script[i].value # script[j].value
    BY <2>1, MovesFound
  <2> QED
    BY <1>1, <2>2 DEF AreMoves, AllMoves
<1>2. CASE ~grows
  <2> DEFINE found == FindMoves(script, "added", "deleted", limit)
  <2>1. moves = {<<m[2], m[1]>> : m \in found}
    BY <1>2 DEF MovesIn
  <2>2. /\ \A m \in found : \E i, j \in DOMAIN script : /\ m = <<script[i].index, script[j].index>>
                                                       /\ script[i].status = "added" /\ script[j].status = "deleted"
                                                       /\ script[i].value = script[j].value
        /\ \A m, o \in found : m[1] = o[1] <=> m[2] = o[2]
        /\ Ample(script, "added", "deleted", limit)
             => \A i, j \in DOMAIN script :
                  /\ script[i].status = "added" /\ script[j].status = "deleted"
                  /\ \A m \in found : m[1] # script[i].index /\ m[2] # script[j].index
                  => script[i].value # script[j].value
    BY MovesFound
  <2> HIDE DEF found
  <2>3. AreMoves(moves, script)
    <3>1. ASSUME NEW m \in moves
          PROVE  \E i, j \in DOMAIN script : /\ m = <<script[i].index, script[j].index>>
                                             /\ script[i].status = "deleted" /\ script[j].status = "added"
                                             /\ script[i].value = script[j].value
      <4>1. PICK f \in found : m = <<f[2], f[1]>>
        BY <2>1
      <4>2. PICK i, j \in DOMAIN script : /\ f = <<script[i].index, script[j].index>>
                                         /\ script[i].status = "added" /\ script[j].status = "deleted"
                                         /\ script[i].value = script[j].value
        BY <2>2
      <4>3. m = <<script[j].index, script[i].index>>
        BY <4>1, <4>2
      <4> QED
        BY <4>2, <4>3
    <3>2. ASSUME NEW m \in moves, NEW o \in moves PROVE m[1] = o[1] <=> m[2] = o[2]
      BY <2>1, <2>2
    <3> QED
      BY <3>1, <3>2 DEF AreMoves
  <2>4. ASSUME Ample(script, "added", "deleted", limit) PROVE AllMoves(moves, script)
    <3>1. ASSUME NEW i \in DOMAIN script, NEW j \in DOMAIN script,
                 script[i].status = "deleted", script[j].status = "added",
                 \A m \in moves : m[1] # script[i].index /\ m[2] # script[j].index
          PROVE  script[i].value # script[j].value
      <4>1. ASSUME NEW f \in found PROVE f[1] # script[j].index /\ f[2] # script[i].index
        <5>1. <<f[2], f[1]>> \in moves /\ <<f[2], f[1]>>[1] = f[2] /\ <<f[2], f[1]>>[2] = f[1]
          BY <2>1
        <5> QED
          BY <3>1, <5>1
      <4> QED
        BY <2>2, <2>4, <3>1, <4>1
    <3> QED
      BY <3>1 DEF AllMoves
  <2> QED
    BY <1>2, <2>3, <2>4
<1> QED
  BY <1>1, <1>2

\* Entries in reverse are the same entries.
LEMMA MovesOfReversed ==
  ASSUME NEW n \in Nat, NEW entries, DOMAIN entries = 1..n, NEW reversed, DOMAIN reversed = 1..n,
         \A i \in 1..n : reversed[i] = entries[(n - i) + 1], NEW moves
  PROVE  /\ Plain(entries) => Plain(reversed)
         /\ OncePerSide(entries) <=> OncePerSide(reversed)
         /\ AreMoves(moves, entries) => AreMoves(moves, reversed)
         /\ AllMoves(moves, entries) => AllMoves(moves, reversed)
<1> DEFINE other(i) == (n - i) + 1
<1>1. \A i \in 1..n : other(i) \in 1..n /\ other(other(i)) = i
  OBVIOUS
<1>2. \A i \in 1..n : reversed[i] = entries[other(i)] /\ entries[i] = reversed[other(i)]
  BY <1>1
<1> HIDE DEF other
<1>3. ASSUME Plain(entries) PROVE Plain(reversed)
  <2>1. ASSUME NEW i \in 1..n PROVE \E v, k : reversed[i] = Added(v, k) \/ reversed[i] = Deleted(v, k)
    <3>1. PICK v, k : entries[other(i)] = Added(v, k) \/ entries[other(i)] = Deleted(v, k)
      BY <1>1, <1>3 DEF Plain
    <3>2. reversed[i] = Added(v, k) \/ reversed[i] = Deleted(v, k)
      BY <1>2, <3>1, Zenon
    <3> QED
      BY <3>2, Zenon
  <2> QED
    BY <2>1 DEF Plain
<1>4. OncePerSide(entries) <=> OncePerSide(reversed)
  <2>1. ASSUME OncePerSide(entries), NEW i \in 1..n, NEW j \in 1..n,
               reversed[i].status = reversed[j].status, reversed[i].index = reversed[j].index
        PROVE  i = j
    <3> DEFINE x == other(i)
               y == other(j)
    <3>0. x \in 1..n /\ y \in 1..n /\ reversed[i] = entries[x] /\ reversed[j] = entries[y]
      BY <1>1, <1>2
    <3> HIDE DEF x, y
    <3>2. x = y
      BY <3>0, <2>1 DEF OncePerSide
    <3>1. other(i) = other(j)
      BY <3>2 DEF x, y
    <3> QED
      BY <1>1, <3>1
  <2>2. ASSUME OncePerSide(reversed), NEW i \in 1..n, NEW j \in 1..n,
               entries[i].status = entries[j].status, entries[i].index = entries[j].index
        PROVE  i = j
    <3> DEFINE x == other(i)
               y == other(j)
    <3>0. x \in 1..n /\ y \in 1..n /\ entries[i] = reversed[x] /\ entries[j] = reversed[y]
      BY <1>1, <1>2
    <3> HIDE DEF x, y
    <3>2. x = y
      BY <3>0, <2>2 DEF OncePerSide
    <3>1. other(i) = other(j)
      BY <3>2 DEF x, y
    <3> QED
      BY <1>1, <3>1
  <2> QED
    BY <2>1, <2>2 DEF OncePerSide
<1>5. ASSUME AreMoves(moves, entries) PROVE AreMoves(moves, reversed)
  <2>1. ASSUME NEW m \in moves
        PROVE  \E i, j \in 1..n : /\ m = <<reversed[i].index, reversed[j].index>>
                                  /\ reversed[i].status = "deleted" /\ reversed[j].status = "added"
                                  /\ reversed[i].value = reversed[j].value
    <3>1. PICK i, j \in 1..n : /\ m = <<entries[i].index, entries[j].index>>
                              /\ entries[i].status = "deleted" /\ entries[j].status = "added"
                              /\ entries[i].value = entries[j].value
      BY <1>5 DEF AreMoves
    <3>2. entries[i] = reversed[other(i)] /\ entries[j] = reversed[other(j)]
          /\ other(i) \in 1..n /\ other(j) \in 1..n
      BY <1>1, <1>2
    <3> QED
      BY <3>1, <3>2
  <2> QED
    BY <1>5, <2>1, SMTT(40) DEF AreMoves
<1>6. ASSUME AllMoves(moves, entries) PROVE AllMoves(moves, reversed)
  <2>1. ASSUME NEW i \in 1..n, NEW j \in 1..n,
               reversed[i].status = "deleted", reversed[j].status = "added",
               \A m \in moves : m[1] # reversed[i].index /\ m[2] # reversed[j].index
        PROVE  reversed[i].value # reversed[j].value
    <3>1. reversed[i] = entries[other(i)] /\ reversed[j] = entries[other(j)]
          /\ other(i) \in 1..n /\ other(j) \in 1..n
      BY <1>1, <1>2
    <3> QED
      BY <1>6, <2>1, <3>1 DEF AllMoves
  <2> QED
    BY <2>1 DEF AllMoves
<1> QED
  BY <1>3, <1>4, <1>5, <1>6

\* The entries are in the order of their positions, on either side.
Orderly(script, n, a, b) ==
  /\ OncePerSide(script)
  /\ \A i \in 1..n : script[i].index \in Nat /\ script[i].index # NotMoved
  /\ \A i \in 1..n : script[i].status = "deleted" => script[i].index \in 1..a
  /\ \A i \in 1..n : script[i].status = "added" => script[i].index \in 1..b
  /\ \A i, j \in 1..n : i < j /\ script[i].status = script[j].status => script[i].index < script[j].index

\* A script that tells of two contents names no item twice, and no item at 0.
LEMMA TellsOnce ==
  ASSUME NEW n \in Nat, NEW script, DOMAIN script = 1..n, NEW a \in Nat, NEW b \in Nat, NEW old, NEW new,
         DOMAIN old = 1..a, DOMAIN new = 1..b, Tells(script, old, new)
  PROVE  Orderly(script, n, a, b)
<1>1. \A i \in 1..n : \/ script[i].status = "deleted" /\ script[i].index \in 1..a
                      \/ script[i].status = "added" /\ script[i].index \in 1..b
  BY DEF Tells
<1>2. \A i, j \in 1..n : i < j /\ script[i].status = script[j].status => script[i].index < script[j].index
  BY DEF Tells
<1>3. \A i \in 1..n : script[i].index \in Nat /\ script[i].index # NotMoved
  BY <1>1 DEF NotMoved
<1>4. OncePerSide(script)
  <2>1. ASSUME NEW i \in 1..n, NEW j \in 1..n, script[i].status = script[j].status,
               script[i].index = script[j].index
        PROVE  i = j
    <3>1. ~(i < j) /\ ~(j < i)
      BY <1>2, <1>3, <2>1
    <3> QED
      BY <3>1
  <2> QED
    BY <2>1 DEF OncePerSide
<1>5. "deleted" # "added"
  OBVIOUS
<1> QED
  BY <1>1, <1>2, <1>3, <1>4, <1>5 DEF Orderly

\* With ten items at most on either side no move is missed.
Paired(script, a, b) == MovesPair(script) /\ (a <= 10 /\ b <= 10 => NoMoveMissed(script))

\* The marks of a script that tells of two contents pair its entries, and miss
\* none when the arrays are small.
LEMMA MarkedPairs ==
  ASSUME NEW n \in Nat, NEW entries, DOMAIN entries = 1..n, Len(entries) = n, Plain(entries),
         NEW grows \in BOOLEAN, NEW a \in Nat, NEW b \in Nat, NEW old, NEW new,
         DOMAIN old = 1..a, DOMAIN new = 1..b, NEW limit \in Nat, limit = 10 * (IF grows THEN a ELSE b),
         Tells(Marked(entries, grows, limit), old, new)
  PROVE  Paired(Marked(entries, grows, limit), a, b)
<1> DEFINE reversed == Reverse(entries)
           moves == MovesIn(entries, grows, limit)
           script == Marked(entries, grows, limit)
           other(i) == (n - i) + 1
<1>1. reversed = [i \in 1..n |-> entries[other(i)]] /\ DOMAIN reversed = 1..n /\ Len(reversed) = n
  <2>1. reversed = [i \in 1..n |-> entries[other(i)]]
    BY DEF Reverse
  <2> QED
    BY <2>1
<1>2. script = MarkMoves(reversed, moves)
  BY DEF Marked
<1>3. \A i \in 1..n : reversed[i] = entries[other(i)]
  BY <1>1
<1> HIDE DEF reversed, moves, script
<1>4. Plain(reversed) /\ (OncePerSide(entries) <=> OncePerSide(reversed))
      /\ (AreMoves(moves, entries) => AreMoves(moves, reversed))
      /\ (AllMoves(moves, entries) => AllMoves(moves, reversed))
  BY <1>1, <1>3, MovesOfReversed
<1>5. /\ DOMAIN script = 1..n
      /\ \A i \in 1..n : /\ script[i].status = reversed[i].status
                         /\ script[i].index = reversed[i].index
                         /\ script[i].value = reversed[i].value
  <2>1. PICK marked : marked = MarkMoves(reversed, moves)
    OBVIOUS
  <2>2. /\ DOMAIN marked = 1..n
        /\ \A i \in 1..n : /\ marked[i].status = reversed[i].status
                           /\ marked[i].index = reversed[i].index
                           /\ marked[i].value = reversed[i].value
    BY <1>1, <1>4, <2>1, MarkedEntries
  <2> QED
    BY <1>2, <2>1, <2>2
<1>6. Tells(script, old, new)
  BY DEF script
<1>7. /\ OncePerSide(script)
      /\ \A i \in 1..n : script[i].index \in Nat /\ script[i].index # NotMoved
      /\ \A i \in 1..n : script[i].status = "deleted" => script[i].index \in 1..a
      /\ \A i \in 1..n : script[i].status = "added" => script[i].index \in 1..b
      /\ \A i, j \in 1..n : i < j /\ script[i].status = script[j].status => script[i].index < script[j].index
  <2>1. Orderly(script, n, a, b)
    BY <1>5, <1>6, TellsOnce
  <2> QED
    BY <2>1 DEF Orderly
<1>8. OncePerSide(reversed) /\ OncePerSide(entries)
  <2>1. OncePerSide(reversed)
    BY <1>1, <1>5, <1>7 DEF OncePerSide
  <2> QED
    BY <1>4, <2>1
<1>9. \A i \in 1..n : other(i) \in 1..n /\ entries[i] = reversed[other(i)]
  <2>1. \A i \in 1..n : other(i) \in 1..n /\ other(other(i)) = i
    OBVIOUS
  <2> QED
    BY <1>3, <2>1
<1>10. /\ AreMoves(moves, entries)
       /\ grows /\ Ample(entries, "deleted", "added", limit) => AllMoves(moves, entries)
       /\ ~grows /\ Ample(entries, "added", "deleted", limit) => AllMoves(moves, entries)
  BY <1>8, FoundAreMoves DEF moves
<1>11. ASSUME a <= 10, b <= 10 PROVE AllMoves(moves, entries)
  <2>1. /\ \A i \in 1..n : entries[i].status = "deleted" => entries[i].index \in 1..a
        /\ \A i \in 1..n : entries[i].status = "added" => entries[i].index \in 1..b
    <3>1. ASSUME NEW i \in 1..n
          PROVE  /\ entries[i].status = "deleted" => entries[i].index \in 1..a
                 /\ entries[i].status = "added" => entries[i].index \in 1..b
      <4> DEFINE x == other(i)
      <4>1. x \in 1..n /\ entries[i] = reversed[x]
        BY <1>9
      <4> HIDE DEF x
      <4>2. entries[i].status = script[x].status /\ entries[i].index = script[x].index
        BY <1>5, <4>1
      <4> QED
        BY <1>7, <4>1, <4>2
    <3> QED
      BY <3>1
  <2>2. ASSUME NEW i \in 1..n, NEW j \in 1..n, i < j, entries[i].status = entries[j].status
        PROVE  entries[i].index > entries[j].index
    <3>1. other(j) < other(i)
      BY <2>2
    <3> HIDE DEF other
    <3>2. script[other(j)].status = script[other(i)].status
      BY <1>5, <1>9, <2>2
    <3>3. script[other(j)].index < script[other(i)].index
      BY <1>7, <1>9, <3>1, <3>2
    <3>4. script[other(j)].index = entries[j].index /\ script[other(i)].index = entries[i].index
      BY <1>5, <1>9
    <3> QED
      BY <1>7, <1>9, <3>3, <3>4
  <2>3. 1..a \subseteq 1..10 /\ 1..b \subseteq 1..10
    BY <1>11
  <2>4. CASE grows
    <3>1. FewEntries(entries, "deleted", "added", a)
      BY <1>8, <2>1, <2>2, <2>3 DEF FewEntries, OncePerSide
    <3>2. Ample(entries, "deleted", "added", limit)
      BY <2>4, <3>1 DEF Ample
    <3> QED
      BY <1>10, <2>4, <3>2
  <2>5. CASE ~grows
    <3>1. FewEntries(entries, "added", "deleted", b)
      BY <1>8, <2>1, <2>2, <2>3 DEF FewEntries, OncePerSide
    <3>2. Ample(entries, "added", "deleted", limit)
      BY <2>5, <3>1 DEF Ample
    <3> QED
      BY <1>10, <2>5, <3>2
  <2> QED
    BY <2>4, <2>5
<1>12. \A i \in 1..n : reversed[i].index # NotMoved
  BY <1>5, <1>7
<1>13. AreMoves(moves, reversed) /\ (AllMoves(moves, entries) => AllMoves(moves, reversed))
  BY <1>4, <1>10
<1>14. /\ MovesPair(MarkMoves(reversed, moves))
       /\ AllMoves(moves, reversed) => NoMoveMissed(MarkMoves(reversed, moves))
  <2>1. /\ MovesPair(MarkMoves(reversed, moves))
        /\ AllMoves(moves, reversed) /\ (\A k \in 1..n : reversed[k].index # NotMoved)
             => NoMoveMissed(MarkMoves(reversed, moves))
    BY <1>1, <1>4, <1>8, <1>13, MarksPair
  <2> QED
    BY <1>12, <2>1
<1> QED
  BY <1>2, <1>11, <1>13, <1>14 DEF script, Paired

-----------------------------------------------------------------------------
(* What the script of two contents tells of them (compareArrays).          *)

LEMMA MinOfTwo ==
  ASSUME NEW x \in Int, NEW y \in Int
  PROVE  Min({x, y}) = IF x <= y THEN x ELSE y
<1>1. \E z \in {x, y} : \A w \in {x, y} : z <= w
  OBVIOUS
<1>2. Min({x, y}) \in {x, y} /\ \A w \in {x, y} : Min({x, y}) <= w
  BY <1>1 DEF Min
<1> QED
  BY <1>2

Sides(sml, big) == DOMAIN sml = 1..Len(sml) /\ DOMAIN big = 1..Len(big)
                   /\ Len(sml) \in Nat /\ Len(big) \in Nat /\ Len(sml) <= Len(big)

MaxDistance(sml, big) == Len(sml) + Len(big) + 1

\* A cell, from those before it.
CellFrom(f, sml, big, s, b) ==
  IF b \notin Band(s, sml, big) THEN MaxDistance(sml, big)
  ELSE IF b = 0 THEN s + 1
  ELSE IF s = 0 THEN b + 1
  ELSE IF sml[s] = big[b] THEN f[<<s - 1, b - 1>>]
  ELSE 1 + Min({f[<<s - 1, b>>], f[<<s, b - 1>>]})

\* The columns of a row in the band, by the lengths of the two arrays.
LEMMA BandOfRow ==
  ASSUME NEW sml, NEW big, Sides(sml, big)
  PROVE  \E range \in Nat \ {0} :
           /\ Len(sml) + range >= Len(big) /\ (range <= Len(big) \/ Len(big) = 0)
           /\ \A r \in Nat, b \in Int :
                b \in Band(r, sml, big) <=> b <= Len(big) /\ b <= r + range /\ b >= 0 /\ b >= r - 1
<1> DEFINE range == IF Len(big) = Len(sml) THEN 1 ELSE Len(big) - Len(sml)
<1>1. Len(big) \in Nat /\ Len(sml) \in Nat /\ Len(sml) <= Len(big)
  BY DEF Sides
<1>2. /\ range \in Nat \ {0} /\ Len(sml) + range >= Len(big)
      /\ range <= Len(big) \/ Len(big) = 0
  <2>1. CASE Len(big) = Len(sml)
    BY <1>1, <2>1
  <2>2. CASE Len(big) # Len(sml)
    BY <1>1, <2>2
  <2> QED
    BY <2>1, <2>2
<1>3. \A r \in Nat : LastColumn(r, sml, big) = IF r + range < Len(big) THEN r + range ELSE Len(big)
  BY DEF LastColumn
<1> HIDE DEF range
<1>4. ASSUME NEW r \in Nat, NEW b \in Int
      PROVE  b \in Band(r, sml, big) <=> b <= Len(big) /\ b <= r + range /\ b >= 0 /\ b >= r - 1
  <2>1. /\ r + range < Len(big) => LastColumn(r, sml, big) = r + range
        /\ ~ (r + range < Len(big)) => LastColumn(r, sml, big) = Len(big)
    BY <1>3
  <2>2. /\ r = 0 => FirstColumn(r) = 0
        /\ r # 0 => FirstColumn(r) = r - 1
    BY DEF FirstColumn
  <2>3. LastColumn(r, sml, big) \in Int /\ FirstColumn(r) \in Int
    BY <1>1, <1>2, <2>1, <2>2
  <2>4. b \in Band(r, sml, big) <=> FirstColumn(r) <= b /\ b <= LastColumn(r, sml, big)
    BY <2>3 DEF Band
  <2>5. b <= LastColumn(r, sml, big) <=> b <= Len(big) /\ b <= r + range
    BY <1>1, <1>2, <2>1
  <2>6. FirstColumn(r) <= b <=> b >= 0 /\ b >= r - 1
    BY <2>2
  <2> QED
    BY <2>4, <2>5, <2>6
<1> QED
  BY <1>2, <1>4

\* The band leads from each of its cells to the one before it on some side.
LEMMA BandProperties ==
  ASSUME NEW sml, NEW big, Sides(sml, big), NEW s \in 0..Len(sml), NEW b \in Int
  PROVE  /\ b \in Band(s, sml, big) =>
              /\ b \in 0..Len(big)
              /\ s > 0 /\ b > 0 => b - 1 \in Band(s - 1, sml, big)
              /\ s > 0 /\ b > 0 => b - 1 \in Band(s, sml, big) \/ b \in Band(s - 1, sml, big)
              /\ s = 0 /\ b > 0 => b - 1 \in Band(s, sml, big)
              /\ s > 0 /\ b = 0 => s = 1 /\ b \in Band(s - 1, sml, big)
         /\ 0 \in Band(0, sml, big) /\ Len(big) \in Band(Len(sml), sml, big)
<1>1. Len(big) \in Nat /\ Len(sml) \in Nat /\ Len(sml) <= Len(big) /\ s \in Nat /\ s <= Len(sml)
  BY DEF Sides
<1>2. PICK range \in Nat \ {0} :
        /\ Len(sml) + range >= Len(big) /\ (range <= Len(big) \/ Len(big) = 0)
        /\ \A r \in Nat, c \in Int :
             c \in Band(r, sml, big) <=> c <= Len(big) /\ c <= r + range /\ c >= 0 /\ c >= r - 1
  BY BandOfRow
<1>3. ASSUME b \in Band(s, sml, big)
      PROVE  /\ b \in 0..Len(big)
             /\ s > 0 /\ b > 0 => b - 1 \in Band(s - 1, sml, big)
             /\ s > 0 /\ b > 0 => b - 1 \in Band(s, sml, big) \/ b \in Band(s - 1, sml, big)
             /\ s = 0 /\ b > 0 => b - 1 \in Band(s, sml, big)
             /\ s > 0 /\ b = 0 => s = 1 /\ b \in Band(s - 1, sml, big)
  <2>1. b <= Len(big) /\ b <= s + range /\ b >= 0 /\ b >= s - 1
    BY <1>1, <1>2, <1>3
  <2>2. s > 0 => s - 1 \in Nat
    BY <1>1
  <2>3. s > 0 /\ b > 0 => b - 1 \in Band(s - 1, sml, big)
    BY <1>1, <1>2, <2>1, <2>2
  <2>4. s > 0 /\ b > 0 => b - 1 \in Band(s, sml, big) \/ b \in Band(s - 1, sml, big)
    <3>1. CASE b - 1 >= s - 1
      BY <1>1, <1>2, <2>1, <3>1
    <3>2. CASE b - 1 < s - 1
      <4>1. b <= (s - 1) + range
        BY <1>1, <1>2, <3>2
      <4>2. b >= (s - 1) - 1
        BY <1>1, <2>1
      <4> QED
        BY <1>2, <2>1, <2>2, <4>1, <4>2
    <3> QED
      BY <1>1, <3>1, <3>2
  <2>5. s = 0 /\ b > 0 => b - 1 \in Band(s, sml, big)
    BY <1>1, <1>2, <2>1
  <2>6. s > 0 /\ b = 0 => s = 1 /\ b \in Band(s - 1, sml, big)
    BY <1>1, <1>2, <2>1
  <2>7. b \in 0..Len(big)
    BY <1>1, <2>1
  <2> QED
    BY <2>3, <2>4, <2>5, <2>6, <2>7
<1>4. 0 \in Band(0, sml, big)
  BY <1>1, <1>2
<1>5. Len(big) \in Band(Len(sml), sml, big)
  <2>1. Len(big) >= Len(sml) - 1 /\ Len(big) <= Len(sml) + range
    BY <1>1, <1>2
  <2> QED
    BY <1>1, <1>2, <2>1
<1> QED
  BY <1>3, <1>4, <1>5

\* The matrix has in each cell what the cells before it make of it.
LEMMA MatrixIsFilled ==
  ASSUME NEW sml, NEW big, Sides(sml, big)
  PROVE  \A s \in 0..Len(sml), b \in (-1)..Len(big) :
           EditDistance(sml, big)[<<s, b>>] = CellFrom(EditDistance(sml, big), sml, big, s, b)
<1> DEFINE Cells == (0..Len(sml)) \X ((-1)..Len(big))
           Fill(f) == [c \in Cells |-> CellFrom(f, sml, big, c[1], c[2])]
           Filled(f, k) == \A c \in Cells : c[1] + c[2] + 1 < k =>
                             f[c] = CellFrom(f, sml, big, c[1], c[2])
           Reached == {k \in Nat : \E f : Filled(f, k)}
<1>1. ASSUME NEW f, NEW g, NEW c \in Cells,
             \A d \in Cells : d[1] + d[2] < c[1] + c[2] => f[d] = g[d]
      PROVE  CellFrom(f, sml, big, c[1], c[2]) = CellFrom(g, sml, big, c[1], c[2])
  <2> DEFINE s == c[1]
             b == c[2]
  <2>1. s \in 0..Len(sml) /\ b \in (-1)..Len(big) /\ s \in Int /\ b \in Int
    BY DEF Sides
  <2> HIDE DEF s, b
  <2>2. ASSUME s > 0, b > 0
        PROVE  /\ f[<<s - 1, b - 1>>] = g[<<s - 1, b - 1>>]
               /\ f[<<s - 1, b>>] = g[<<s - 1, b>>]
               /\ f[<<s, b - 1>>] = g[<<s, b - 1>>]
    <3>1. <<s - 1, b - 1>> \in Cells /\ <<s - 1, b>> \in Cells /\ <<s, b - 1>> \in Cells
      BY <2>1, <2>2 DEF Sides
    <3>2. (s - 1) + (b - 1) < s + b /\ (s - 1) + b < s + b /\ s + (b - 1) < s + b
      BY <2>1
    <3> QED
      BY <1>1, <3>1, <3>2 DEF s, b
  <2>3. b \in Band(s, sml, big) /\ b # 0 /\ s # 0 => s > 0 /\ b > 0
    BY <2>1, BandProperties
  <2>4. CellFrom(f, sml, big, s, b) = CellFrom(g, sml, big, s, b)
    BY <2>2, <2>3 DEF CellFrom
  <2> QED
    BY <2>4 DEF s, b
<1>2. 0 \in Reached
  <2>1. \A c \in Cells : ~ (c[1] + c[2] + 1 < 0)
    BY DEF Sides
  <2> QED
    BY <2>1
<1>3. ASSUME NEW k \in Nat, k \in Reached PROVE k + 1 \in Reached
  <2>1. PICK f : Filled(f, k)
    BY <1>3
  <2> DEFINE g == Fill(f)
  <2>2. ASSUME NEW c \in Cells, c[1] + c[2] + 1 < k PROVE g[c] = f[c]
    BY <2>1, <2>2
  <2>3. ASSUME NEW c \in Cells, c[1] + c[2] + 1 < k + 1
        PROVE  g[c] = CellFrom(g, sml, big, c[1], c[2])
    <3>1. c[1] \in Int /\ c[2] \in Int /\ \A d \in Cells : d[1] \in Int /\ d[2] \in Int
      BY DEF Sides
    <3>2. \A d \in Cells : d[1] + d[2] < c[1] + c[2] => d[1] + d[2] + 1 < k
      BY <2>3, <3>1
    <3> HIDE DEF Cells
    <3>3. \A d \in Cells : d[1] + d[2] < c[1] + c[2] => g[d] = f[d]
      BY <2>2, <3>2
    <3>4. g[c] = CellFrom(f, sml, big, c[1], c[2])
      OBVIOUS
    <3> HIDE DEF g
    <3> QED
      BY <1>1, <3>3, <3>4
  <2> HIDE DEF g
  <2> QED
    BY <2>3
<1>4. \E f : f = Fill(f)
  <2> DEFINE k == Len(sml) + Len(big) + 2
  <2>1. k \in Reached
    <3>1. k \in Nat
      BY DEF Sides
    <3> HIDE DEF Reached, k
    <3> QED
      BY <1>2, <1>3, <3>1, SetInduction
  <2>2. PICK f : Filled(f, k)
    BY <2>1
  <2>3. \A c \in Cells : c[1] + c[2] + 1 < k
    BY DEF Sides
  <2>4. \A c \in Cells : f[c] = CellFrom(f, sml, big, c[1], c[2])
    BY <2>2, <2>3
  <2> DEFINE g == Fill(f)
  <2>5. \A c \in Cells : g[c] = f[c]
    BY <2>4
  <2> HIDE DEF g
  <2>6. \A c \in Cells : g[c] = CellFrom(g, sml, big, c[1], c[2])
    BY <1>1, <2>4, <2>5
  <2>7. g = [c \in Cells |-> g[c]]
    BY DEF g
  <2>8. g = Fill(g)
    BY <2>6, <2>7
  <2> QED
    BY <2>8
<1>5. EditDistance(sml, big) = CHOOSE f : f = Fill(f)
  BY DEF EditDistance, CellFrom, MaxDistance
<1>6. EditDistance(sml, big) = Fill(EditDistance(sml, big))
  BY <1>4, <1>5
<1> QED
  <2> TAKE s \in 0..Len(sml), b \in (-1)..Len(big)
  <2>1. <<s, b>> \in Cells
    OBVIOUS
  <2> HIDE DEF Cells
  <2> DEFINE cell == EditDistance(sml, big)
  <2>2. cell = [c \in Cells |-> CellFrom(cell, sml, big, c[1], c[2])]
    BY <1>6
  <2> HIDE DEF cell
  <2>3. cell[<<s, b>>] = CellFrom(cell, sml, big, <<s, b>>[1], <<s, b>>[2])
    BY <2>1, <2>2
  <2> QED
    BY <2>3 DEF cell

\* Outside the band there is the maximum only, and inside it less.
LEMMA MatrixValues ==
  ASSUME NEW sml, NEW big, Sides(sml, big)
  PROVE  \A s \in 0..Len(sml), b \in (-1)..Len(big) :
           IF b \in Band(s, sml, big) THEN EditDistance(sml, big)[<<s, b>>] \in 1..(s + b + 1)
           ELSE EditDistance(sml, big)[<<s, b>>] = MaxDistance(sml, big)
<1> DEFINE cell == EditDistance(sml, big)
           Right(s, b) == IF b \in Band(s, sml, big) THEN cell[<<s, b>>] \in 1..(s + b + 1)
                          ELSE cell[<<s, b>>] = MaxDistance(sml, big)
           Reached == {k \in Nat : \A s \in 0..Len(sml), b \in (-1)..Len(big) : s + b + 1 < k => Right(s, b)}
<1>1. Len(sml) \in Nat /\ Len(big) \in Nat
  BY DEF Sides
<1>2. \A s \in 0..Len(sml), b \in (-1)..Len(big) : cell[<<s, b>>] = CellFrom(cell, sml, big, s, b)
  BY MatrixIsFilled
<1>m. MaxDistance(sml, big) \in Int
  BY <1>1 DEF MaxDistance
<1> HIDE DEF cell
<1>3. 0 \in Reached
  BY <1>1
<1>4. ASSUME NEW k \in Nat, k \in Reached PROVE k + 1 \in Reached
  <2>1. ASSUME NEW s \in 0..Len(sml), NEW b \in (-1)..Len(big), s + b + 1 < k + 1
        PROVE  Right(s, b)
    <3>1. s \in Int /\ b \in Int /\ 0 <= s /\ s <= Len(sml) /\ b <= Len(big)
      BY <1>1
    <3>2. cell[<<s, b>>] = CellFrom(cell, sml, big, s, b)
      BY <1>2
    <3>3. CASE b \notin Band(s, sml, big)
      BY <3>2, <3>3 DEF CellFrom
    <3>4. CASE b \in Band(s, sml, big)
      <4>1. 0 <= b
        BY <3>1, <3>4, <1>1, BandProperties
      <4>2. CASE b = 0 \/ s = 0
        BY <3>1, <3>2, <3>4, <4>1, <4>2 DEF CellFrom
      <4>3. CASE b > 0 /\ s > 0
        <5>1. s - 1 \in 0..Len(sml) /\ b - 1 \in (-1)..Len(big)
          BY <3>1, <4>3, <1>1
        <5>2. /\ (s - 1) + (b - 1) + 1 < k
              /\ (s - 1) + b + 1 < k
              /\ s + (b - 1) + 1 < k
          BY <3>1, <2>1
        <5>3. Right(s - 1, b - 1) /\ Right(s - 1, b) /\ Right(s, b - 1)
          BY <1>4, <5>1, <5>2
        <5>4. /\ b - 1 \in Band(s - 1, sml, big)
              /\ b - 1 \in Band(s, sml, big) \/ b \in Band(s - 1, sml, big)
          BY <3>1, <3>4, <4>3, BandProperties
        <5>5. CASE sml[s] = big[b]
          <6>1. cell[<<s, b>>] = cell[<<s - 1, b - 1>>]
            BY <3>1, <3>2, <3>4, <4>3, <5>5 DEF CellFrom
          <6>2. cell[<<s - 1, b - 1>>] \in 1..((s - 1) + (b - 1) + 1)
            BY <5>3, <5>4
          <6>3. 1..((s - 1) + (b - 1) + 1) \subseteq 1..(s + b + 1)
            BY <3>1
          <6> QED
            BY <3>4, <6>1, <6>2, <6>3
        <5>6. CASE sml[s] # big[b]
          <6> DEFINE north == cell[<<s - 1, b>>]
                     west == cell[<<s, b - 1>>]
          <6>1. cell[<<s, b>>] = 1 + Min({north, west})
            BY <3>1, <3>2, <3>4, <4>3, <5>6 DEF CellFrom
          <6>2. /\ north \in 1..((s - 1) + b + 1) \/ north = MaxDistance(sml, big)
                /\ west \in 1..(s + (b - 1) + 1) \/ west = MaxDistance(sml, big)
                /\ north \in 1..((s - 1) + b + 1) \/ west \in 1..(s + (b - 1) + 1)
            BY <5>3, <5>4
          <6> HIDE DEF north, west
          <6>3. north \in Int /\ west \in Int /\ 1 <= north /\ 1 <= west
            BY <6>2, <3>1, <1>1 DEF MaxDistance
          <6>4. Min({north, west}) = IF north <= west THEN north ELSE west
            BY <6>3, MinOfTwo
          <6>5. Min({north, west}) \in Int /\ 1 <= Min({north, west}) /\ Min({north, west}) <= s + b
            BY <6>2, <6>3, <6>4, <3>1
          <6>6. 1 + Min({north, west}) \in 1..(s + b + 1)
            BY <6>5, <3>1
          <6> QED
            BY <3>4, <6>1, <6>6
        <5> QED
          BY <5>5, <5>6
      <4> QED
        BY <3>1, <4>1, <4>2, <4>3
    <3> QED
      BY <3>3, <3>4
  <2> HIDE DEF Right
  <2> QED
    BY <2>1
<1>5. ASSUME NEW s \in 0..Len(sml), NEW b \in (-1)..Len(big) PROVE Right(s, b)
  <2> DEFINE k == s + b + 2
  <2>1. k \in Nat /\ s + b + 1 < k
    BY <1>1
  <2> HIDE DEF Right, k
  <2>2. k \in Reached
    <3> HIDE DEF Reached
    <3> QED
      BY <1>3, <1>4, <2>1, SetInduction
  <2> QED
    BY <2>1, <2>2
<1> QED
  BY <1>5 DEF cell

InBand(sml, big) == {c \in (0..Len(sml)) \X (0..Len(big)) : c[2] \in Band(c[1], sml, big)}

West(cell, s, b) == b > 0 /\ cell[<<s, b - 1>>] = cell[<<s, b>>] - 1
North(cell, s, b) == s > 0 /\ cell[<<s - 1, b>>] = cell[<<s, b>>] - 1

\* The way from a cell to the first one stays in the band, and goes along
\* the diagonal only where the two items are equal.
LEMMA PathInBand ==
  ASSUME NEW sml, NEW big, Sides(sml, big), NEW s, NEW b, <<s, b>> \in InBand(sml, big), s + b # 0
  PROVE  LET cell == EditDistance(sml, big) IN
         /\ s \in Nat /\ b \in Nat
         /\ West(cell, s, b) => <<s, b - 1>> \in InBand(sml, big)
         /\ North(cell, s, b) => <<s - 1, b>> \in InBand(sml, big)
         /\ ~ West(cell, s, b) /\ ~ North(cell, s, b) =>
              s > 0 /\ b > 0 /\ sml[s] = big[b] /\ <<s - 1, b - 1>> \in InBand(sml, big)
<1> DEFINE cell == EditDistance(sml, big)
           max == MaxDistance(sml, big)
<1>1. Len(sml) \in Nat /\ Len(big) \in Nat
  BY DEF Sides
<1>2. /\ s \in 0..Len(sml) /\ b \in 0..Len(big) /\ b \in Band(s, sml, big)
      /\ s \in Nat /\ b \in Nat /\ b \in (-1)..Len(big) /\ s <= Len(sml) /\ b <= Len(big)
  BY <1>1 DEF InBand
<1>3. cell[<<s, b>>] \in 1..(s + b + 1)
  BY <1>2, MatrixValues
<1>4. ASSUME NEW t \in 0..Len(sml), NEW c \in (-1)..Len(big), c \notin Band(t, sml, big)
      PROVE  cell[<<t, c>>] # cell[<<s, b>>] - 1
  <2>1. cell[<<t, c>>] = max
    BY <1>4, MatrixValues
  <2> HIDE DEF cell
  <2>2. max \in Int /\ max > s + b
    BY <1>1, <1>2 DEF MaxDistance
  <2> HIDE DEF max
  <2> QED
    BY <2>1, <2>2, <1>3, <1>2
<1>5. \A t \in 0..Len(sml), c \in (-1)..Len(big) : cell[<<t, c>>] = CellFrom(cell, sml, big, t, c)
  BY MatrixIsFilled
<1> HIDE DEF cell
<1>6. West(cell, s, b) => <<s, b - 1>> \in InBand(sml, big)
  <2>1. b > 0 => b - 1 \in (-1)..Len(big) /\ b - 1 \in 0..Len(big)
    BY <1>1, <1>2
  <2> QED
    BY <1>2, <1>4, <2>1 DEF West, InBand
<1>7. North(cell, s, b) => <<s - 1, b>> \in InBand(sml, big)
  <2>1. s > 0 => s - 1 \in 0..Len(sml)
    BY <1>1, <1>2
  <2> QED
    BY <1>2, <1>4, <2>1 DEF North, InBand
<1>8. ASSUME ~ West(cell, s, b), ~ North(cell, s, b)
      PROVE  s > 0 /\ b > 0 /\ sml[s] = big[b] /\ <<s - 1, b - 1>> \in InBand(sml, big)
  <2>1. cell[<<s, b>>] = CellFrom(cell, sml, big, s, b)
    BY <1>2, <1>5
  <2>2. b > 0
    <3>1. SUFFICES ASSUME b = 0 PROVE FALSE
      BY <1>2
    <3>2. s = 1 /\ 0 \in Band(0, sml, big)
      BY <1>2, <3>1, BandProperties
    <3>3. cell[<<1, 0>>] = 2
      BY <1>2, <2>1, <3>1, <3>2 DEF CellFrom
    <3>4. cell[<<0, 0>>] = CellFrom(cell, sml, big, 0, 0)
      BY <1>1, <1>5
    <3>5. cell[<<0, 0>>] = 1
      BY <3>2, <3>4 DEF CellFrom
    <3> QED
      BY <1>8, <3>1, <3>2, <3>3, <3>5 DEF North
  <2>3. s > 0
    <3>1. SUFFICES ASSUME s = 0 PROVE FALSE
      BY <1>2
    <3>2. b - 1 \in Band(0, sml, big)
      BY <1>2, <2>2, <3>1, BandProperties
    <3>3. cell[<<0, b>>] = b + 1
      BY <1>2, <2>1, <2>2, <3>1 DEF CellFrom
    <3>4. cell[<<0, b - 1>>] = CellFrom(cell, sml, big, 0, b - 1)
      <4>1. 0 \in 0..Len(sml) /\ b - 1 \in (-1)..Len(big)
        BY <1>1, <1>2
      <4> QED
        BY <1>5, <4>1
    <3>5. cell[<<0, b - 1>>] = b
      <4>1. b - 1 = 0 => 0 + 1 = b
        BY <1>2
      <4>2. (b - 1) + 1 = b
        BY <1>2
      <4> QED
        BY <3>2, <3>4, <4>1, <4>2 DEF CellFrom
    <3>6. cell[<<s, b - 1>>] = cell[<<s, b>>] - 1
      BY <1>2, <3>1, <3>3, <3>5
    <3> QED
      BY <1>8, <2>2, <3>6 DEF West
  <2>4. s - 1 \in 0..Len(sml) /\ b - 1 \in 0..Len(big) /\ b - 1 \in (-1)..Len(big)
    BY <1>1, <1>2, <2>2, <2>3
  <2>5. sml[s] = big[b]
    <3>1. SUFFICES ASSUME sml[s] # big[b] PROVE FALSE
      OBVIOUS
    <3> DEFINE north == cell[<<s - 1, b>>]
               west == cell[<<s, b - 1>>]
    <3>2. cell[<<s, b>>] = 1 + Min({north, west})
      BY <1>2, <2>1, <2>2, <2>3, <3>1 DEF CellFrom
    <3>3. north \in Int /\ west \in Int
      <4>1. /\ north \in 1..((s - 1) + b + 1) \/ north = max
            /\ west \in 1..(s + (b - 1) + 1) \/ west = max
        BY <1>2, <2>4, MatrixValues DEF cell
      <4>2. max \in Int
        BY <1>1 DEF MaxDistance
      <4> HIDE DEF north, west, max
      <4> QED
        BY <4>1, <4>2, <1>2
    <3>4. north # cell[<<s, b>>] - 1 /\ west # cell[<<s, b>>] - 1
      BY <1>8, <2>2, <2>3 DEF North, West
    <3> HIDE DEF north, west
    <3> QED
      BY <3>2, <3>3, <3>4, MinOfTwo
  <2>6. b - 1 \in Band(s - 1, sml, big)
    BY <1>2, <2>2, <2>3, BandProperties
  <2> QED
    BY <2>2, <2>3, <2>4, <2>5, <2>6 DEF InBand
<1> QED
  BY <1>2, <1>6, <1>7, <1>8 DEF cell

\* The path from a cell, from the paths of the cells before it.
PathFrom(f, cell, c) ==
  LET s == c[1]
      b == c[2]
      step == cell[c] - 1
      west == b > 0 /\ cell[<<s, b - 1>>] = step
      north == s > 0 /\ cell[<<s - 1, b>>] = step
  IN IF s + b = 0 THEN <<>>
     ELSE IF west THEN <<[long |-> TRUE, at |-> b]>> \o f[<<s, b - 1>>]
     ELSE IF north THEN <<[long |-> FALSE, at |-> s]>> \o f[<<s - 1, b>>]
     ELSE f[<<s - 1, b - 1>>]

LEMMA PathFollows ==
  ASSUME NEW sml, NEW big, Sides(sml, big)
  PROVE  LET cell == EditDistance(sml, big) IN
         \E path : /\ \A c \in InBand(sml, big) : path[c] = PathFrom(path, cell, c)
                  /\ Differences(sml, big) = path[<<Len(sml), Len(big)>>]
<1> DEFINE cell == EditDistance(sml, big)
           cells == InBand(sml, big)
           Fill(f) == [c \in cells |-> PathFrom(f, cell, c)]
           Filled(f, k) == \A c \in cells : c[1] + c[2] < k => f[c] = PathFrom(f, cell, c)
           Reached == {k \in Nat : \E f : Filled(f, k)}
<1>0. \A c \in cells : c[1] \in Nat /\ c[2] \in Nat /\ c = <<c[1], c[2]>>
                       /\ c[1] <= Len(sml) /\ c[2] <= Len(big)
  BY DEF Sides, InBand
<1>1. ASSUME NEW f, NEW g, NEW c \in cells,
             \A d \in cells : d[1] + d[2] < c[1] + c[2] => f[d] = g[d]
      PROVE  PathFrom(f, cell, c) = PathFrom(g, cell, c)
  <2> DEFINE s == c[1]
             b == c[2]
  <2>1. s \in Nat /\ b \in Nat /\ c = <<s, b>>
    BY <1>0
  <2>2. CASE s + b = 0
    BY <2>2 DEF PathFrom
  <2>3. CASE s + b # 0
    <3>1. /\ West(cell, s, b) => <<s, b - 1>> \in cells
          /\ North(cell, s, b) => <<s - 1, b>> \in cells
          /\ ~ West(cell, s, b) /\ ~ North(cell, s, b) => <<s - 1, b - 1>> \in cells
      <4>1. <<s, b>> \in cells
        BY <2>1
      <4> HIDE DEF s, b
      <4> QED
        BY <2>3, <4>1, PathInBand
    <3>2. /\ West(cell, s, b) <=> b > 0 /\ cell[<<s, b - 1>>] = cell[c] - 1
          /\ North(cell, s, b) <=> s > 0 /\ cell[<<s - 1, b>>] = cell[c] - 1
      <4> HIDE DEF s, b, cell
      <4> QED
        BY <2>1 DEF West, North
    <3>3. s + (b - 1) < s + b /\ (s - 1) + b < s + b /\ (s - 1) + (b - 1) < s + b
      BY <2>1
    <3> HIDE DEF cells, cell
    <3>4. /\ West(cell, s, b) => f[<<s, b - 1>>] = g[<<s, b - 1>>]
          /\ North(cell, s, b) => f[<<s - 1, b>>] = g[<<s - 1, b>>]
          /\ ~ West(cell, s, b) /\ ~ North(cell, s, b) =>
               f[<<s - 1, b - 1>>] = g[<<s - 1, b - 1>>]
      BY <1>1, <3>1, <3>3
    <3>5. CASE West(cell, s, b)
      BY <2>3, <3>2, <3>4, <3>5 DEF PathFrom
    <3>6. CASE ~ West(cell, s, b) /\ North(cell, s, b)
      BY <2>3, <3>2, <3>4, <3>6 DEF PathFrom
    <3>7. CASE ~ West(cell, s, b) /\ ~ North(cell, s, b)
      BY <2>3, <3>2, <3>4, <3>7 DEF PathFrom
    <3> QED
      BY <3>5, <3>6, <3>7
  <2> QED
    BY <2>2, <2>3
<1>2. 0 \in Reached
  <2>1. \A c \in cells : ~ (c[1] + c[2] < 0)
    BY <1>0
  <2> QED
    BY <2>1
<1> HIDE DEF cell, cells
<1>3. ASSUME NEW k \in Nat, k \in Reached PROVE k + 1 \in Reached
  <2>1. PICK f : Filled(f, k)
    BY <1>3
  <2> DEFINE g == Fill(f)
  <2>2. ASSUME NEW c \in cells, c[1] + c[2] < k PROVE g[c] = f[c]
    BY <2>1, <2>2
  <2>3. ASSUME NEW c \in cells, c[1] + c[2] < k + 1
        PROVE  g[c] = PathFrom(g, cell, c)
    <3>1. \A d \in cells : d[1] + d[2] < c[1] + c[2] => d[1] + d[2] < k
      BY <1>0, <2>3
    <3>2. \A d \in cells : d[1] + d[2] < c[1] + c[2] => g[d] = f[d]
      BY <2>2, <3>1
    <3>3. g[c] = PathFrom(f, cell, c)
      OBVIOUS
    <3> HIDE DEF g
    <3> QED
      BY <1>1, <3>2, <3>3
  <2> HIDE DEF g
  <2> QED
    BY <2>3
<1>4. \E f : f = Fill(f)
  <2> DEFINE k == Len(sml) + Len(big) + 1
  <2>1. k \in Reached
    <3>1. k \in Nat
      BY DEF Sides
    <3> HIDE DEF Reached, k
    <3> QED
      BY <1>2, <1>3, <3>1, SetInduction
  <2>2. PICK f : Filled(f, k)
    BY <2>1
  <2>3. \A c \in cells : c[1] + c[2] < k
    BY <1>0 DEF Sides
  <2>4. \A c \in cells : f[c] = PathFrom(f, cell, c)
    BY <2>2, <2>3
  <2> DEFINE g == Fill(f)
  <2>5. \A c \in cells : g[c] = f[c]
    BY <2>4
  <2>7. g = [c \in cells |-> g[c]]
    OBVIOUS
  <2> HIDE DEF g
  <2>6. \A c \in cells : g[c] = PathFrom(g, cell, c)
    BY <1>1, <2>4, <2>5
  <2>8. g = Fill(g)
    BY <2>6, <2>7
  <2> QED
    BY <2>8
<1> DEFINE path == CHOOSE f : f = Fill(f)
<1>5. Differences(sml, big) = path[<<Len(sml), Len(big)>>]
  BY DEF Differences, PathThrough, PathFrom, cells, cell, InBand
<1>6. path = Fill(path)
  BY <1>4
<1> HIDE DEF path
<1>7. \A c \in cells : path[c] = PathFrom(path, cell, c)
  BY <1>6
<1> QED
  BY <1>5, <1>7 DEF cells, cell

PathEntry == [long : BOOLEAN, at : Nat]

\* An entry of the path after both ends of a pair of positions.
Past(e, c) == e.at > (IF e.long THEN c[2] ELSE c[1])

\* The pairs of positions, in the short array and in the long one, that are
\* left as they are: every position is in a pair or on the path, the pairs
\* keep their order and have equal items, and the path goes past a pair once.
Pairs(K, p, sml, big, s, b) ==
  /\ K \subseteq (1..s) \X (1..b)
  /\ \A x \in 1..s : (\E y \in 1..b : <<x, y>> \in K) <=> \A i \in 1..Len(p) : p[i].long \/ p[i].at # x
  /\ \A y \in 1..b : (\E x \in 1..s : <<x, y>> \in K) <=> \A i \in 1..Len(p) : ~ p[i].long \/ p[i].at # y
  /\ \A c, d \in K : c[1] < d[1] <=> c[2] < d[2]
  /\ \A c \in K : sml[c[1]] = big[c[2]]
  /\ \A c \in K, i, j \in 1..Len(p) : i < j /\ Past(p[j], c) => Past(p[i], c)

Descends(p, s, b) ==
  /\ p \in Seq(PathEntry)
  /\ \A i \in 1..Len(p) : p[i].long => p[i].at \in 1..b
  /\ \A i \in 1..Len(p) : ~ p[i].long => p[i].at \in 1..s
  /\ \A i, j \in 1..Len(p) : i < j /\ p[i].long /\ p[j].long => p[i].at > p[j].at
  /\ \A i, j \in 1..Len(p) : i < j /\ ~ p[i].long /\ ~ p[j].long => p[i].at > p[j].at

PathTells(p, sml, big, s, b) ==
  Descends(p, s, b) /\ \E K : Pairs(K, p, sml, big, s, b)

\* A path with one more entry, which comes first.
LEMMA Prepended ==
  ASSUME NEW e \in PathEntry, NEW p \in Seq(PathEntry)
  PROVE  /\ <<e>> \o p \in Seq(PathEntry)
         /\ Len(<<e>> \o p) = Len(p) + 1 /\ Len(p) \in Nat
         /\ (<<e>> \o p)[1] = e
         /\ \A i \in 1..Len(<<e>> \o p) :
              i = 1 \/ (i - 1 \in 1..Len(p) /\ (<<e>> \o p)[i] = p[i - 1])
         /\ \A i \in 1..Len(p) : i + 1 \in 1..Len(<<e>> \o p) /\ (<<e>> \o p)[i + 1] = p[i]
<1>1. <<e>> \in Seq(PathEntry) /\ Len(<<e>>) = 1 /\ <<e>>[1] = e /\ Len(p) \in Nat
  OBVIOUS
<1>2. /\ <<e>> \o p \in Seq(PathEntry)
      /\ Len(<<e>> \o p) = 1 + Len(p)
      /\ \A i \in 1 .. 1 + Len(p) : (<<e>> \o p)[i] = IF i <= 1 THEN <<e>>[i] ELSE p[i - 1]
  BY <1>1, ConcatProperties
<1> DEFINE q == <<e>> \o p
<1>3. q[1] = e
  BY <1>1, <1>2
<1>4. ASSUME NEW i \in 1..Len(q) PROVE i = 1 \/ (i - 1 \in 1..Len(p) /\ q[i] = p[i - 1])
  <2>1. i \in Int /\ i >= 1 /\ i <= 1 + Len(p)
    BY <1>1, <1>2
  <2> QED
    BY <1>1, <1>2, <2>1
<1>5. ASSUME NEW i \in 1..Len(p) PROVE i + 1 \in 1..Len(q) /\ q[i + 1] = p[i]
  <2>1. i + 1 \in 1 .. 1 + Len(p) /\ ~ (i + 1 <= 1) /\ (i + 1) - 1 = i
    BY <1>1
  <2> QED
    BY <1>2, <2>1
<1> QED
  BY <1>1, <1>2, <1>3, <1>4, <1>5

\* The path still tells of the two arrays, up to one item more of the long
\* one, when it names that item,
LEMMA PathGoesWest ==
  ASSUME NEW sml, NEW big, NEW s \in Nat, NEW b \in Nat, b > 0, NEW p, PathTells(p, sml, big, s, b - 1)
  PROVE  PathTells(<<[long |-> TRUE, at |-> b]>> \o p, sml, big, s, b)
<1> DEFINE e == [long |-> TRUE, at |-> b]
           q == <<e>> \o p
<1>1. /\ e \in PathEntry /\ e.long /\ e.at = b
      /\ Descends(p, s, b - 1) /\ p \in Seq(PathEntry)
  BY DEF PathEntry, PathTells, Descends
<1>2. PICK K : Pairs(K, p, sml, big, s, b - 1)
  BY DEF PathTells
<1>3. /\ q \in Seq(PathEntry) /\ Len(q) = Len(p) + 1 /\ Len(p) \in Nat /\ q[1] = e
      /\ \A i \in 1..Len(q) : i = 1 \/ (i - 1 \in 1..Len(p) /\ q[i] = p[i - 1])
      /\ \A i \in 1..Len(p) : i + 1 \in 1..Len(q) /\ q[i + 1] = p[i]
  BY <1>1, Prepended
<1>4. \A i \in 1..Len(p) : /\ p[i].long => p[i].at \in 1..(b - 1)
                           /\ ~ p[i].long => p[i].at \in 1..s
  BY <1>1 DEF Descends
<1> HIDE DEF e, q
<1>5. Descends(q, s, b)
  <2>1. ASSUME NEW i \in 1..Len(q)
        PROVE  (q[i].long => q[i].at \in 1..b) /\ (~ q[i].long => q[i].at \in 1..s)
    <3>1. CASE i = 1
      BY <1>1, <1>3, <3>1
    <3>2. CASE i # 1
      BY <1>3, <1>4, <3>2
    <3> QED
      BY <3>1, <3>2
  <2>2. ASSUME NEW i \in 1..Len(q), NEW j \in 1..Len(q), i < j
        PROVE  /\ q[i].long /\ q[j].long => q[i].at > q[j].at
               /\ ~ q[i].long /\ ~ q[j].long => q[i].at > q[j].at
    <3>1. j - 1 \in 1..Len(p) /\ q[j] = p[j - 1]
      BY <1>3, <2>2
    <3>2. CASE i = 1
      BY <1>1, <1>3, <1>4, <3>1, <3>2
    <3>3. CASE i # 1
      <4>1. i - 1 \in 1..Len(p) /\ q[i] = p[i - 1] /\ i - 1 < j - 1
        BY <1>3, <2>2, <3>3
      <4> QED
        BY <1>1, <3>1, <4>1 DEF Descends
    <3> QED
      BY <3>2, <3>3
  <2> QED
    BY <1>3, <2>1, <2>2 DEF Descends
<1>6. Pairs(K, q, sml, big, s, b)
  <2>1. K \subseteq (1..s) \X (1..(b - 1)) /\ K \subseteq (1..s) \X (1..b)
    BY <1>2 DEF Pairs
  <2>2. ASSUME NEW x \in 1..s
        PROVE  (\E y \in 1..b : <<x, y>> \in K) <=> \A i \in 1..Len(q) : q[i].long \/ q[i].at # x
    <3>1. (\E y \in 1..b : <<x, y>> \in K) <=> (\E y \in 1..(b - 1) : <<x, y>> \in K)
      BY <2>1
    <3>2. ASSUME \A i \in 1..Len(p) : p[i].long \/ p[i].at # x, NEW i \in 1..Len(q)
          PROVE  q[i].long \/ q[i].at # x
      <4>1. CASE i = 1
        BY <1>1, <1>3, <4>1
      <4>2. CASE i # 1
        BY <1>3, <3>2, <4>2
      <4> QED
        BY <4>1, <4>2
    <3>3. ASSUME \A i \in 1..Len(q) : q[i].long \/ q[i].at # x, NEW i \in 1..Len(p)
          PROVE  p[i].long \/ p[i].at # x
      BY <1>3, <3>3
    <3> QED
      BY <1>2, <3>1, <3>2, <3>3 DEF Pairs
  <2>3. ASSUME NEW y \in 1..b
        PROVE  (\E x \in 1..s : <<x, y>> \in K) <=> \A i \in 1..Len(q) : ~ q[i].long \/ q[i].at # y
    <3>1. CASE y = b
      <4>1. ASSUME NEW x \in 1..s, <<x, y>> \in K PROVE FALSE
        <5>1. y \in 1..(b - 1)
          BY <2>1, <4>1
        <5> QED
          BY <3>1, <5>1
      <4>2. 1 \in 1..Len(q) /\ q[1].long /\ q[1].at = y
        BY <1>1, <1>3, <3>1
      <4> QED
        BY <4>1, <4>2
    <3>2. CASE y # b
      <4>1. y \in 1..(b - 1)
        BY <3>2
      <4>2. ASSUME \A i \in 1..Len(p) : ~ p[i].long \/ p[i].at # y, NEW i \in 1..Len(q)
            PROVE  ~ q[i].long \/ q[i].at # y
        <5>1. CASE i = 1
          BY <1>1, <1>3, <3>2, <5>1
        <5>2. CASE i # 1
          BY <1>3, <4>2, <5>2
        <5> QED
          BY <5>1, <5>2
      <4>3. ASSUME \A i \in 1..Len(q) : ~ q[i].long \/ q[i].at # y, NEW i \in 1..Len(p)
            PROVE  ~ p[i].long \/ p[i].at # y
        BY <1>3, <4>3
      <4> QED
        BY <1>2, <4>1, <4>2, <4>3 DEF Pairs
    <3> QED
      BY <3>1, <3>2
  <2>4. ASSUME NEW c \in K, NEW i \in 1..Len(q), NEW j \in 1..Len(q), i < j, Past(q[j], c)
        PROVE  Past(q[i], c)
    <3>1. j - 1 \in 1..Len(p) /\ q[j] = p[j - 1]
      BY <1>3, <2>4
    <3>2. CASE i = 1
      BY <1>1, <1>3, <2>1, <3>2 DEF Past
    <3>3. CASE i # 1
      <4>1. i - 1 \in 1..Len(p) /\ q[i] = p[i - 1] /\ i - 1 < j - 1
        BY <1>3, <2>4, <3>3
      <4> QED
        BY <1>2, <2>4, <3>1, <4>1 DEF Pairs
    <3> QED
      BY <3>2, <3>3
  <2>5. /\ \A c, d \in K : c[1] < d[1] <=> c[2] < d[2]
        /\ \A c \in K : sml[c[1]] = big[c[2]]
    BY <1>2 DEF Pairs
  <2> QED
    BY <2>1, <2>2, <2>3, <2>4, <2>5 DEF Pairs
<1> QED
  BY <1>5, <1>6 DEF PathTells, q, e

\* up to one item more of the short one, when it names that,
LEMMA PathGoesNorth ==
  ASSUME NEW sml, NEW big, NEW b \in Nat, NEW s \in Nat, s > 0, NEW p, PathTells(p, sml, big, s - 1, b)
  PROVE  PathTells(<<[long |-> FALSE, at |-> s]>> \o p, sml, big, s, b)
<1> DEFINE e == [long |-> FALSE, at |-> s]
           q == <<e>> \o p
<1>1. /\ e \in PathEntry /\ ~ e.long /\ e.at = s
      /\ Descends(p, s - 1, b) /\ p \in Seq(PathEntry)
  BY DEF PathEntry, PathTells, Descends
<1>2. PICK K : Pairs(K, p, sml, big, s - 1, b)
  BY DEF PathTells
<1>3. /\ q \in Seq(PathEntry) /\ Len(q) = Len(p) + 1 /\ Len(p) \in Nat /\ q[1] = e
      /\ \A i \in 1..Len(q) : i = 1 \/ (i - 1 \in 1..Len(p) /\ q[i] = p[i - 1])
      /\ \A i \in 1..Len(p) : i + 1 \in 1..Len(q) /\ q[i + 1] = p[i]
  BY <1>1, Prepended
<1>4. \A i \in 1..Len(p) : /\ ~ p[i].long => p[i].at \in 1..(s - 1)
                           /\ p[i].long => p[i].at \in 1..b
  BY <1>1 DEF Descends
<1> HIDE DEF e, q
<1>5. Descends(q, s, b)
  <2>1. ASSUME NEW i \in 1..Len(q)
        PROVE  (~ q[i].long => q[i].at \in 1..s) /\ (q[i].long => q[i].at \in 1..b)
    <3>1. CASE i = 1
      BY <1>1, <1>3, <3>1
    <3>2. CASE i # 1
      BY <1>3, <1>4, <3>2
    <3> QED
      BY <3>1, <3>2
  <2>2. ASSUME NEW i \in 1..Len(q), NEW j \in 1..Len(q), i < j
        PROVE  /\ ~ q[i].long /\ ~ q[j].long => q[i].at > q[j].at
               /\ q[i].long /\ q[j].long => q[i].at > q[j].at
    <3>1. j - 1 \in 1..Len(p) /\ q[j] = p[j - 1]
      BY <1>3, <2>2
    <3>2. CASE i = 1
      BY <1>1, <1>3, <1>4, <3>1, <3>2
    <3>3. CASE i # 1
      <4>1. i - 1 \in 1..Len(p) /\ q[i] = p[i - 1] /\ i - 1 < j - 1
        BY <1>3, <2>2, <3>3
      <4> QED
        BY <1>1, <3>1, <4>1 DEF Descends
    <3> QED
      BY <3>2, <3>3
  <2> QED
    BY <1>3, <2>1, <2>2 DEF Descends
<1>6. Pairs(K, q, sml, big, s, b)
  <2>1. K \subseteq (1..(s - 1)) \X (1..b) /\ K \subseteq (1..s) \X (1..b)
    BY <1>2 DEF Pairs
  <2>2. ASSUME NEW y \in 1..b
        PROVE  (\E x \in 1..s : <<x, y>> \in K) <=> \A i \in 1..Len(q) : ~ q[i].long \/ q[i].at # y
    <3>1. (\E x \in 1..s : <<x, y>> \in K) <=> (\E x \in 1..(s - 1) : <<x, y>> \in K)
      BY <2>1
    <3>2. ASSUME \A i \in 1..Len(p) : ~ p[i].long \/ p[i].at # y, NEW i \in 1..Len(q)
          PROVE  ~ q[i].long \/ q[i].at # y
      <4>1. CASE i = 1
        BY <1>1, <1>3, <4>1
      <4>2. CASE i # 1
        BY <1>3, <3>2, <4>2
      <4> QED
        BY <4>1, <4>2
    <3>3. ASSUME \A i \in 1..Len(q) : ~ q[i].long \/ q[i].at # y, NEW i \in 1..Len(p)
          PROVE  ~ p[i].long \/ p[i].at # y
      BY <1>3, <3>3
    <3> QED
      BY <1>2, <3>1, <3>2, <3>3 DEF Pairs
  <2>3. ASSUME NEW x \in 1..s
        PROVE  (\E y \in 1..b : <<x, y>> \in K) <=> \A i \in 1..Len(q) : q[i].long \/ q[i].at # x
    <3>1. CASE x = s
      <4>1. ASSUME NEW y \in 1..b, <<x, y>> \in K PROVE FALSE
        <5>1. x \in 1..(s - 1)
          BY <2>1, <4>1
        <5> QED
          BY <3>1, <5>1
      <4>2. 1 \in 1..Len(q) /\ ~ q[1].long /\ q[1].at = x
        BY <1>1, <1>3, <3>1
      <4> QED
        BY <4>1, <4>2
    <3>2. CASE x # s
      <4>1. x \in 1..(s - 1)
        BY <3>2
      <4>2. ASSUME \A i \in 1..Len(p) : p[i].long \/ p[i].at # x, NEW i \in 1..Len(q)
            PROVE  q[i].long \/ q[i].at # x
        <5>1. CASE i = 1
          BY <1>1, <1>3, <3>2, <5>1
        <5>2. CASE i # 1
          BY <1>3, <4>2, <5>2
        <5> QED
          BY <5>1, <5>2
      <4>3. ASSUME \A i \in 1..Len(q) : q[i].long \/ q[i].at # x, NEW i \in 1..Len(p)
            PROVE  p[i].long \/ p[i].at # x
        BY <1>3, <4>3
      <4> QED
        BY <1>2, <4>1, <4>2, <4>3 DEF Pairs
    <3> QED
      BY <3>1, <3>2
  <2>4. ASSUME NEW c \in K, NEW i \in 1..Len(q), NEW j \in 1..Len(q), i < j, Past(q[j], c)
        PROVE  Past(q[i], c)
    <3>1. j - 1 \in 1..Len(p) /\ q[j] = p[j - 1]
      BY <1>3, <2>4
    <3>2. CASE i = 1
      BY <1>1, <1>3, <2>1, <3>2 DEF Past
    <3>3. CASE i # 1
      <4>1. i - 1 \in 1..Len(p) /\ q[i] = p[i - 1] /\ i - 1 < j - 1
        BY <1>3, <2>4, <3>3
      <4> QED
        BY <1>2, <2>4, <3>1, <4>1 DEF Pairs
    <3> QED
      BY <3>2, <3>3
  <2>5. /\ \A c, d \in K : c[1] < d[1] <=> c[2] < d[2]
        /\ \A c \in K : sml[c[1]] = big[c[2]]
    BY <1>2 DEF Pairs
  <2> QED
    BY <2>1, <2>2, <2>3, <2>4, <2>5 DEF Pairs
<1> QED
  BY <1>5, <1>6 DEF PathTells, q, e

\* and up to one item more of both, when the two are equal.
LEMMA PathGoesDiagonally ==
  ASSUME NEW sml, NEW big, NEW s \in Nat, NEW b \in Nat, s > 0, b > 0, sml[s] = big[b],
         NEW p, PathTells(p, sml, big, s - 1, b - 1)
  PROVE  PathTells(p, sml, big, s, b)
<1>1. Descends(p, s - 1, b - 1)
  BY DEF PathTells
<1>2. PICK K : Pairs(K, p, sml, big, s - 1, b - 1)
  BY DEF PathTells
<1>3. \A i \in 1..Len(p) : /\ p[i].long => p[i].at \in 1..(b - 1)
                           /\ ~ p[i].long => p[i].at \in 1..(s - 1)
  BY <1>1 DEF Descends
<1>4. Descends(p, s, b)
  <2>1. 1..(b - 1) \subseteq 1..b /\ 1..(s - 1) \subseteq 1..s
    OBVIOUS
  <2> QED
    BY <1>1, <2>1 DEF Descends
<1> DEFINE L == K \cup {<<s, b>>}
<1>5. K \subseteq (1..(s - 1)) \X (1..(b - 1))
  BY <1>2 DEF Pairs
<1>6. \A c \in K : /\ c = <<c[1], c[2]>> /\ c[1] \in 1..(s - 1) /\ c[2] \in 1..(b - 1)
                   /\ c[1] < s /\ c[2] < b /\ ~ (s < c[1]) /\ ~ (b < c[2])
  BY <1>5
<1>7. Pairs(L, p, sml, big, s, b)
  <2>1. L \subseteq (1..s) \X (1..b)
    BY <1>6
  <2>2. ASSUME NEW x \in 1..s
        PROVE  (\E y \in 1..b : <<x, y>> \in L) <=> \A i \in 1..Len(p) : p[i].long \/ p[i].at # x
    <3>1. CASE x = s
      <4>1. b \in 1..b /\ <<x, b>> \in L
        BY <3>1
      <4>2. \A i \in 1..Len(p) : p[i].long \/ p[i].at # x
        BY <1>3, <3>1
      <4> QED
        BY <4>1, <4>2
    <3>2. CASE x # s
      <4>1. x \in 1..(s - 1)
        BY <3>2
      <4>2. \A y : <<x, y>> \in L <=> <<x, y>> \in K
        BY <3>2
      <4>3. (\E y \in 1..b : <<x, y>> \in L) <=> (\E y \in 1..(b - 1) : <<x, y>> \in K)
        <5>1. ASSUME NEW y \in 1..b, <<x, y>> \in K PROVE y \in 1..(b - 1)
          BY <1>5, <5>1
        <5>2. 1..(b - 1) \subseteq 1..b
          OBVIOUS
        <5> QED
          BY <4>2, <5>1, <5>2
      <4> QED
        BY <1>2, <4>1, <4>3 DEF Pairs
    <3> QED
      BY <3>1, <3>2
  <2>3. ASSUME NEW y \in 1..b
        PROVE  (\E x \in 1..s : <<x, y>> \in L) <=> \A i \in 1..Len(p) : ~ p[i].long \/ p[i].at # y
    <3>1. CASE y = b
      <4>1. s \in 1..s /\ <<s, y>> \in L
        BY <3>1
      <4>2. \A i \in 1..Len(p) : ~ p[i].long \/ p[i].at # y
        BY <1>3, <3>1
      <4> QED
        BY <4>1, <4>2
    <3>2. CASE y # b
      <4>1. y \in 1..(b - 1)
        BY <3>2
      <4>2. \A x : <<x, y>> \in L <=> <<x, y>> \in K
        BY <3>2
      <4>3. (\E x \in 1..s : <<x, y>> \in L) <=> (\E x \in 1..(s - 1) : <<x, y>> \in K)
        <5>1. ASSUME NEW x \in 1..s, <<x, y>> \in K PROVE x \in 1..(s - 1)
          BY <1>5, <5>1
        <5>2. 1..(s - 1) \subseteq 1..s
          OBVIOUS
        <5> QED
          BY <4>2, <5>1, <5>2
      <4> QED
        BY <1>2, <4>1, <4>3 DEF Pairs
    <3> QED
      BY <3>1, <3>2
  <2>4. ASSUME NEW c \in L, NEW d \in L PROVE c[1] < d[1] <=> c[2] < d[2]
    <3>1. CASE c \in K /\ d \in K
      BY <1>2, <3>1 DEF Pairs
    <3>2. CASE c \in K /\ d = <<s, b>>
      BY <1>6, <3>2
    <3>3. CASE c = <<s, b>> /\ d \in K
      BY <1>6, <3>3
    <3>4. CASE c = <<s, b>> /\ d = <<s, b>>
      BY <3>4
    <3> QED
      BY <3>1, <3>2, <3>3, <3>4
  <2>5. ASSUME NEW c \in L PROVE sml[c[1]] = big[c[2]]
    BY <1>2 DEF Pairs
  <2>6. ASSUME NEW c \in L, NEW i \in 1..Len(p), NEW j \in 1..Len(p), i < j, Past(p[j], c)
        PROVE  Past(p[i], c)
    <3>1. CASE c \in K
      BY <1>2, <2>6, <3>1 DEF Pairs
    <3>2. CASE c = <<s, b>>
      <4>1. /\ p[j].long => p[j].at > b
            /\ ~ p[j].long => p[j].at > s
        BY <2>6, <3>2 DEF Past
      <4> QED
        BY <1>3, <4>1
    <3> QED
      BY <3>1, <3>2
  <2> HIDE DEF L
  <2> QED
    BY <2>1, <2>2, <2>3, <2>4, <2>5, <2>6 DEF Pairs
<1> QED
  BY <1>4, <1>7 DEF PathTells

\* So the whole path tells of the whole arrays.
LEMMA DifferencesTell ==
  ASSUME NEW sml, NEW big, Sides(sml, big)
  PROVE  PathTells(Differences(sml, big), sml, big, Len(sml), Len(big))
<1> DEFINE cell == EditDistance(sml, big)
           cells == InBand(sml, big)
<1>1. PICK path : /\ \A c \in cells : path[c] = PathFrom(path, cell, c)
                  /\ Differences(sml, big) = path[<<Len(sml), Len(big)>>]
  BY PathFollows
<1> DEFINE Told(c) == PathTells(path[c], sml, big, c[1], c[2])
           Reached == {k \in Nat : \A c \in cells : c[1] + c[2] < k => Told(c)}
<1>2. \A c \in cells : c[1] \in Nat /\ c[2] \in Nat /\ c = <<c[1], c[2]>>
                       /\ c[1] <= Len(sml) /\ c[2] <= Len(big)
  BY DEF Sides, InBand
<1>3. 0 \in Reached
  <2>1. \A c \in cells : ~ (c[1] + c[2] < 0)
    BY <1>2
  <2> QED
    BY <2>1
<1>4. ASSUME NEW k \in Nat, k \in Reached PROVE k + 1 \in Reached
  <2>1. ASSUME NEW c \in cells, c[1] + c[2] < k + 1 PROVE Told(c)
    <3> DEFINE s == c[1]
               b == c[2]
    <3>1. s \in Nat /\ b \in Nat /\ c = <<s, b>> /\ s + b < k + 1 /\ path[c] = PathFrom(path, cell, c)
      BY <1>1, <1>2, <2>1
    <3>2. CASE s + b = 0
      <4>1. path[c] = <<>> /\ s = 0 /\ b = 0
        BY <3>1, <3>2 DEF PathFrom
      <4>2. Descends(<<>>, 0, 0)
        BY DEF Descends
      <4>3. Pairs({}, <<>>, sml, big, 0, 0)
        BY DEF Pairs
      <4> QED
        BY <4>1, <4>2, <4>3 DEF PathTells
    <3>3. CASE s + b # 0
      <4>1. /\ West(cell, s, b) => <<s, b - 1>> \in cells
            /\ North(cell, s, b) => <<s - 1, b>> \in cells
            /\ ~ West(cell, s, b) /\ ~ North(cell, s, b) =>
                 s > 0 /\ b > 0 /\ sml[s] = big[b] /\ <<s - 1, b - 1>> \in cells
        <5>1. <<s, b>> \in cells
          BY <3>1
        <5> HIDE DEF s, b
        <5> QED
          BY <3>3, <5>1, PathInBand
      <4>2. /\ West(cell, s, b) <=> b > 0 /\ cell[<<s, b - 1>>] = cell[c] - 1
            /\ North(cell, s, b) <=> s > 0 /\ cell[<<s - 1, b>>] = cell[c] - 1
        <5> HIDE DEF s, b, cell
        <5> QED
          BY <3>1 DEF West, North
      <4>3. /\ \A d \in cells : d[1] + d[2] < k => Told(d)
            /\ s + (b - 1) < k /\ (s - 1) + b < k /\ (s - 1) + (b - 1) < k
        BY <1>4, <3>1
      <4> HIDE DEF cells, cell
      <4>4. CASE West(cell, s, b)
        <5>1. path[c] = <<[long |-> TRUE, at |-> b]>> \o path[<<s, b - 1>>]
          BY <3>1, <3>3, <4>2, <4>4 DEF PathFrom
        <5>2. PathTells(path[<<s, b - 1>>], sml, big, s, b - 1) /\ b > 0
          BY <4>1, <4>2, <4>3, <4>4
        <5> HIDE DEF s, b
        <5>3. PathTells(path[c], sml, big, s, b)
          BY <3>1, <5>1, <5>2, PathGoesWest
        <5> QED
          BY <5>3 DEF s, b
      <4>5. CASE ~ West(cell, s, b) /\ North(cell, s, b)
        <5>1. path[c] = <<[long |-> FALSE, at |-> s]>> \o path[<<s - 1, b>>]
          BY <3>1, <3>3, <4>2, <4>5 DEF PathFrom
        <5>2. PathTells(path[<<s - 1, b>>], sml, big, s - 1, b) /\ s > 0
          BY <4>1, <4>2, <4>3, <4>5
        <5> HIDE DEF s, b
        <5>3. PathTells(path[c], sml, big, s, b)
          BY <3>1, <5>1, <5>2, PathGoesNorth
        <5> QED
          BY <5>3 DEF s, b
      <4>6. CASE ~ West(cell, s, b) /\ ~ North(cell, s, b)
        <5>1. path[c] = path[<<s - 1, b - 1>>]
          BY <3>1, <3>3, <4>2, <4>6 DEF PathFrom
        <5>2. /\ PathTells(path[<<s - 1, b - 1>>], sml, big, s - 1, b - 1)
              /\ s > 0 /\ b > 0 /\ sml[s] = big[b]
          BY <4>1, <4>3, <4>6
        <5> HIDE DEF s, b
        <5>3. PathTells(path[c], sml, big, s, b)
          BY <3>1, <5>1, <5>2, PathGoesDiagonally
        <5> QED
          BY <5>3 DEF s, b
      <4> QED
        BY <4>4, <4>5, <4>6
    <3> QED
      BY <3>2, <3>3
  <2> HIDE DEF Told
  <2> QED
    BY <2>1
<1>5. <<Len(sml), Len(big)>> \in cells
  <2>1. Len(sml) \in 0..Len(sml) /\ Len(big) \in 0..Len(big)
    BY DEF Sides
  <2>2. Len(big) \in Band(Len(sml), sml, big)
    <3>1. Len(sml) \in 0..Len(sml) /\ Len(big) \in Int
      BY DEF Sides
    <3> QED
      BY <3>1, BandProperties
  <2> QED
    BY <2>1, <2>2 DEF InBand
<1>6. Told(<<Len(sml), Len(big)>>)
  <2> DEFINE k == Len(sml) + Len(big) + 1
  <2>1. k \in Nat /\ Len(sml) + Len(big) < k
    BY DEF Sides
  <2> HIDE DEF Told, cells, k
  <2>2. k \in Reached
    <3> HIDE DEF Reached
    <3> QED
      BY <1>3, <1>4, <2>1, SetInduction
  <2> QED
    BY <1>5, <2>1, <2>2
<1> QED
  BY <1>1, <1>6

\* A script tells of two contents when some pairs of positions, one in each,
\* are left as they are and the script says the rest.
LEMMA ScriptOfPairs ==
  ASSUME NEW old, NEW new, DOMAIN old \subseteq Int, DOMAIN new \subseteq Int, NEW script, NEW K,
         K \subseteq (DOMAIN old) \X (DOMAIN new),
         \A o \in DOMAIN old : (\E n \in DOMAIN new : <<o, n>> \in K) <=> o \notin Named(script, "deleted"),
         \A n \in DOMAIN new : (\E o \in DOMAIN old : <<o, n>> \in K) <=> n \notin Named(script, "added"),
         \A c, d \in K : c[1] < d[1] <=> c[2] < d[2],
         \A c \in K : old[c[1]] = new[c[2]],
         \A c \in K, i, j \in DOMAIN script :
           i < j /\ Later(script[i], c[1], c[2]) => Later(script[j], c[1], c[2]),
         \A i \in DOMAIN script :
           \/ script[i].status = "deleted" /\ script[i].index \in DOMAIN old /\ script[i].value = old[script[i].index]
           \/ script[i].status = "added" /\ script[i].index \in DOMAIN new /\ script[i].value = new[script[i].index],
         \A i, j \in DOMAIN script :
           i < j /\ script[i].status = script[j].status => script[i].index < script[j].index
  PROVE  Tells(script, old, new)
<1> DEFINE left == DOMAIN old \ Named(script, "deleted")
           right == DOMAIN new \ Named(script, "added")
           at == [o \in left |-> CHOOSE n \in right : <<o, n>> \in K]
<1>1. \A c \in K : c = <<c[1], c[2]>> /\ c[1] \in left /\ c[2] \in right
  <2>1. ASSUME NEW c \in K PROVE c = <<c[1], c[2]>> /\ c[1] \in DOMAIN old /\ c[2] \in DOMAIN new
    OBVIOUS
  <2> QED
    BY <2>1
<1>2. \A o \in left : at[o] \in right /\ <<o, at[o]>> \in K
  <2>1. \A o \in left : \E n \in right : <<o, n>> \in K
    <3>1. ASSUME NEW o \in left PROVE \E n \in right : <<o, n>> \in K
      <4>1. PICK n \in DOMAIN new : <<o, n>> \in K
        OBVIOUS
      <4>2. n \notin Named(script, "added")
        BY <4>1
      <4> QED
        BY <4>1, <4>2
    <3> QED
      BY <3>1
  <2> HIDE DEF left, right
  <2> QED
    BY <2>1
<1>3. at \in [left -> right]
  <2>1. \A o \in left : at[o] \in right
    BY <1>2
  <2> HIDE DEF left, right
  <2> QED
    BY <2>1
<1>4. \A c, d \in K : c[1] = d[1] => c[2] = d[2]
  <2>1. ASSUME NEW c \in K, NEW d \in K, c[1] = d[1] PROVE c[2] = d[2]
    <3>1. c[1] \in Int /\ c[2] \in Int /\ d[1] \in Int /\ d[2] \in Int
      BY <1>1
    <3>2. ~ (c[1] < d[1]) /\ ~ (d[1] < c[1])
      BY <2>1, <3>1
    <3>3. ~ (c[2] < d[2]) /\ ~ (d[2] < c[2])
      BY <3>2
    <3> QED
      BY <3>1, <3>3
  <2> QED
    BY <2>1
<1>a. left \subseteq DOMAIN old /\ right \subseteq DOMAIN new
  OBVIOUS
<1> HIDE DEF at
<1>5. ASSUME NEW n \in right PROVE \E o \in left : at[o] = n
  <2>1. PICK o \in DOMAIN old : <<o, n>> \in K
    OBVIOUS
  <2>2. o \in left
    BY <1>1, <2>1
  <2>3. <<o, at[o]>> \in K
    BY <1>2, <2>2
  <2>4. at[o] = n
    <3> DEFINE c == <<o, at[o]>>
               d == <<o, n>>
    <3>1. c[1] = d[1] /\ c[2] = at[o] /\ d[2] = n /\ c \in K /\ d \in K
      BY <2>1, <2>3
    <3> HIDE DEF c, d
    <3> QED
      BY <1>4, <3>1
  <2> QED
    BY <2>2, <2>4
<1>6. ASSUME NEW o \in left PROVE new[at[o]] = old[o]
  <2> DEFINE c == <<o, at[o]>>
  <2>1. c \in K /\ c[1] = o /\ c[2] = at[o]
    BY <1>2
  <2> HIDE DEF c
  <2> QED
    BY <2>1
<1>7. ASSUME NEW o \in left, NEW p \in left, o < p PROVE at[o] < at[p]
  <2> DEFINE c == <<o, at[o]>>
             d == <<p, at[p]>>
  <2>1. c \in K /\ c[1] = o /\ c[2] = at[o] /\ d \in K /\ d[1] = p /\ d[2] = at[p]
    BY <1>2
  <2> HIDE DEF c, d
  <2> QED
    BY <1>7, <2>1
<1>8. ASSUME NEW o \in left, NEW i \in DOMAIN script, NEW j \in DOMAIN script,
             i < j, Later(script[i], o, at[o])
      PROVE  Later(script[j], o, at[o])
  <2> DEFINE c == <<o, at[o]>>
  <2>1. c \in K /\ c[1] = o /\ c[2] = at[o]
    BY <1>2
  <2> HIDE DEF c
  <2>2. Later(script[i], c[1], c[2])
    BY <1>8, <2>1
  <2>3. Later(script[j], c[1], c[2])
    BY <1>8, <2>1, <2>2
  <2> QED
    BY <2>1, <2>3
<1> QED
  BY <1>3, <1>5, <1>6, <1>7, <1>8 DEF Tells

\* The script has the entries in reverse, and marks change neither what an
\* entry is nor where.
LEMMA MarkedScript ==
  ASSUME NEW n \in Nat, NEW entries, DOMAIN entries = 1..n, Len(entries) = n, Plain(entries), NEW grows, NEW limit,
         NEW script, script = Marked(entries, grows, limit)
  PROVE  /\ DOMAIN script = 1..n
         /\ \A i \in 1..n :
              /\ script[i].status = entries[(n - i) + 1].status
              /\ script[i].index = entries[(n - i) + 1].index
              /\ script[i].value = entries[(n - i) + 1].value
<1> DEFINE moves == MovesIn(entries, grows, limit)
           reversed == Reverse(entries)
<1>1. reversed = [i \in 1..n |-> entries[(n - i) + 1]]
  BY DEF Reverse
<1>2. script = MarkMoves(reversed, moves)
  BY DEF Marked
<1> HIDE DEF moves, reversed
<1>3. DOMAIN reversed = 1..n /\ Len(reversed) = n /\ \A i \in 1..n : reversed[i] = entries[(n - i) + 1]
  BY <1>1
<1>4. Plain(reversed)
  <2>1. \A i \in 1..n : (n - i) + 1 \in 1..n
    OBVIOUS
  <2> QED
    BY <1>3, <2>1 DEF Plain
<1>5. /\ DOMAIN script = 1..n
      /\ \A i \in 1..n : /\ script[i].status = reversed[i].status
                         /\ script[i].index = reversed[i].index
                         /\ script[i].value = reversed[i].value
  BY <1>2, <1>3, <1>4, MarkedEntries
<1> QED
  BY <1>3, <1>5

\* The entries say what the path says.
LEMMA EntriesLength ==
  ASSUME NEW sml, NEW big, NEW p \in Seq(PathEntry), NEW grows
  PROVE  DOMAIN Entries(p, sml, big, grows) = 1..Len(p) /\ Len(Entries(p, sml, big, grows)) = Len(p)
<1>1. DOMAIN p = 1..Len(p) /\ Len(p) \in Nat
  BY LenProperties
<1> QED
  BY <1>1 DEF Entries

LEMMA EntriesOfPath ==
  ASSUME NEW sml, NEW big, NEW p \in Seq(PathEntry), NEW grows \in BOOLEAN, NEW i \in 1..Len(p)
  PROVE  Entries(p, sml, big, grows)[i] =
           IF p[i].long THEN IF grows THEN Added(big[p[i].at], p[i].at) ELSE Deleted(big[p[i].at], p[i].at)
           ELSE IF grows THEN Deleted(sml[p[i].at], p[i].at) ELSE Added(sml[p[i].at], p[i].at)
<1>1. DOMAIN p = 1..Len(p)
  BY LenProperties
<1>2. Entries(p, sml, big, grows)[i] = IF p[i].long THEN Entry(p[i], big, grows) ELSE Entry(p[i], sml, ~ grows)
  BY <1>1 DEF Entries
<1>3. CASE grows
  BY <1>2, <1>3, Zenon DEF Entry
<1>4. CASE ~ grows
  BY <1>2, <1>4, Zenon DEF Entry
<1> QED
  BY <1>3, <1>4

\* A script that reads a path back from its end, where "isNew" are the
\* entries on the side of the new contents.
Reads(script, p, sml, big, grows) ==
  /\ DOMAIN script = 1..Len(p)
  /\ \A i \in 1..Len(p) :
       LET e == p[(Len(p) - i) + 1] IN
       /\ e.long => script[i].status = (IF grows THEN "added" ELSE "deleted") /\ script[i].value = big[e.at]
       /\ ~ e.long => script[i].status = (IF grows THEN "deleted" ELSE "added") /\ script[i].value = sml[e.at]
       /\ script[i].index = e.at

\* The entries of a path are not marked.
LEMMA EntriesArePlain ==
  ASSUME NEW sml, NEW big, NEW p \in Seq(PathEntry), NEW grows \in BOOLEAN
  PROVE  Plain(Entries(p, sml, big, grows))
<1> DEFINE entries == Entries(p, sml, big, grows)
           n == Len(p)
<1>2. DOMAIN entries = 1..n /\ Len(entries) = n
  BY EntriesLength
<1>3. ASSUME NEW i \in 1..n
      PROVE  entries[i] =
               IF p[i].long THEN IF grows THEN Added(big[p[i].at], p[i].at) ELSE Deleted(big[p[i].at], p[i].at)
               ELSE IF grows THEN Deleted(sml[p[i].at], p[i].at) ELSE Added(sml[p[i].at], p[i].at)
  BY EntriesOfPath, ZenonT(30)
<1> HIDE DEF entries
<1>4. \A i \in 1..n : \E v, k : entries[i] = Added(v, k) \/ entries[i] = Deleted(v, k)
  <2>1. ASSUME NEW i \in 1..n PROVE \E v, k : entries[i] = Added(v, k) \/ entries[i] = Deleted(v, k)
    <3>1. CASE p[i].long /\ grows
      <4>1. entries[i] = Added(big[p[i].at], p[i].at)
        BY <1>3, <3>1
      <4> QED
        BY <4>1, Zenon
    <3>2. CASE p[i].long /\ ~ grows
      <4>1. entries[i] = Deleted(big[p[i].at], p[i].at)
        BY <1>3, <3>2
      <4> QED
        BY <4>1, Zenon
    <3>3. CASE ~ p[i].long /\ grows
      <4>1. entries[i] = Deleted(sml[p[i].at], p[i].at)
        BY <1>3, <3>3
      <4> QED
        BY <4>1, Zenon
    <3>4. CASE ~ p[i].long /\ ~ grows
      <4>1. entries[i] = Added(sml[p[i].at], p[i].at)
        BY <1>3, <3>4
      <4> QED
        BY <4>1, Zenon
    <3> QED
      BY <3>1, <3>2, <3>3, <3>4
  <2> QED
    BY <2>1
<1> QED
  BY <1>2, <1>4 DEF entries, Plain

\* The marked entries of a path read it back.
LEMMA MarkedReads ==
  ASSUME NEW sml, NEW big, NEW p \in Seq(PathEntry), NEW grows \in BOOLEAN, NEW limit
  PROVE  Reads(Marked(Entries(p, sml, big, grows), grows, limit), p, sml, big, grows)
<1> DEFINE entries == Entries(p, sml, big, grows)
           script == Marked(entries, grows, limit)
           n == Len(p)
<1>1. n \in Nat
  BY LenProperties
<1>2. DOMAIN entries = 1..n /\ Len(entries) = n
  BY EntriesLength
<1>3. ASSUME NEW i \in 1..n
      PROVE  entries[i] =
               IF p[i].long THEN IF grows THEN Added(big[p[i].at], p[i].at) ELSE Deleted(big[p[i].at], p[i].at)
               ELSE IF grows THEN Deleted(sml[p[i].at], p[i].at) ELSE Added(sml[p[i].at], p[i].at)
  BY EntriesOfPath, ZenonT(30)
<1> HIDE DEF entries
<1>4. Plain(entries)
  BY EntriesArePlain DEF entries
<1>5. /\ DOMAIN script = 1..n
      /\ \A i \in 1..n :
           /\ script[i].status = entries[(n - i) + 1].status
           /\ script[i].index = entries[(n - i) + 1].index
           /\ script[i].value = entries[(n - i) + 1].value
  <2> HIDE DEF n
  <2> QED
    BY <1>1, <1>2, <1>4, MarkedScript
<1>6. ASSUME NEW k \in 1..n
      PROVE  /\ p[k].long => /\ entries[k].status = (IF grows THEN "added" ELSE "deleted")
                             /\ entries[k].value = big[p[k].at]
             /\ ~ p[k].long => /\ entries[k].status = (IF grows THEN "deleted" ELSE "added")
                               /\ entries[k].value = sml[p[k].at]
             /\ entries[k].index = p[k].at
  <2>1. CASE p[k].long /\ grows
    <3>1. entries[k] = Added(big[p[k].at], p[k].at)
      BY <1>3, <2>1
    <3> QED
      BY <2>1, <3>1 DEF Added
  <2>2. CASE p[k].long /\ ~ grows
    <3>1. entries[k] = Deleted(big[p[k].at], p[k].at)
      BY <1>3, <2>2
    <3> QED
      BY <2>2, <3>1 DEF Deleted
  <2>3. CASE ~ p[k].long /\ grows
    <3>1. entries[k] = Deleted(sml[p[k].at], p[k].at)
      BY <1>3, <2>3
    <3> QED
      BY <2>3, <3>1 DEF Deleted
  <2>4. CASE ~ p[k].long /\ ~ grows
    <3>1. entries[k] = Added(sml[p[k].at], p[k].at)
      BY <1>3, <2>4
    <3> QED
      BY <2>4, <3>1 DEF Added
  <2> QED
    BY <2>1, <2>2, <2>3, <2>4
<1>7. \A i \in 1..n : (n - i) + 1 \in 1..n
  BY <1>1
<1> HIDE DEF script
<1>8. Reads(script, p, sml, big, grows)
  <2>1. ASSUME NEW i \in 1..n
        PROVE  LET e == p[(n - i) + 1] IN
               /\ e.long => /\ script[i].status = (IF grows THEN "added" ELSE "deleted")
                            /\ script[i].value = big[e.at]
               /\ ~ e.long => /\ script[i].status = (IF grows THEN "deleted" ELSE "added")
                              /\ script[i].value = sml[e.at]
               /\ script[i].index = e.at
    <3> DEFINE k == (n - i) + 1
    <3>1. k \in 1..n
      BY <1>7
    <3>2. /\ script[i].status = entries[k].status
          /\ script[i].index = entries[k].index
          /\ script[i].value = entries[k].value
      BY <1>5
    <3> HIDE DEF k
    <3>3. /\ p[k].long => /\ script[i].status = (IF grows THEN "added" ELSE "deleted")
                          /\ script[i].value = big[p[k].at]
          /\ ~ p[k].long => /\ script[i].status = (IF grows THEN "deleted" ELSE "added")
                            /\ script[i].value = sml[p[k].at]
          /\ script[i].index = p[k].at
      BY <1>6, <3>1, <3>2
    <3> QED
      BY <3>3 DEF k
  <2> QED
    BY <1>5, <2>1 DEF Reads
<1> QED
  BY <1>8 DEF script, entries

\* The order of a path, read back.
LEMMA ReadBack ==
  ASSUME NEW n \in Nat
  PROVE  /\ \A i \in 1..n : (n - i) + 1 \in 1..n /\ (n - ((n - i) + 1)) + 1 = i
         /\ \A i, j \in 1..n : i < j => (n - j) + 1 < (n - i) + 1
OBVIOUS

\* What reads back a path that tells of two arrays tells of them as well.
LEMMA GrownTells ==
  ASSUME NEW sml, DOMAIN sml = 1..Len(sml), Len(sml) \in Nat,
         NEW big, DOMAIN big = 1..Len(big), Len(big) \in Nat,
         NEW p, PathTells(p, sml, big, Len(sml), Len(big)),
         NEW script, Reads(script, p, sml, big, TRUE)
  PROVE  Tells(script, sml, big)
<1> DEFINE n == Len(p)
           back(i) == (n - i) + 1
<1>1. /\ p \in Seq(PathEntry) /\ n \in Nat
      /\ \A i \in 1..n : p[i].long => p[i].at \in DOMAIN big
      /\ \A i \in 1..n : ~ p[i].long => p[i].at \in DOMAIN sml
      /\ \A i, j \in 1..n : i < j /\ p[i].long /\ p[j].long => p[i].at > p[j].at
      /\ \A i, j \in 1..n : i < j /\ ~ p[i].long /\ ~ p[j].long => p[i].at > p[j].at
  BY LenProperties DEF PathTells, Descends
<1>2. /\ \A i \in 1..n : back(i) \in 1..n /\ back(back(i)) = i
      /\ \A i, j \in 1..n : i < j => back(j) < back(i)
  BY <1>1, ReadBack
<1>3. DOMAIN script = 1..n
  BY DEF Reads
<1>4. \A i \in 1..n :
        /\ p[back(i)].long => script[i].status = "added" /\ script[i].value = big[p[back(i)].at]
        /\ ~ p[back(i)].long => script[i].status = "deleted" /\ script[i].value = sml[p[back(i)].at]
        /\ script[i].index = p[back(i)].at
  BY DEF Reads
<1>5. PICK K : Pairs(K, p, sml, big, Len(sml), Len(big))
  BY DEF PathTells
<1>6. DOMAIN sml = 1..Len(sml) /\ DOMAIN big = 1..Len(big) /\ DOMAIN sml \subseteq Int /\ DOMAIN big \subseteq Int
  OBVIOUS
<1> HIDE DEF n, back
<1>7. \A i \in 1..n : /\ p[i].long => script[back(i)].status = "added"
                      /\ ~ p[i].long => script[back(i)].status = "deleted"
                      /\ script[back(i)].index = p[i].at
  <2>1. ASSUME NEW i \in 1..n
        PROVE  /\ p[i].long => script[back(i)].status = "added"
               /\ ~ p[i].long => script[back(i)].status = "deleted"
               /\ script[back(i)].index = p[i].at
    BY <1>2, <1>4
  <2> QED
    BY <2>1
<1>8. ASSUME NEW o \in DOMAIN sml
      PROVE  (\E m \in DOMAIN big : <<o, m>> \in K) <=> o \notin Named(script, "deleted")
  <2>1. (\E m \in DOMAIN big : <<o, m>> \in K) <=> \A i \in 1..n : p[i].long \/ p[i].at # o
    BY <1>5, <1>6 DEF Pairs, n
  <2>2. ASSUME \A i \in 1..n : p[i].long \/ p[i].at # o, o \in Named(script, "deleted") PROVE FALSE
    <3>1. PICK i \in 1..n : script[i].status = "deleted" /\ script[i].index = o
      BY <1>3, <2>2 DEF Named
    <3> QED
      BY <1>2, <1>4, <2>2, <3>1
  <2>3. ASSUME o \notin Named(script, "deleted"), NEW i \in 1..n PROVE p[i].long \/ p[i].at # o
    <3>1. back(i) \in DOMAIN script
      BY <1>2, <1>3
    <3> QED
      BY <1>7, <2>3, <3>1 DEF Named
  <2> QED
    BY <2>1, <2>2, <2>3
<1>9. ASSUME NEW m \in DOMAIN big
      PROVE  (\E o \in DOMAIN sml : <<o, m>> \in K) <=> m \notin Named(script, "added")
  <2>1. (\E o \in DOMAIN sml : <<o, m>> \in K) <=> \A i \in 1..n : ~ p[i].long \/ p[i].at # m
    BY <1>5, <1>6 DEF Pairs, n
  <2>2. ASSUME \A i \in 1..n : ~ p[i].long \/ p[i].at # m, m \in Named(script, "added") PROVE FALSE
    <3>1. PICK i \in 1..n : script[i].status = "added" /\ script[i].index = m
      BY <1>3, <2>2 DEF Named
    <3> QED
      BY <1>2, <1>4, <2>2, <3>1
  <2>3. ASSUME m \notin Named(script, "added"), NEW i \in 1..n PROVE ~ p[i].long \/ p[i].at # m
    <3>1. back(i) \in DOMAIN script
      BY <1>2, <1>3
    <3> QED
      BY <1>7, <2>3, <3>1 DEF Named
  <2> QED
    BY <2>1, <2>2, <2>3
<1>10. ASSUME NEW c \in K, NEW i \in DOMAIN script, NEW j \in DOMAIN script,
              i < j, Later(script[i], c[1], c[2])
       PROVE  Later(script[j], c[1], c[2])
  <2>1. back(i) \in 1..n /\ back(j) \in 1..n /\ back(j) < back(i)
    BY <1>2, <1>3, <1>10
  <2>2. /\ Later(script[i], c[1], c[2]) <=> Past(p[back(i)], c)
        /\ Later(script[j], c[1], c[2]) <=> Past(p[back(j)], c)
    BY <1>3, <1>4 DEF Later, Past
  <2> QED
    BY <1>5, <1>10, <2>1, <2>2 DEF Pairs, n
<1>11. ASSUME NEW i \in DOMAIN script
       PROVE  \/ script[i].status = "deleted" /\ script[i].index \in DOMAIN sml /\ script[i].value = sml[script[i].index]
              \/ script[i].status = "added" /\ script[i].index \in DOMAIN big /\ script[i].value = big[script[i].index]
  BY <1>1, <1>2, <1>3, <1>4
<1>12. ASSUME NEW i \in DOMAIN script, NEW j \in DOMAIN script, i < j, script[i].status = script[j].status
       PROVE  script[i].index < script[j].index
  <2>1. back(i) \in 1..n /\ back(j) \in 1..n /\ back(j) < back(i)
    BY <1>2, <1>3, <1>12
  <2>2. p[back(i)].long <=> p[back(j)].long
    BY <1>3, <1>4, <1>12
  <2>3. \A k \in 1..n : p[k].at \in Int
    BY <1>1, <1>6
  <2>4. p[back(j)].at > p[back(i)].at \/ p[back(i)].at < p[back(j)].at
    BY <1>1, <2>1, <2>2
  <2>5. p[back(i)].at < p[back(j)].at
    BY <2>1, <2>3, <2>4
  <2> QED
    BY <1>3, <1>4, <2>5
<1>13. /\ K \subseteq (DOMAIN sml) \X (DOMAIN big)
       /\ \A c, d \in K : c[1] < d[1] <=> c[2] < d[2]
       /\ \A c \in K : sml[c[1]] = big[c[2]]
  BY <1>5, <1>6 DEF Pairs
<1> QED
  BY <1>6, <1>8, <1>9, <1>10, <1>11, <1>12, <1>13, ScriptOfPairs

\* The same path with the two arrays exchanged.
Flipped(p) == [i \in 1..Len(p) |-> [long |-> ~ p[i].long, at |-> p[i].at]]

LEMMA FlippedTells ==
  ASSUME NEW sml, NEW big, NEW s \in Nat, NEW b \in Nat, NEW p, PathTells(p, sml, big, s, b)
  PROVE  PathTells(Flipped(p), big, sml, b, s) /\ Len(Flipped(p)) = Len(p)
<1> DEFINE n == Len(p)
           q == Flipped(p)
<1>1. Descends(p, s, b) /\ p \in Seq(PathEntry) /\ n \in Nat
  BY LenProperties DEF PathTells, Descends
<1>2. /\ DOMAIN q = 1..n /\ Len(q) = n
      /\ \A i \in 1..n : (q[i].long <=> ~ p[i].long) /\ q[i].at = p[i].at /\ q[i] \in PathEntry
  <2>1. \A i \in 1..n : p[i] \in PathEntry
    BY <1>1, ElementOfSeq
  <2>2. q = [i \in 1..n |-> [long |-> ~ p[i].long, at |-> p[i].at]]
    BY DEF Flipped
  <2>3. DOMAIN q = 1..n /\ Len(q) = n
    BY <1>1, <2>2
  <2>4. ASSUME NEW i \in 1..n
        PROVE  (q[i].long <=> ~ p[i].long) /\ q[i].at = p[i].at /\ q[i] \in PathEntry
    <3>1. q[i] = [long |-> ~ p[i].long, at |-> p[i].at]
      BY <2>2
    <3>2. p[i].at \in Nat
      BY <2>1 DEF PathEntry
    <3> DEFINE flip == ~ p[i].long
    <3>3. flip \in BOOLEAN /\ q[i] = [long |-> flip, at |-> p[i].at]
      BY <3>1, Zenon
    <3>4. flip <=> ~ p[i].long
      OBVIOUS
    <3> HIDE DEF flip
    <3>5. q[i].long = flip /\ q[i].at = p[i].at /\ q[i] \in PathEntry
      BY <3>2, <3>3 DEF PathEntry
    <3>6. q[i].long <=> flip
      BY <3>5, Zenon
    <3> QED
      BY <3>4, <3>5, <3>6
  <2> QED
    BY <2>3, <2>4
<1>3. q \in Seq(PathEntry)
  <2>1. q \in [1..n -> PathEntry]
    BY <1>2 DEF Flipped
  <2> QED
    BY <1>1, <2>1
<1> HIDE DEF q
<1>4. Descends(q, b, s)
  <2> HIDE DEF n
  <2>1. /\ \A i \in 1..n : p[i].long => p[i].at \in 1..b
        /\ \A i \in 1..n : ~ p[i].long => p[i].at \in 1..s
        /\ \A i, j \in 1..n : i < j /\ p[i].long /\ p[j].long => p[i].at > p[j].at
        /\ \A i, j \in 1..n : i < j /\ ~ p[i].long /\ ~ p[j].long => p[i].at > p[j].at
    BY <1>1 DEF Descends, n
  <2> QED
    BY <1>2, <1>3, <2>1 DEF Descends
<1>5. PICK K : Pairs(K, p, sml, big, s, b)
  BY DEF PathTells
<1> DEFINE M == {<<c[2], c[1]>> : c \in K}
<1>6. K \subseteq (1..s) \X (1..b)
  BY <1>5 DEF Pairs
<1>7. /\ \A x, y : <<y, x>> \in M <=> <<x, y>> \in K
      /\ \A c \in M : /\ <<c[2], c[1]>> \in K /\ c = <<c[1], c[2]>>
                      /\ c[1] \in 1..b /\ c[2] \in 1..s
  BY <1>6
<1> HIDE DEF M
<1>8. Pairs(M, q, big, sml, b, s)
  <2>1. M \subseteq (1..b) \X (1..s)
    <3>1. ASSUME NEW c \in M PROVE c \in (1..b) \X (1..s)
      <4>1. c[1] \in 1..b /\ c[2] \in 1..s
        BY <1>7
      <4>2. <<c[1], c[2]>> \in (1..b) \X (1..s)
        BY <4>1
      <4>3. c = <<c[1], c[2]>>
        BY <1>7
      <4> HIDE DEF M
      <4> QED
        BY <4>2, <4>3, Zenon
    <3> QED
      BY <3>1
  <2>2. ASSUME NEW y \in 1..b
        PROVE  (\E x \in 1..s : <<y, x>> \in M) <=> \A i \in 1..Len(q) : q[i].long \/ q[i].at # y
    <3>1. (\E x \in 1..s : <<x, y>> \in K) <=> \A i \in 1..n : ~ p[i].long \/ p[i].at # y
      BY <1>5 DEF Pairs
    <3> QED
      BY <1>2, <1>7, <3>1
  <2>3. ASSUME NEW x \in 1..s
        PROVE  (\E y \in 1..b : <<y, x>> \in M) <=> \A i \in 1..Len(q) : ~ q[i].long \/ q[i].at # x
    <3>1. (\E y \in 1..b : <<x, y>> \in K) <=> \A i \in 1..n : p[i].long \/ p[i].at # x
      BY <1>5 DEF Pairs
    <3> QED
      BY <1>2, <1>7, <3>1
  <2>4. ASSUME NEW c \in M, NEW d \in M PROVE (c[1] < d[1] <=> c[2] < d[2]) /\ big[c[1]] = sml[c[2]]
    <3> DEFINE k == <<c[2], c[1]>>
               l == <<d[2], d[1]>>
    <3>1. k \in K /\ l \in K /\ k[1] = c[2] /\ k[2] = c[1] /\ l[1] = d[2] /\ l[2] = d[1]
      BY <1>7
    <3> HIDE DEF k, l
    <3>2. (k[1] < l[1] <=> k[2] < l[2]) /\ sml[k[1]] = big[k[2]]
      BY <1>5, <3>1 DEF Pairs
    <3> QED
      BY <3>1, <3>2
  <2>5. ASSUME NEW c \in M, NEW i \in 1..Len(q), NEW j \in 1..Len(q), i < j, Past(q[j], c)
        PROVE  Past(q[i], c)
    <3> DEFINE k == <<c[2], c[1]>>
    <3>1. k \in K /\ k[1] = c[2] /\ k[2] = c[1]
      BY <1>7
    <3> HIDE DEF k
    <3>2. \A t \in 1..n : Past(q[t], c) <=> Past(p[t], k)
      BY <1>2, <3>1 DEF Past
    <3> QED
      BY <1>2, <1>5, <2>5, <3>1, <3>2 DEF Pairs
  <2> QED
    BY <2>1, <2>2, <2>3, <2>4, <2>5 DEF Pairs
<1> QED
  BY <1>2, <1>4, <1>8 DEF PathTells, q

LEMMA FlippedReads ==
  ASSUME NEW sml, NEW big, NEW p \in Seq(PathEntry), NEW script, Reads(script, p, sml, big, FALSE),
         Len(Flipped(p)) = Len(p)
  PROVE  Reads(script, Flipped(p), big, sml, TRUE)
<1> DEFINE n == Len(p)
           q == Flipped(p)
<1>1. n \in Nat
  BY LenProperties
<1>2. \A i \in 1..n : (q[i].long <=> ~ p[i].long) /\ q[i].at = p[i].at
  BY DEF Flipped
<1>3. \A i \in 1..n : (n - i) + 1 \in 1..n
  BY <1>1, ReadBack
<1>4. DOMAIN script = 1..n
  BY DEF Reads
<1> HIDE DEF q
<1>5. ASSUME NEW i \in 1..n
      PROVE  LET e == q[(n - i) + 1] IN
             /\ e.long => script[i].status = "added" /\ script[i].value = sml[e.at]
             /\ ~ e.long => script[i].status = "deleted" /\ script[i].value = big[e.at]
             /\ script[i].index = e.at
  <2> DEFINE k == (n - i) + 1
  <2>1. k \in 1..n
    BY <1>3
  <2>2. /\ p[k].long => script[i].status = "deleted" /\ script[i].value = big[p[k].at]
        /\ ~ p[k].long => script[i].status = "added" /\ script[i].value = sml[p[k].at]
        /\ script[i].index = p[k].at
    BY DEF Reads
  <2> HIDE DEF k
  <2>3. /\ q[k].long => script[i].status = "added" /\ script[i].value = sml[q[k].at]
        /\ ~ q[k].long => script[i].status = "deleted" /\ script[i].value = big[q[k].at]
        /\ script[i].index = q[k].at
    BY <1>2, <2>1, <2>2
  <2> QED
    BY <2>3 DEF k
<1>6. Len(q) = n
  BY DEF q
<1> HIDE DEF n
<1>7. Reads(script, q, big, sml, TRUE)
  BY <1>4, <1>5, <1>6 DEF Reads
<1> QED
  BY <1>7 DEF q

\* The script that knockout finds for two arrays tells of them, however long
\* they are (knockout-debug.js, compareArrays).
THEOREM ScriptsTell ==
  ASSUME NEW V, NEW old \in Seq(V), NEW new \in Seq(V)
  PROVE  Tells(CompareArrays(old, new), old, new)
<1>1. /\ DOMAIN old = 1..Len(old) /\ Len(old) \in Nat
      /\ DOMAIN new = 1..Len(new) /\ Len(new) \in Nat
  BY LenProperties
<1>2. CASE Len(old) < Len(new)
  <2> DEFINE p == Differences(old, new)
             script == Marked(Entries(p, old, new, TRUE), TRUE, 10 * Len(old))
  <2>1. Sides(old, new)
    BY <1>1, <1>2 DEF Sides
  <2>2. PathTells(p, old, new, Len(old), Len(new))
    BY <2>1, DifferencesTell
  <2>3. p \in Seq(PathEntry)
    BY <2>2 DEF PathTells, Descends
  <2> HIDE DEF p
  <2>4. Reads(script, p, old, new, TRUE)
    BY <2>3, MarkedReads
  <2> HIDE DEF script
  <2>5. Tells(script, old, new)
    BY <1>1, <2>2, <2>4, GrownTells
  <2>6. CompareArrays(old, new) = script
    BY <1>2 DEF CompareArrays, script, p
  <2> QED
    BY <2>5, <2>6
<1>3. CASE ~ (Len(old) < Len(new))
  <2> DEFINE p == Differences(new, old)
             script == Marked(Entries(p, new, old, FALSE), FALSE, 10 * Len(new))
  <2>1. Sides(new, old)
    BY <1>1, <1>3 DEF Sides
  <2>2. PathTells(p, new, old, Len(new), Len(old))
    BY <2>1, DifferencesTell
  <2>3. p \in Seq(PathEntry)
    BY <2>2 DEF PathTells, Descends
  <2> HIDE DEF p
  <2>4. Reads(script, p, new, old, FALSE)
    BY <2>3, MarkedReads
  <2> HIDE DEF script
  <2>5. PathTells(Flipped(p), old, new, Len(old), Len(new)) /\ Len(Flipped(p)) = Len(p)
    BY <1>1, <2>2, FlippedTells
  <2>6. Reads(script, Flipped(p), old, new, TRUE)
    BY <2>3, <2>4, <2>5, FlippedReads
  <2>7. Tells(script, old, new)
    BY <1>1, <2>5, <2>6, GrownTells
  <2>8. CompareArrays(old, new) = script
    BY <1>3 DEF CompareArrays, script, p
  <2> QED
    BY <2>7, <2>8
<1> QED
  BY <1>2, <1>3

(***************************************************************************)
(* The moves of the script that knockout finds for two arrays, however     *)
(* long they are, pair a deletion with an addition of the same item; and   *)
(* with ten items at most on either side the search does not give up       *)
(* before every such pair is found (compareArrays).                        *)
(***************************************************************************)
THEOREM MovesOfComparison ==
  ASSUME NEW V, NEW old \in Seq(V), NEW new \in Seq(V)
  PROVE  /\ MovesPair(CompareArrays(old, new))
         /\ Len(old) <= 10 /\ Len(new) <= 10 => NoMoveMissed(CompareArrays(old, new))
<1>1. /\ DOMAIN old = 1..Len(old) /\ Len(old) \in Nat
      /\ DOMAIN new = 1..Len(new) /\ Len(new) \in Nat
  BY LenProperties
<1>2. Tells(CompareArrays(old, new), old, new)
  BY ScriptsTell
<1> DEFINE a == Len(old)
           b == Len(new)
<1>3. CASE a < b
  <2> DEFINE p == Differences(old, new)
             entries == Entries(p, old, new, TRUE)
             limit == 10 * a
             n == Len(p)
  <2>s. Sides(old, new)
    BY <1>1, <1>3 DEF Sides
  <2>0. PathTells(p, old, new, Len(old), Len(new))
    BY <2>s, DifferencesTell
  <2>1. p \in Seq(PathEntry)
    BY <2>0 DEF PathTells, Descends
  <2>2. CompareArrays(old, new) = Marked(entries, TRUE, limit)
    BY <1>3 DEF CompareArrays
  <2> HIDE DEF p
  <2>3. DOMAIN entries = 1..n /\ Len(entries) = n /\ Plain(entries) /\ n \in Nat
    <3>3. n \in Nat
      BY <2>1, LenProperties
    <3>1. DOMAIN entries = 1..n /\ Len(entries) = n
      <4>1. DOMAIN p = 1..n
        BY <2>1, LenProperties
      <4> QED
        BY <4>1, <3>3 DEF Entries
    <3>2. Plain(entries)
      BY <2>1, EntriesArePlain, Zenon
    <3> QED
      BY <3>1, <3>2, <3>3
  <2> HIDE DEF entries, n
  <2>4. limit \in Nat /\ limit = 10 * (IF TRUE THEN a ELSE b)
    BY <1>1
  <2> HIDE DEF limit, a, b
  <2>5. Paired(Marked(entries, TRUE, limit), a, b)
    BY <1>1, <1>2, <2>2, <2>3, <2>4, MarkedPairs DEF a, b
  <2> QED
    BY <2>2, <2>5 DEF a, b, Paired
<1>4. CASE ~ (a < b)
  <2> DEFINE p == Differences(new, old)
             entries == Entries(p, new, old, FALSE)
             limit == 10 * b
             n == Len(p)
  <2>s. Sides(new, old)
    BY <1>1, <1>4 DEF Sides
  <2>0. PathTells(p, new, old, Len(new), Len(old))
    BY <2>s, DifferencesTell
  <2>1. p \in Seq(PathEntry)
    BY <2>0 DEF PathTells, Descends
  <2>2. CompareArrays(old, new) = Marked(entries, FALSE, limit)
    BY <1>4 DEF CompareArrays
  <2> HIDE DEF p
  <2>3. DOMAIN entries = 1..n /\ Len(entries) = n /\ Plain(entries) /\ n \in Nat
    <3>3. n \in Nat
      BY <2>1, LenProperties
    <3>1. DOMAIN entries = 1..n /\ Len(entries) = n
      <4>1. DOMAIN p = 1..n
        BY <2>1, LenProperties
      <4> QED
        BY <4>1, <3>3 DEF Entries
    <3>2. Plain(entries)
      BY <2>1, EntriesArePlain, Zenon
    <3> QED
      BY <3>1, <3>2, <3>3
  <2> HIDE DEF entries, n
  <2>4. limit \in Nat /\ limit = 10 * (IF FALSE THEN a ELSE b)
    BY <1>1
  <2> HIDE DEF limit, a, b
  <2>5. Paired(Marked(entries, FALSE, limit), a, b)
    BY <1>1, <1>2, <2>2, <2>3, <2>4, MarkedPairs DEF a, b
  <2> QED
    BY <2>2, <2>5 DEF a, b, Paired
<1> QED
  BY <1>3, <1>4

-----------------------------------------------------------------------------
(* The scripts of known operations (cacheDiffForKnownOperation).           *)

\* The script names the items of the long array that come after the short
\* one or before it: the short one begins at d and the others at r.
OneEnd(script, sml, big, n, m, d, r) ==
  /\ (d = 0 /\ r = n) \/ (d = m /\ r = 0)
  /\ DOMAIN sml = 1..n /\ DOMAIN big = 1..(n + m) /\ DOMAIN script = 1..m
  /\ \A o \in 1..n : sml[o] = big[o + d]
  /\ \A i \in 1..m : script[i].index = r + i /\ script[i].value = big[r + i]

LEMMA OneEndTells ==
  ASSUME NEW n \in Nat, NEW m \in Nat, NEW sml, NEW big, NEW script, NEW d \in Nat, NEW r \in Nat,
         OneEnd(script, sml, big, n, m, d, r)
  PROVE  /\ (\A i \in 1..m : script[i].status = "added") => Tells(script, sml, big)
         /\ (\A i \in 1..m : script[i].status = "deleted") => Tells(script, big, sml)
<1> DEFINE rest == {r + i : i \in 1..m}
           K == {<<o, o + d>> : o \in 1..n}
           L == {<<o + d, o>> : o \in 1..n}
<1>0. /\ (d = 0 /\ r = n) \/ (d = m /\ r = 0)
      /\ DOMAIN sml = 1..n /\ DOMAIN big = 1..(n + m) /\ DOMAIN script = 1..m
      /\ \A o \in 1..n : sml[o] = big[o + d]
      /\ \A i \in 1..m : script[i].index = r + i /\ script[i].value = big[r + i]
  BY DEF OneEnd
<1>1. /\ \A c \in K : c[1] \in 1..n /\ c[2] = c[1] + d /\ c = <<c[1], c[1] + d>>
      /\ \A c \in L : c[2] \in 1..n /\ c[1] = c[2] + d /\ c = <<c[2] + d, c[2]>>
      /\ \A o \in 1..n : <<o, o + d>> \in K /\ <<o + d, o>> \in L
  OBVIOUS
<1>2. /\ \A o \in 1..n : o + d \in 1..(n + m) /\ o + d \notin rest
      /\ \A p \in 1..(n + m) : p \notin rest => p - d \in 1..n /\ p = (p - d) + d
      /\ \A i \in 1..m : r + i \in 1..(n + m)
  <2>1. CASE d = 0 /\ r = n
    <3>1. ASSUME NEW p \in 1..(n + m), p \notin rest PROVE p - d \in 1..n /\ p = (p - d) + d
      <4>1. SUFFICES ASSUME ~ (p <= n) PROVE FALSE
        BY <2>1
      <4>2. p - n \in 1..m /\ p = r + (p - n)
        BY <2>1, <4>1
      <4> QED
        BY <3>1, <4>2
    <3> QED
      BY <2>1, <3>1
  <2>2. CASE d = m /\ r = 0
    <3>1. ASSUME NEW p \in 1..(n + m), p \notin rest PROVE p - d \in 1..n /\ p = (p - d) + d
      <4>1. SUFFICES ASSUME p <= m PROVE FALSE
        BY <2>2
      <4>2. p \in 1..m /\ p = r + p
        BY <2>2, <4>1
      <4> QED
        BY <3>1, <4>2
    <3> QED
      BY <2>2, <3>1
  <2> QED
    BY <1>0, <2>1, <2>2
<1>3. /\ \A c \in K, i, j \in 1..m : i < j /\ r + i > c[2] => r + j > c[2]
      /\ \A c \in L, i, j \in 1..m : i < j /\ r + i > c[1] => r + j > c[1]
      /\ \A i, j \in 1..m : i < j => r + i < r + j
      /\ \A c, e \in K : c[1] < e[1] <=> c[2] < e[2]
      /\ \A c, e \in L : c[1] < e[1] <=> c[2] < e[2]
  BY <1>1
<1>4. K \subseteq (1..n) \X (1..(n + m)) /\ L \subseteq (1..(n + m)) \X (1..n)
  BY <1>2
<1>5. \A c \in K : sml[c[1]] = big[c[2]]
  BY <1>0, <1>1
<1>6. \A c \in L : big[c[1]] = sml[c[2]]
  BY <1>0, <1>1
<1>7. \A p \in 1..(n + m) : /\ (\E o \in 1..n : <<o, p>> \in K) <=> p \notin rest
                            /\ (\E o \in 1..n : <<p, o>> \in L) <=> p \notin rest
  <2>1. ASSUME NEW p \in 1..(n + m), p \notin rest
        PROVE  (\E o \in 1..n : <<o, p>> \in K) /\ (\E o \in 1..n : <<p, o>> \in L)
    <3>1. p - d \in 1..n /\ p = (p - d) + d
      BY <1>2, <2>1
    <3> HIDE DEF K, L, rest
    <3> QED
      BY <1>1, <3>1
  <2>2. ASSUME NEW p \in 1..(n + m), NEW o \in 1..n, <<o, p>> \in K \/ <<p, o>> \in L PROVE p \notin rest
    <3>1. p = o + d
      BY <2>2
    <3> QED
      BY <1>2, <3>1
  <2> HIDE DEF K, L, rest
  <2> QED
    BY <2>1, <2>2
<1>8. \A o \in 1..n : /\ \E p \in 1..(n + m) : <<o, p>> \in K
                      /\ \E p \in 1..(n + m) : <<p, o>> \in L
  <2> HIDE DEF K, L, rest
  <2> QED
    BY <1>1, <1>2
<1>9. 1..n \subseteq Int /\ 1..(n + m) \subseteq Int
  OBVIOUS
<1> HIDE DEF K, L
<1>10. ASSUME \A i \in 1..m : script[i].status = "added" PROVE Tells(script, sml, big)
  <2>1. Named(script, "deleted") = {} /\ Named(script, "added") = rest
    <3>1. {j \in DOMAIN script : script[j].status = "deleted"} = {}
      BY <1>0, <1>10
    <3>2. {j \in DOMAIN script : script[j].status = "added"} = 1..m
      BY <1>0, <1>10
    <3>3. {script[i].index : i \in 1..m} = rest
      <4>1. \A i \in 1..m : script[i].index = r + i
        BY <1>0
      <4> QED
        BY <4>1
    <3> HIDE DEF rest
    <3> QED
      BY <3>1, <3>2, <3>3 DEF Named
  <2> HIDE DEF rest
  <2>2. ASSUME NEW c \in K, NEW i \in DOMAIN script, NEW j \in DOMAIN script, i < j,
               Later(script[i], c[1], c[2])
        PROVE  Later(script[j], c[1], c[2])
    <3>1. i \in 1..m /\ j \in 1..m /\ script[i].index = r + i /\ script[j].index = r + j
      BY <1>0
    <3>2. script[i].status = "added" /\ script[j].status = "added"
      BY <1>10, <3>1
    <3>3. r + i > c[2]
      BY <2>2, <3>1, <3>2 DEF Later
    <3>4. r + j > c[2]
      BY <1>3, <2>2, <3>1, <3>3
    <3> QED
      BY <3>1, <3>2, <3>4 DEF Later
  <2>3. ASSUME NEW i \in DOMAIN script
        PROVE  script[i].status = "added" /\ script[i].index \in DOMAIN big /\ script[i].value = big[script[i].index]
    BY <1>0, <1>2, <1>10
  <2>4. \A i, j \in DOMAIN script :
          i < j /\ script[i].status = script[j].status => script[i].index < script[j].index
    BY <1>0, <1>3
  <2> QED
    BY <1>0, <1>3, <1>4, <1>5, <1>7, <1>8, <1>9, <2>1, <2>2, <2>3, <2>4, ScriptOfPairs
<1>11. ASSUME \A i \in 1..m : script[i].status = "deleted" PROVE Tells(script, big, sml)
  <2>1. Named(script, "added") = {} /\ Named(script, "deleted") = rest
    <3>1. {j \in DOMAIN script : script[j].status = "added"} = {}
      BY <1>0, <1>11
    <3>2. {j \in DOMAIN script : script[j].status = "deleted"} = 1..m
      BY <1>0, <1>11
    <3>3. {script[i].index : i \in 1..m} = rest
      <4>1. \A i \in 1..m : script[i].index = r + i
        BY <1>0
      <4> QED
        BY <4>1
    <3> HIDE DEF rest
    <3> QED
      BY <3>1, <3>2, <3>3 DEF Named
  <2> HIDE DEF rest
  <2>2. ASSUME NEW c \in L, NEW i \in DOMAIN script, NEW j \in DOMAIN script, i < j,
               Later(script[i], c[1], c[2])
        PROVE  Later(script[j], c[1], c[2])
    <3>1. i \in 1..m /\ j \in 1..m /\ script[i].index = r + i /\ script[j].index = r + j
      BY <1>0
    <3>2. script[i].status = "deleted" /\ script[j].status = "deleted"
      BY <1>11, <3>1
    <3>3. r + i > c[1]
      BY <2>2, <3>1, <3>2 DEF Later
    <3>4. r + j > c[1]
      BY <1>3, <2>2, <3>1, <3>3
    <3> QED
      BY <3>1, <3>2, <3>4 DEF Later
  <2>3. ASSUME NEW i \in DOMAIN script
        PROVE  script[i].status = "deleted" /\ script[i].index \in DOMAIN big /\ script[i].value = big[script[i].index]
    BY <1>0, <1>2, <1>11
  <2>4. \A i, j \in DOMAIN script :
          i < j /\ script[i].status = script[j].status => script[i].index < script[j].index
    BY <1>0, <1>3
  <2> QED
    BY <1>0, <1>3, <1>4, <1>6, <1>7, <1>8, <1>9, <2>1, <2>2, <2>3, <2>4, ScriptOfPairs
<1> QED
  BY <1>10, <1>11

\* The scripts that knockout knows of push, unshift, pop and shift tell of
\* them (knockout-debug.js, cacheDiffForKnownOperation).
THEOREM KnownScriptsTell ==
  ASSUME NEW V, NEW array \in Seq(V), NEW args \in Seq(V)
  PROVE  /\ Tells(PushDiff(array, args), array, array \o args)
         /\ Tells(UnshiftDiff(args), array, args \o array)
         /\ array # <<>> => /\ Tells(PopDiff(array), array, Front(array))
                            /\ Tells(ShiftDiff(array), array, Tail(array))
<1> DEFINE n == Len(array)
           m == Len(args)
<1>1. /\ DOMAIN array = 1..n /\ n \in Nat
      /\ DOMAIN args = 1..m /\ m \in Nat
  BY LenProperties
<1>2. Tells(PushDiff(array, args), array, array \o args)
  <2> DEFINE new == array \o args
             script == PushDiff(array, args)
  <2>1. DOMAIN new = 1..(n + m) /\ \A i \in 1..(n + m) : new[i] = IF i <= n THEN array[i] ELSE args[i - n]
    BY <1>1, ConcatProperties, LenProperties
  <2>2. /\ DOMAIN script = 1..m
        /\ \A i \in 1..m : /\ script[i].status = "added" /\ script[i].index = n + i
                           /\ script[i].value = args[i]
    <3>1. script = [i \in 1..m |-> Added(args[i], n + i)]
      BY DEF PushDiff
    <3> QED
      BY <3>1 DEF Added
  <2> HIDE DEF new, script, n, m
  <2>3. /\ \A o \in 1..n : array[o] = new[o + 0]
        /\ \A i \in 1..m : script[i].index = n + i /\ script[i].value = new[n + i]
    <3>1. ASSUME NEW o \in 1..n PROVE array[o] = new[o + 0]
      <4>1. o \in 1..(n + m) /\ o <= n /\ o + 0 = o
        BY <1>1
      <4> QED
        BY <2>1, <4>1
    <3>2. ASSUME NEW i \in 1..m PROVE script[i].index = n + i /\ script[i].value = new[n + i]
      <4>1. n + i \in 1..(n + m) /\ ~ (n + i <= n) /\ (n + i) - n = i
        BY <1>1
      <4> QED
        BY <2>1, <2>2, <4>1
    <3> QED
      BY <3>1, <3>2
  <2>4. OneEnd(script, array, new, n, m, 0, n)
    BY <1>1, <2>1, <2>2, <2>3 DEF OneEnd
  <2>5. Tells(script, array, new)
    BY <1>1, <2>2, <2>4, OneEndTells
  <2> QED
    BY <2>5 DEF script, new
<1>3. Tells(UnshiftDiff(args), array, args \o array)
  <2> DEFINE new == args \o array
             script == UnshiftDiff(args)
  <2>1. DOMAIN new = 1..(n + m) /\ \A i \in 1..(n + m) : new[i] = IF i <= m THEN args[i] ELSE array[i - m]
    BY <1>1, ConcatProperties, LenProperties
  <2>2. /\ DOMAIN script = 1..m
        /\ \A i \in 1..m : /\ script[i].status = "added" /\ script[i].index = i
                           /\ script[i].value = args[i]
    <3>1. script = [i \in 1..m |-> Added(args[i], i)]
      BY DEF UnshiftDiff
    <3> QED
      BY <3>1 DEF Added
  <2> HIDE DEF new, script, n, m
  <2>3. \A o \in 1..n : array[o] = new[o + m]
    <3>1. ASSUME NEW o \in 1..n PROVE array[o] = new[o + m]
      <4>1. o + m \in 1..(n + m) /\ ~ (o + m <= m) /\ (o + m) - m = o
        BY <1>1
      <4> QED
        BY <2>1, <4>1
    <3> QED
      BY <3>1
  <2>4. ASSUME NEW i \in 1..m PROVE script[i].index = 0 + i /\ script[i].value = new[0 + i]
    <3>1. i \in 1..(n + m) /\ i <= m /\ 0 + i = i
      BY <1>1
    <3> QED
      BY <2>1, <2>2, <3>1
  <2>5. OneEnd(script, array, new, n, m, m, 0)
    BY <1>1, <2>1, <2>2, <2>3, <2>4 DEF OneEnd
  <2>6. Tells(script, array, new)
    BY <1>1, <2>2, <2>5, OneEndTells
  <2> QED
    BY <2>6 DEF script, new
<1>4. ASSUME array # <<>> PROVE Tells(PopDiff(array), array, Front(array))
  <2> DEFINE new == Front(array)
             script == PopDiff(array)
             k == n - 1
  <2>1. k \in Nat /\ n = k + 1
    BY <1>4, EmptySeq
  <2>2. DOMAIN new = 1..k /\ \A o \in 1..k : new[o] = array[o]
    <3>1. new = [i \in 1..k |-> array[i]]
      BY <2>1 DEF Front
    <3> QED
      BY <3>1
  <2>3. /\ DOMAIN script = 1..1
        /\ \A i \in 1..1 : /\ script[i].status = "deleted" /\ script[i].index = n
                           /\ script[i].value = array[n]
    <3>1. script = <<Deleted(array[n], n)>>
      BY <1>4 DEF PopDiff, Last
    <3> QED
      BY <3>1 DEF Deleted
  <2> HIDE DEF new, script, n, k
  <2>4. /\ \A o \in 1..k : new[o] = array[o + 0]
        /\ \A i \in 1..1 : script[i].index = k + i /\ script[i].value = array[k + i]
    BY <1>1, <2>1, <2>2, <2>3
  <2>5. OneEnd(script, new, array, k, 1, 0, k)
    BY <1>1, <2>1, <2>2, <2>3, <2>4 DEF OneEnd
  <2>6. Tells(script, array, new)
    BY <2>1, <2>3, <2>5, OneEndTells
  <2> QED
    BY <2>6 DEF script, new
<1>5. ASSUME array # <<>> PROVE Tells(ShiftDiff(array), array, Tail(array))
  <2> DEFINE new == Tail(array)
             script == ShiftDiff(array)
             k == n - 1
  <2>1. k \in Nat /\ n = k + 1
    BY <1>5, EmptySeq
  <2>2. DOMAIN new = 1..k /\ \A o \in 1..k : new[o] = array[o + 1]
    BY <1>5, HeadTailProperties, LenProperties
  <2>3. /\ DOMAIN script = 1..1
        /\ \A i \in 1..1 : /\ script[i].status = "deleted" /\ script[i].index = 0 + i
                           /\ script[i].value = array[0 + i]
    <3>1. script = <<Deleted(array[1], 1)>>
      BY <1>5 DEF ShiftDiff
    <3> QED
      BY <3>1 DEF Deleted
  <2> HIDE DEF new, script, n, k
  <2>4. OneEnd(script, new, array, k, 1, 1, 0)
    BY <1>1, <2>1, <2>2, <2>3 DEF OneEnd
  <2>5. Tells(script, array, new)
    BY <2>1, <2>3, <2>4, OneEndTells
  <2> QED
    BY <2>5 DEF script, new
<1> QED
  BY <1>2, <1>3, <1>4, <1>5

\* An entry of the script of a splice: the items from start to end (not
\* included) are deleted, and the arguments are added from start on.
ScriptEntries(V) == [status : {"added", "deleted"}, value : V, index : Nat, moved : Nat]

OfSplice(entry, array, args, start, end, x) ==
  \/ x \in start..(end - 1) /\ entry = Deleted(array[x], x)
  \/ x \in start..(start + Len(args) - 1) /\ entry = Added(args[x - start + 1], x)

\* One comes before the other in a script.
InTurn(entry, later) ==
  \/ entry.index < later.index
  \/ entry.index = later.index /\ entry.status = "deleted" /\ later.status = "added"

\* The script is that of the positions before "to".
SplicedTo(script, V, array, args, start, end, to) ==
  /\ script \in Seq(ScriptEntries(V))
  /\ \A i \in 1..Len(script) : \E x \in start..(to - 1) : OfSplice(script[i], array, args, start, end, x)
  /\ \A x \in start..(to - 1) :
       /\ x < end => \E i \in 1..Len(script) : script[i].status = "deleted" /\ script[i].index = x
       /\ x < start + Len(args) => \E i \in 1..Len(script) : script[i].status = "added" /\ script[i].index = x
  /\ \A i, j \in 1..Len(script) : i < j => InTurn(script[i], script[j])

\* What a splice deletes and adds at one position.
HereSpliced(p, V, array, args, start, end, x) ==
  /\ p \in Seq(ScriptEntries(V))
  /\ \A i \in 1..Len(p) : OfSplice(p[i], array, args, start, end, x) /\ p[i].index = x
  /\ x < end => \E i \in 1..Len(p) : p[i].status = "deleted"
  /\ x < start + Len(args) => \E i \in 1..Len(p) : p[i].status = "added"
  /\ \A i, j \in 1..Len(p) : i < j => InTurn(p[i], p[j])

LEMMA AtPosition ==
  ASSUME NEW V, NEW array \in Seq(V), NEW args \in Seq(V), NEW start \in Nat \ {0}, NEW count \in Nat,
         NEW end \in Nat, end = SpliceEnd(array, start, count), end <= Len(array) + 1,
         NEW x \in Nat, start <= x, NEW p, p = SplicedAt(array, start, count, args, x)
  PROVE  HereSpliced(p, V, array, args, start, end, x)
<1> DEFINE d == Deleted(array[x], x)
           a == Added(args[x - start + 1], x)
<1>1. Len(args) \in Nat /\ Len(array) \in Nat
  BY LenProperties
<1>2. x < end => d \in ScriptEntries(V) /\ OfSplice(d, array, args, start, end, x) /\ d.index = x /\ d.status = "deleted"
  <2> SUFFICES ASSUME x < end
               PROVE  d \in ScriptEntries(V) /\ OfSplice(d, array, args, start, end, x) /\ d.index = x /\ d.status = "deleted"
    OBVIOUS
  <2>1. x \in 1..Len(array) /\ x \in start..(end - 1)
    BY <1>1
  <2>2. array[x] \in V
    BY <2>1, ElementOfSeq
  <2>3. d = [status |-> "deleted", value |-> array[x], index |-> x, moved |-> 0]
    BY DEF Deleted, NotMoved
  <2> QED
    BY <2>1, <2>2, <2>3 DEF ScriptEntries, OfSplice
<1>3. x < start + Len(args) =>
        a \in ScriptEntries(V) /\ OfSplice(a, array, args, start, end, x) /\ a.index = x /\ a.status = "added"
  <2> SUFFICES ASSUME x < start + Len(args)
               PROVE  a \in ScriptEntries(V) /\ OfSplice(a, array, args, start, end, x) /\ a.index = x /\ a.status = "added"
    OBVIOUS
  <2>1. x - start + 1 \in 1..Len(args) /\ x \in start..(start + Len(args) - 1)
    BY <1>1
  <2>2. args[x - start + 1] \in V
    BY <2>1, ElementOfSeq
  <2>3. a = [status |-> "added", value |-> args[x - start + 1], index |-> x, moved |-> 0]
    BY DEF Added, NotMoved
  <2> QED
    BY <2>1, <2>2, <2>3 DEF ScriptEntries, OfSplice
<1>4. p = (IF x < end THEN <<d>> ELSE <<>>) \o (IF x < start + Len(args) THEN <<a>> ELSE <<>>)
  BY DEF SplicedAt
<1> HIDE DEF d, a
<1>5. CASE x < end /\ x < start + Len(args)
  <2>0. p = <<d>> \o <<a>>
    BY <1>4, <1>5
  <2>1. /\ <<d>> \in Seq(ScriptEntries(V)) /\ <<a>> \in Seq(ScriptEntries(V))
        /\ Len(<<d>>) = 1 /\ Len(<<a>>) = 1 /\ <<d>>[1] = d /\ <<a>>[1] = a
    BY <1>2, <1>3, <1>5
  <2>2. Len(p) = 2 /\ p[1] = d /\ p[2] = a /\ 1 \in 1..Len(p) /\ 2 \in 1..Len(p)
    <3>1. /\ Len(p) = 1 + 1
          /\ \A i \in 1..(1 + 1) : p[i] = IF i <= 1 THEN <<d>>[i] ELSE <<a>>[i - 1]
      BY <2>0, <2>1, ConcatProperties
    <3> QED
      BY <2>1, <3>1
  <2>3. p \in Seq(ScriptEntries(V))
    BY <2>0, <2>1, ConcatProperties
  <2>4. InTurn(d, a)
    BY <1>2, <1>3, <1>5 DEF InTurn
  <2>5. \A i \in 1..Len(p) : i = 1 \/ i = 2
    BY <2>2
  <2>6. \A i, j \in 1..Len(p) : i < j => InTurn(p[i], p[j])
    BY <2>2, <2>4, <2>5
  <2>7. \A i \in 1..Len(p) : OfSplice(p[i], array, args, start, end, x) /\ p[i].index = x
    BY <1>2, <1>3, <1>5, <2>2, <2>5
  <2> QED
    BY <1>2, <1>3, <1>5, <2>2, <2>3, <2>6, <2>7 DEF HereSpliced
<1>6. CASE x < end /\ ~(x < start + Len(args))
  <2>1. p = <<d>>
    BY <1>4, <1>6
  <2>2. Len(p) = 1 /\ p[1] = d /\ 1 \in 1..Len(p) /\ \A i \in 1..Len(p) : i = 1
    BY <2>1
  <2>3. p \in Seq(ScriptEntries(V))
    BY <1>2, <1>6, <2>1
  <2> QED
    BY <1>2, <1>6, <2>2, <2>3 DEF HereSpliced
<1>7. CASE ~(x < end) /\ x < start + Len(args)
  <2>1. p = <<a>>
    BY <1>4, <1>7
  <2>2. Len(p) = 1 /\ p[1] = a /\ 1 \in 1..Len(p) /\ \A i \in 1..Len(p) : i = 1
    BY <2>1
  <2>3. p \in Seq(ScriptEntries(V))
    BY <1>3, <1>7, <2>1
  <2> QED
    BY <1>3, <1>7, <2>2, <2>3 DEF HereSpliced
<1>8. CASE ~(x < end) /\ ~(x < start + Len(args))
  <2>1. p = <<>> /\ Len(p) = 0 /\ p \in Seq(ScriptEntries(V))
    BY <1>4, <1>8
  <2> QED
    BY <1>8, <2>1 DEF HereSpliced
<1> QED
  BY <1>5, <1>6, <1>7, <1>8

\* The script goes on by what is deleted and added at the next position.
LEMMA NextPosition ==
  ASSUME NEW V, NEW array \in Seq(V), NEW args \in Seq(V), NEW start \in Nat \ {0}, NEW count \in Nat,
         NEW end \in Nat, end = SpliceEnd(array, start, count), end <= Len(array) + 1,
         NEW x \in Nat, start <= x, NEW script, SplicedTo(script, V, array, args, start, end, x),
         NEW next, next = script \o SplicedAt(array, start, count, args, x)
  PROVE  SplicedTo(next, V, array, args, start, end, x + 1)
<1> DEFINE p == SplicedAt(array, start, count, args, x)
           l == Len(script)
<1>1. /\ p \in Seq(ScriptEntries(V))
      /\ \A i \in 1..Len(p) : OfSplice(p[i], array, args, start, end, x) /\ p[i].index = x
      /\ x < end => \E i \in 1..Len(p) : p[i].status = "deleted"
      /\ x < start + Len(args) => \E i \in 1..Len(p) : p[i].status = "added"
      /\ \A i, j \in 1..Len(p) : i < j => InTurn(p[i], p[j])
  <2>1. HereSpliced(p, V, array, args, start, end, x)
    BY AtPosition
  <2> QED
    BY <2>1 DEF HereSpliced
<1> HIDE DEF p
<1>2. /\ script \in Seq(ScriptEntries(V))
      /\ \A i \in 1..l : \E y \in start..(x - 1) : OfSplice(script[i], array, args, start, end, y)
      /\ \A y \in start..(x - 1) :
           /\ y < end => \E i \in 1..l : script[i].status = "deleted" /\ script[i].index = y
           /\ y < start + Len(args) => \E i \in 1..l : script[i].status = "added" /\ script[i].index = y
      /\ \A i, j \in 1..l : i < j => InTurn(script[i], script[j])
  BY DEF SplicedTo
<1>3. l \in Nat /\ Len(p) \in Nat /\ Len(args) \in Nat
  BY <1>1, <1>2, LenProperties
<1>4. /\ next \in Seq(ScriptEntries(V))
      /\ Len(next) = l + Len(p)
      /\ \A i \in 1..(l + Len(p)) : next[i] = IF i <= l THEN script[i] ELSE p[i - l]
  BY <1>1, <1>2, ConcatProperties DEF p
<1> HIDE DEF l
<1>5. /\ \A i \in 1..l : i \in 1..Len(next) /\ next[i] = script[i]
      /\ \A i \in 1..Len(p) : l + i \in 1..Len(next) /\ next[l + i] = p[i]
      /\ \A i \in 1..Len(next) : i \in 1..l \/ (i > l /\ i - l \in 1..Len(p) /\ next[i] = p[i - l])
  <2>1. \A i \in 1..l : i \in 1..Len(next) /\ next[i] = script[i]
    BY <1>3, <1>4
  <2>2. ASSUME NEW i \in 1..Len(p) PROVE l + i \in 1..Len(next) /\ next[l + i] = p[i]
    <3>1. l + i \in 1..(l + Len(p)) /\ ~(l + i <= l) /\ (l + i) - l = i
      BY <1>3
    <3> QED
      BY <1>4, <3>1
  <2>3. ASSUME NEW i \in 1..Len(next) PROVE i \in 1..l \/ (i > l /\ i - l \in 1..Len(p) /\ next[i] = p[i - l])
    <3>1. i \in 1..(l + Len(p))
      BY <1>4
    <3>2. CASE i <= l
      BY <1>3, <3>1, <3>2
    <3>3. CASE ~(i <= l)
      <4>1. i > l /\ i - l \in 1..Len(p)
        BY <1>3, <3>1, <3>3
      <4> QED
        BY <1>4, <3>1, <3>3, <4>1
    <3> QED
      BY <3>2, <3>3
  <2> QED
    BY <2>1, <2>2, <2>3
<1>6. \A i \in 1..l : script[i].index \in start..(x - 1)
  <2>1. ASSUME NEW i \in 1..l PROVE script[i].index \in start..(x - 1)
    <3>1. PICK y \in start..(x - 1) : OfSplice(script[i], array, args, start, end, y)
      BY <1>2
    <3>2. script[i].index = y
      BY <3>1 DEF OfSplice, Added, Deleted
    <3> QED
      BY <3>2
  <2> QED
    BY <2>1
<1>7. ASSUME NEW i \in 1..Len(next)
      PROVE  \E y \in start..((x + 1) - 1) : OfSplice(next[i], array, args, start, end, y)
  <2>1. CASE i \in 1..l
    <3>1. PICK y \in start..(x - 1) : OfSplice(script[i], array, args, start, end, y)
      BY <1>2, <2>1
    <3>2. y \in start..((x + 1) - 1) /\ next[i] = script[i]
      BY <1>5, <2>1
    <3> QED
      BY <3>1, <3>2
  <2>2. CASE ~(i \in 1..l)
    <3>1. x \in start..((x + 1) - 1)
      OBVIOUS
    <3>2. OfSplice(next[i], array, args, start, end, x)
      BY <1>1, <1>5, <2>2
    <3> QED
      BY <3>1, <3>2
  <2> QED
    BY <2>1, <2>2
<1>8. ASSUME NEW y \in start..((x + 1) - 1), NEW kind \in {"deleted", "added"},
             y < (IF kind = "deleted" THEN end ELSE start + Len(args))
      PROVE  \E i \in 1..Len(next) : next[i].status = kind /\ next[i].index = y
  <2>1. CASE y = x
    <3>1. PICK i \in 1..Len(p) : p[i].status = kind
      BY <1>1, <1>8, <2>1
    <3>2. l + i \in 1..Len(next) /\ next[l + i] = p[i] /\ p[i].index = y
      BY <1>1, <1>5, <2>1
    <3> QED
      BY <3>1, <3>2
  <2>2. CASE y # x
    <3>1. y \in start..(x - 1)
      BY <2>2
    <3>2. PICK i \in 1..l : script[i].status = kind /\ script[i].index = y
      <4>1. CASE kind = "deleted"
        BY <1>2, <1>8, <3>1, <4>1
      <4>2. CASE kind = "added"
        BY <1>2, <1>8, <3>1, <4>2
      <4> QED
        BY <4>1, <4>2
    <3> QED
      BY <1>5, <3>2
  <2> QED
    BY <2>1, <2>2
<1>9. ASSUME NEW i \in 1..Len(next), NEW j \in 1..Len(next), i < j PROVE InTurn(next[i], next[j])
  <2>1. CASE i \in 1..l /\ j \in 1..l
    BY <1>2, <1>5, <1>9, <2>1
  <2>2. CASE i \in 1..l /\ ~(j \in 1..l)
    <3>1. next[i].index \in start..(x - 1)
      BY <1>5, <1>6, <2>2
    <3>2. next[j].index = x
      <4>1. j - l \in 1..Len(p) /\ next[j] = p[j - l]
        BY <1>5, <2>2
      <4> HIDE DEF p
      <4> QED
        BY <1>1, <4>1
    <3>3. next[i].index < next[j].index
      BY <3>1, <3>2, SMTT(40)
    <3> QED
      BY <3>3 DEF InTurn
  <2>3. CASE ~(i \in 1..l)
    <3>1. /\ i - l \in 1..Len(p) /\ next[i] = p[i - l]
          /\ j - l \in 1..Len(p) /\ next[j] = p[j - l] /\ i - l < j - l
      <4>1. i - l \in 1..Len(p) /\ next[i] = p[i - l] /\ i > l
        BY <1>5, <2>3
      <4>2. i \in Int /\ j \in Int /\ l \in Int /\ i < j
        BY <1>3, <1>9
      <4>3. j > l /\ i - l < j - l
        BY <4>1, <4>2
      <4>4. ~(j \in 1..l)
        BY <4>2, <4>3
      <4>5. j - l \in 1..Len(p) /\ next[j] = p[j - l]
        BY <1>5, <4>4
      <4> QED
        BY <4>1, <4>3, <4>5
    <3> QED
      BY <1>1, <3>1
  <2> QED
    BY <2>1, <2>2, <2>3
<1>10. \A y \in start..((x + 1) - 1) :
         /\ y < end => \E i \in 1..Len(next) : next[i].status = "deleted" /\ next[i].index = y
         /\ y < start + Len(args) => \E i \in 1..Len(next) : next[i].status = "added" /\ next[i].index = y
  BY <1>8
<1> QED
  BY <1>4, <1>7, <1>9, <1>10 DEF SplicedTo

\* Where a splice ends.
LEMMA EndOfSplice ==
  ASSUME NEW V, NEW array \in Seq(V), NEW start \in 1..(Len(array) + 1), NEW count \in Nat,
         NEW end, end = SpliceEnd(array, start, count)
  PROVE  end \in Nat /\ start <= end /\ end <= Len(array) + 1
<1> DEFINE ends == {start + count, Len(array) + 1}
<1>1. Len(array) \in Nat
  BY LenProperties
<1>2. ends \in SUBSET Nat /\ ends # {} /\ end = Min(ends)
  BY <1>1 DEF SpliceEnd
<1>3. Min(ends) \in ends /\ \A m \in ends : Min(ends) <= m
  <2> HIDE DEF ends
  <2> QED
    BY <1>2, SmallestOf
<1> QED
  BY <1>1, <1>2, <1>3

\* The whole script of a splice.
LEMMA WholeSplice ==
  ASSUME NEW V, NEW array \in Seq(V), NEW args \in Seq(V), NEW start \in 1..(Len(array) + 1), NEW count \in Nat,
         NEW end, end = SpliceEnd(array, start, count)
  PROVE  \E to \in Nat : /\ start <= to /\ end <= to /\ start + Len(args) <= to
                         /\ SplicedTo(SpliceScript(array, start, count, args), V, array, args, start, end, to)
<1> DEFINE ends == {end, start + Len(args), start}
           to == Max(ends)
<1>1. /\ Len(array) \in Nat /\ Len(args) \in Nat
      /\ end \in Nat /\ start <= end /\ end <= Len(array) + 1 /\ start \in Nat \ {0}
  BY EndOfSplice, LenProperties
<1>2. to \in Nat /\ end <= to /\ start + Len(args) <= to /\ start <= to
  <2>1. \E m \in ends : \A k \in ends : m >= k
    <3>1. CASE end >= start + Len(args)
      <4>1. end \in ends /\ \A k \in ends : end >= k
        BY <1>1, <3>1
      <4> QED
        BY <4>1
    <3>2. CASE ~(end >= start + Len(args))
      <4>1. start + Len(args) \in ends /\ \A k \in ends : start + Len(args) >= k
        BY <1>1, <3>2
      <4> QED
        BY <4>1
    <3> QED
      BY <3>1, <3>2
  <2>2. to \in ends /\ \A k \in ends : to >= k
    <3> HIDE DEF ends
    <3> QED
      BY <2>1 DEF Max
  <2> QED
    BY <1>1, <2>2
<1>3. to = ScriptEnd(array, start, count, args)
  BY DEF ScriptEnd
<1> HIDE DEF to
<1>4. PICK n \in Nat : n = to - start /\ start + n = to
  <2>1. to - start \in Nat /\ start + (to - start) = to
    BY <1>1, <1>2
  <2> QED
    BY <2>1
<1>5. PICK acc : /\ acc[0] = <<>>
                 /\ \A k \in 1..n : acc[k] = acc[k - 1] \o SplicedAt(array, start, count, args, start + k - 1)
                 /\ SpliceScript(array, start, count, args) = acc[n]
  <2>1. n = ScriptEnd(array, start, count, args) - start
    BY <1>3, <1>4
  <2>2. \E acc : SpliceSteps(acc, array, start, count, args, n)
    BY <2>1, SplicingSteps
  <2> QED
    BY <2>2 DEF SpliceSteps
<1> DEFINE S == {k \in Nat : k <= n => SplicedTo(acc[k], V, array, args, start, end, start + k)}
<1>6. 0 \in S
  <2>1. acc[0] \in Seq(ScriptEntries(V)) /\ Len(acc[0]) = 0
    BY <1>5
  <2>2. start..((start + 0) - 1) = {} /\ 1..0 = {}
    BY <1>1
  <2> QED
    BY <2>1, <2>2 DEF SplicedTo
<1>7. ASSUME NEW k \in Nat, k \in S PROVE k + 1 \in S
  <2> SUFFICES ASSUME k + 1 <= n PROVE SplicedTo(acc[k + 1], V, array, args, start, end, start + (k + 1))
    OBVIOUS
  <2>1. SplicedTo(acc[k], V, array, args, start, end, start + k)
    BY <1>4, <1>7
  <2>2. start + (k + 1) - 1 = start + k /\ (k + 1) - 1 = k /\ k + 1 \in 1..n
        /\ start + k \in Nat /\ start <= start + k /\ start + (k + 1) = (start + k) + 1
    BY <1>1, <1>4
  <2>3. acc[k + 1] = acc[k] \o SplicedAt(array, start, count, args, start + k)
    BY <1>5, <2>2
  <2>4. SplicedTo(acc[k + 1], V, array, args, start, end, (start + k) + 1)
    <3> HIDE DEF S
    <3> QED
      BY <1>1, <2>1, <2>2, <2>3, NextPosition
  <2> QED
    BY <2>2, <2>4
<1>8. n \in S
  <2> HIDE DEF S
  <2> QED
    BY <1>4, <1>6, <1>7, SetInduction
<1> QED
  BY <1>2, <1>4, <1>5, <1>8

\* Two scripts that say the same but for their marks.
Alike(script, other, n) ==
  /\ DOMAIN script = 1..n /\ DOMAIN other = 1..n
  /\ \A i \in 1..n : /\ other[i].status = script[i].status
                     /\ other[i].index = script[i].index
                     /\ other[i].value = script[i].value

LEMMA AlikeTell ==
  ASSUME NEW n \in Nat, NEW script, NEW other, Alike(script, other, n), NEW old, NEW new,
         Tells(script, old, new)
  PROVE  Tells(other, old, new)
<1>0. /\ DOMAIN script = 1..n /\ DOMAIN other = 1..n
      /\ \A i \in 1..n : /\ other[i].status = script[i].status
                         /\ other[i].index = script[i].index
                         /\ other[i].value = script[i].value
  BY DEF Alike
<1>1. ASSUME NEW status PROVE Named(other, status) = Named(script, status)
  BY <1>0 DEF Named
<1> DEFINE left == DOMAIN old \ Named(script, "deleted")
           right == DOMAIN new \ Named(script, "added")
<1>2. PICK at \in [left -> right] :
         /\ \A n_1 \in right : \E o \in left : at[o] = n_1
         /\ \A o \in left : new[at[o]] = old[o]
         /\ \A o, p \in left : o < p => at[o] < at[p]
         /\ \A o \in left, i, j \in DOMAIN script :
              i < j /\ Later(script[i], o, at[o]) => Later(script[j], o, at[o])
  BY DEF Tells
<1>3. \A i \in 1..n : \A o, k : Later(other[i], o, k) <=> Later(script[i], o, k)
  BY <1>0 DEF Later
<1>4. left = DOMAIN old \ Named(other, "deleted") /\ right = DOMAIN new \ Named(other, "added")
  BY <1>1
<1> HIDE DEF left, right
<1>5. /\ \A i \in DOMAIN other :
           \/ other[i].status = "deleted" /\ other[i].index \in DOMAIN old /\ other[i].value = old[other[i].index]
           \/ other[i].status = "added" /\ other[i].index \in DOMAIN new /\ other[i].value = new[other[i].index]
      /\ \A i, j \in DOMAIN other :
           i < j /\ other[i].status = other[j].status => other[i].index < other[j].index
  BY <1>0 DEF Tells
<1>6. \A o \in left, i, j \in DOMAIN other :
        i < j /\ Later(other[i], o, at[o]) => Later(other[j], o, at[o])
  BY <1>0, <1>2, <1>3
<1> QED
  BY <1>2, <1>4, <1>5, <1>6 DEF Tells

\* What an array holds after a splice.
LEMMA SplicedItems ==
  ASSUME NEW V, NEW array \in Seq(V), NEW args \in Seq(V), NEW start \in 1..(Len(array) + 1), NEW count \in Nat,
         NEW end, end = SpliceEnd(array, start, count), NEW new, new = Spliced(array, start, count, args)
  PROVE  /\ new \in Seq(V)
         /\ Len(new) = Len(array) - (end - start) + Len(args)
         /\ \A n \in 1..Len(new) :
              new[n] = IF n < start THEN array[n]
                       ELSE IF n < start + Len(args) THEN args[n - start + 1]
                       ELSE array[n + (end - start) - Len(args)]
<1> DEFINE l == Len(array)
           a == Len(args)
           first == SubSeq(array, 1, start - 1)
           rest == SubSeq(array, end, l)
           front == first \o args
<1>1. l \in Nat /\ a \in Nat /\ end \in Nat /\ start <= end /\ end <= l + 1 /\ start \in Nat \ {0}
  BY EndOfSplice, LenProperties
<1>2. \A i \in 1..l : array[i] \in V
  BY ElementOfSeq
<1>3. first \in Seq(V) /\ Len(first) = start - 1 /\ \A i \in 1..(start - 1) : first[i] = array[i]
  <2>1. 1 \in Int /\ start - 1 \in Int /\ \A i \in 1..(start - 1) : array[i] \in V
    BY <1>1, <1>2
  <2>2. /\ first \in Seq(V)
        /\ Len(first) = IF 1 <= start - 1 THEN (start - 1) - 1 + 1 ELSE 0
        /\ \A i \in 1..((start - 1) - 1 + 1) : first[i] = array[1 + i - 1]
    BY <2>1, SubSeqProperties
  <2> HIDE DEF first
  <2>3. Len(first) = start - 1
    BY <1>1, <2>2
  <2>4. \A i \in 1..(start - 1) : first[i] = array[i]
    BY <1>1, <2>2
  <2> QED
    BY <2>2, <2>3, <2>4
<1>4. rest \in Seq(V) /\ Len(rest) = l - end + 1 /\ \A i \in 1..(l - end + 1) : rest[i] = array[end + i - 1]
  <2>1. end \in Int /\ l \in Int /\ \A i \in end..l : array[i] \in V
    BY <1>1, <1>2
  <2>2. /\ rest \in Seq(V)
        /\ Len(rest) = IF end <= l THEN l - end + 1 ELSE 0
        /\ \A i \in 1..(l - end + 1) : rest[i] = array[end + i - 1]
    BY <2>1, SubSeqProperties
  <2> HIDE DEF rest
  <2> QED
    BY <1>1, <2>2
<1> HIDE DEF first, rest
<1>5. /\ front \in Seq(V)
      /\ Len(front) = Len(first) + a
      /\ \A i \in 1..(Len(first) + a) : front[i] = IF i <= Len(first) THEN first[i] ELSE args[i - Len(first)]
  BY <1>3, ConcatProperties
<1> HIDE DEF front
<1>6. /\ new \in Seq(V)
      /\ Len(new) = Len(front) + Len(rest)
      /\ \A i \in 1..(Len(front) + Len(rest)) : new[i] = IF i <= Len(front) THEN front[i] ELSE rest[i - Len(front)]
  <2>1. new = front \o rest
    BY DEF Spliced, front, first, rest
  <2> QED
    BY <1>4, <1>5, <2>1, ConcatProperties
<1>7. Len(new) = l - (end - start) + a /\ Len(front) = start - 1 + a
  <2> HIDE DEF l, a
  <2>1. Len(front) = start - 1 + a
    BY <1>3, <1>5
  <2>2. Len(new) = (start - 1 + a) + (l - end + 1)
    BY <1>4, <1>6, <2>1
  <2> QED
    BY <1>1, <2>1, <2>2
<1>8. ASSUME NEW n \in 1..Len(new)
      PROVE  new[n] = IF n < start THEN array[n]
                      ELSE IF n < start + a THEN args[n - start + 1]
                      ELSE array[n + (end - start) - a]
  <2>0. n \in 1..(Len(front) + Len(rest)) /\ n \in Nat
    BY <1>6
  <2>1. CASE n < start
    <3>1. n <= Len(front) /\ n \in 1..(Len(first) + a) /\ n <= Len(first) /\ n \in 1..(start - 1)
      BY <1>1, <1>3, <1>7, <2>0, <2>1
    <3>2. new[n] = array[n]
      BY <1>3, <1>5, <1>6, <2>0, <3>1
    <3> QED
      BY <2>1, <3>2
  <2>2. CASE ~(n < start) /\ n < start + a
    <3>1. /\ n <= Len(front) /\ n \in 1..(Len(first) + a) /\ ~(n <= Len(first))
          /\ n - Len(first) = n - start + 1
      BY <1>1, <1>3, <1>7, <2>0, <2>2
    <3>2. new[n] = args[n - start + 1]
      BY <1>5, <1>6, <2>0, <3>1
    <3> QED
      BY <2>2, <3>2
  <2>3. CASE ~(n < start) /\ ~(n < start + a)
    <3>1. /\ ~(n <= Len(front)) /\ n - Len(front) \in 1..(l - end + 1)
          /\ end + (n - Len(front)) - 1 = n + (end - start) - a
      <4> DEFINE f == Len(front)
      <4> HIDE DEF l, a
      <4>1. n \in 1..((start - 1 + a) + (l - end + 1)) /\ f = start - 1 + a
        BY <1>4, <1>7, <2>0
      <4> HIDE DEF f
      <4>2. f \in Int /\ ~(n <= f) /\ n - f \in 1..(l - end + 1)
        BY <1>1, <2>3, <4>1
      <4>3. end + (n - f) - 1 = n + (end - start) - a
        BY <1>1, <4>1, SMTT(40)
      <4> QED
        BY <4>2, <4>3 DEF f
    <3>2. new[n] = array[n + (end - start) - a]
      BY <1>4, <1>6, <2>0, <3>1
    <3> QED
      BY <2>3, <3>2
  <2> QED
    BY <2>1, <2>2, <2>3
<1> QED
  BY <1>6, <1>7, <1>8

LEMMA SpliceScriptTells ==
  ASSUME NEW V, NEW array \in Seq(V), NEW args \in Seq(V), NEW start \in 1..(Len(array) + 1), NEW count \in Nat,
         NEW script, script = SpliceScript(array, start, count, args)
  PROVE  /\ script \in Seq(ScriptEntries(V))
         /\ Plain(script)
         /\ Tells(script, array, Spliced(array, start, count, args))
<1> DEFINE new == Spliced(array, start, count, args)
           end == SpliceEnd(array, start, count)
           l == Len(array)
           a == Len(args)
           n == Len(script)
           m == Len(new)
           left == DOMAIN array \ Named(script, "deleted")
           right == DOMAIN new \ Named(script, "added")
<1>1. l \in Nat /\ a \in Nat /\ end \in Nat /\ start <= end /\ end <= l + 1 /\ start \in Nat \ {0}
  BY EndOfSplice, LenProperties
<1>2. PICK to \in Nat : /\ start <= to /\ end <= to /\ start + a <= to
                        /\ SplicedTo(script, V, array, args, start, end, to)
  BY WholeSplice
<1>3. /\ new \in Seq(V) /\ m = l - (end - start) + a
      /\ \A k \in 1..m :
           new[k] = IF k < start THEN array[k] ELSE IF k < start + a THEN args[k - start + 1]
                    ELSE array[k + (end - start) - a]
  BY SplicedItems
<1>4. DOMAIN array = 1..l /\ DOMAIN new = 1..m /\ DOMAIN script = 1..n /\ n \in Nat /\ m \in Nat
  BY <1>2, <1>3, LenProperties DEF SplicedTo
<1> HIDE DEF new, end
<1>5. /\ script \in Seq(ScriptEntries(V))
      /\ \A i \in 1..n : \E x \in start..(to - 1) : OfSplice(script[i], array, args, start, end, x)
      /\ \A x \in start..(to - 1) :
           /\ x < end => \E i \in 1..n : script[i].status = "deleted" /\ script[i].index = x
           /\ x < start + a => \E i \in 1..n : script[i].status = "added" /\ script[i].index = x
      /\ \A i, j \in 1..n : i < j => InTurn(script[i], script[j])
  BY <1>2 DEF SplicedTo
<1>6. Plain(script)
  BY <1>4, <1>5 DEF Plain, OfSplice
<1>7. ASSUME NEW i \in 1..n
      PROVE  \/ /\ script[i].status = "deleted" /\ script[i].index \in start..(end - 1)
                /\ script[i].value = array[script[i].index]
             \/ /\ script[i].status = "added" /\ script[i].index \in start..(start + a - 1)
                /\ script[i].value = args[script[i].index - start + 1]
  <2>1. PICK x \in start..(to - 1) : OfSplice(script[i], array, args, start, end, x)
    BY <1>5
  <2>2. CASE x \in start..(end - 1) /\ script[i] = Deleted(array[x], x)
    <3>1. script[i].status = "deleted" /\ script[i].index = x /\ script[i].value = array[x]
      BY <2>2 DEF Deleted
    <3> QED
      BY <2>2, <3>1
  <2>3. CASE x \in start..(start + a - 1) /\ script[i] = Added(args[x - start + 1], x)
    <3>1. script[i].status = "added" /\ script[i].index = x /\ script[i].value = args[x - start + 1]
      BY <2>3 DEF Added
    <3> QED
      BY <2>3, <3>1
  <2> QED
    BY <2>1, <2>2, <2>3 DEF OfSplice
<1>8. ASSUME NEW i \in 1..n
      PROVE  \/ script[i].status = "deleted" /\ script[i].index \in 1..l /\ script[i].value = array[script[i].index]
             \/ script[i].status = "added" /\ script[i].index \in 1..m /\ script[i].value = new[script[i].index]
  <2>1. CASE script[i].status = "deleted"
    BY <1>1, <1>7, <2>1, SMTT(40)
  <2>2. CASE script[i].status = "added"
    <3> DEFINE x == script[i].index
    <3>1. x \in start..(start + a - 1) /\ script[i].value = args[x - start + 1]
      BY <1>7, <2>2
    <3> HIDE DEF x
    <3>2. x \in 1..m /\ ~(x < start) /\ x < start + a
      BY <1>1, <1>3, <3>1
    <3>3. new[x] = args[x - start + 1]
      BY <1>3, <3>2
    <3> QED
      BY <2>2, <3>1, <3>2, <3>3 DEF x
  <2> QED
    BY <1>7, <2>1, <2>2
<1>9. Named(script, "deleted") = start..(end - 1)
  <2>1. ASSUME NEW x \in Named(script, "deleted") PROVE x \in start..(end - 1)
    BY <1>4, <1>7, <2>1 DEF Named
  <2>2. ASSUME NEW x \in start..(end - 1) PROVE x \in Named(script, "deleted")
    <3>1. x \in start..(to - 1) /\ x < end
      BY <1>1, <1>2
    <3>2. PICK i \in 1..n : script[i].status = "deleted" /\ script[i].index = x
      BY <1>5, <3>1
    <3> QED
      BY <1>4, <3>2 DEF Named
  <2> QED
    BY <2>1, <2>2
<1>10. Named(script, "added") = start..(start + a - 1)
  <2>1. ASSUME NEW x \in Named(script, "added") PROVE x \in start..(start + a - 1)
    BY <1>4, <1>7, <2>1 DEF Named
  <2>2. ASSUME NEW x \in start..(start + a - 1) PROVE x \in Named(script, "added")
    <3>1. x \in start..(to - 1) /\ x < start + a
      BY <1>1, <1>2
    <3>2. PICK i \in 1..n : script[i].status = "added" /\ script[i].index = x
      BY <1>5, <3>1
    <3> QED
      BY <1>4, <3>2 DEF Named
  <2> QED
    BY <2>1, <2>2
<1> HIDE DEF m, n, l, a
<1> DEFINE shift == (end - start) - a
           at == [o \in left |-> IF o < start THEN o ELSE o - shift]
<1>11. /\ \A o : o \in left <=> o \in 1..l /\ (o < start \/ o >= end)
       /\ \A k : k \in right <=> k \in 1..m /\ (k < start \/ k >= start + a)
  <2>1. left = (1..l) \ (start..(end - 1)) /\ right = (1..m) \ (start..(start + a - 1))
    BY <1>4, <1>9, <1>10
  <2> HIDE DEF left, right
  <2>2. ASSUME NEW o PROVE o \in left <=> o \in 1..l /\ (o < start \/ o >= end)
    <3>1. o \in 1..l => (o \notin start..(end - 1) <=> o < start \/ o >= end)
      BY <1>1
    <3> QED
      BY <2>1, <3>1
  <2>3. ASSUME NEW k PROVE k \in right <=> k \in 1..m /\ (k < start \/ k >= start + a)
    <3>1. k \in 1..m => (k \notin start..(start + a - 1) <=> k < start \/ k >= start + a)
      BY <1>1, <1>4
    <3> QED
      BY <2>1, <3>1
  <2> QED
    BY <2>2, <2>3
<1>12. shift \in Int /\ m = l - shift /\ end - shift = start + a
  BY <1>1, <1>3
<1> HIDE DEF left, right, shift
<1>13. ASSUME NEW o \in left
       PROVE  /\ at[o] \in right /\ new[at[o]] = array[o] /\ o \in Nat
              /\ at[o] = IF o < start THEN o ELSE o - shift
  <2>0. o \in 1..l /\ (o < start \/ o >= end)
    BY <1>11
  <2>1. CASE o < start
    <3>1. at[o] = o /\ o \in 1..m
      BY <1>1, <1>3, <2>0, <2>1
    <3> QED
      BY <1>3, <1>11, <2>0, <2>1, <3>1
  <2>2. CASE ~(o < start)
    <3>1. at[o] = o - shift
      BY <2>2
    <3> HIDE DEF at
    <3>2. at[o] \in 1..m /\ at[o] >= start + a /\ ~(at[o] < start) /\ ~(at[o] < start + a)
          /\ at[o] + shift = o
      BY <1>1, <1>12, <2>0, <2>2, <3>1
    <3>3. at[o] + (end - start) - a = o
      BY <1>1, <3>2 DEF shift
    <3> QED
      BY <1>3, <1>11, <2>0, <2>2, <3>1, <3>2, <3>3
  <2> QED
    BY <2>1, <2>2
<1>14. at \in [left -> right]
  BY <1>13
<1>15. ASSUME NEW k \in right PROVE \E o \in left : at[o] = k
  <2>0. k \in 1..m /\ (k < start \/ k >= start + a)
    BY <1>11
  <2>1. CASE k < start
    <3>1. k \in left /\ at[k] = k
      BY <1>1, <1>11, <2>0, <2>1
    <3> QED
      BY <3>1
  <2>2. CASE ~(k < start)
    <3>1. k + shift \in 1..l /\ k + shift >= end /\ ~(k + shift < start) /\ (k + shift) - shift = k
      BY <1>1, <1>12, <2>0, <2>2
    <3>2. k + shift \in left
      BY <1>11, <3>1
    <3> QED
      BY <3>1, <3>2
  <2> QED
    BY <2>1, <2>2
<1> HIDE DEF at
<1>16. ASSUME NEW o \in left, NEW p \in left, o < p PROVE at[o] < at[p]
  <2>1. o \in Nat /\ p \in Nat /\ (o < start \/ o >= end) /\ (p < start \/ p >= end)
    BY <1>11, <1>13
  <2>2. at[o] = (IF o < start THEN o ELSE o - shift) /\ at[p] = (IF p < start THEN p ELSE p - shift)
    BY <1>13
  <2>3. end - shift >= start
    BY <1>1, <1>12
  <2> QED
    BY <1>1, <1>12, <1>16, <2>1, <2>2, <2>3
<1>17. ASSUME NEW o \in left, NEW i \in 1..n PROVE Later(script[i], o, at[o]) <=> o < start
  <2>0. o \in Nat /\ (o < start \/ o >= end) /\ at[o] = IF o < start THEN o ELSE o - shift
    BY <1>11, <1>13
  <2>1. CASE script[i].status = "deleted"
    <3>1. script[i].index \in start..(end - 1)
      BY <1>7, <2>1
    <3>2. script[i].index > o <=> o < start
      BY <1>1, <2>0, <3>1
    <3> QED
      BY <2>1, <3>2 DEF Later
  <2>2. CASE script[i].status = "added"
    <3>1. script[i].index \in start..(start + a - 1)
      BY <1>7, <2>2
    <3>2. script[i].index > at[o] <=> o < start
      BY <1>1, <1>12, <2>0, <3>1
    <3>3. script[i].status # "deleted"
      BY <2>2
    <3> QED
      BY <3>2, <3>3 DEF Later
  <2> QED
    BY <1>7, <2>1, <2>2
<1>18. ASSUME NEW i \in 1..n, NEW j \in 1..n, i < j, script[i].status = script[j].status
       PROVE  script[i].index < script[j].index
  <2>1. InTurn(script[i], script[j])
    BY <1>5, <1>18 DEF n
  <2> QED
    BY <1>18, <2>1 DEF InTurn
<1>19. Tells(script, array, new)
  <2>1. left = DOMAIN array \ Named(script, "deleted") /\ right = DOMAIN new \ Named(script, "added")
    BY DEF left, right
  <2>2. \A o \in left : new[at[o]] = array[o]
    BY <1>13
  <2>3. \A o \in left, i, j \in 1..n : i < j /\ Later(script[i], o, at[o]) => Later(script[j], o, at[o])
    BY <1>17
  <2>4. \E f \in [left -> right] :
          /\ \A k \in right : \E o \in left : f[o] = k
          /\ \A o \in left : new[f[o]] = array[o]
          /\ \A o, p \in left : o < p => f[o] < f[p]
          /\ \A o \in left, i, j \in 1..n : i < j /\ Later(script[i], o, f[o]) => Later(script[j], o, f[o])
    BY <1>14, <1>15, <1>16, <2>2, <2>3
  <2> HIDE DEF left, right
  <2>5. /\ \A i \in DOMAIN script :
             \/ script[i].status = "deleted" /\ script[i].index \in DOMAIN array /\ script[i].value = array[script[i].index]
             \/ script[i].status = "added" /\ script[i].index \in DOMAIN new /\ script[i].value = new[script[i].index]
        /\ \A i, j \in DOMAIN script :
             i < j /\ script[i].status = script[j].status => script[i].index < script[j].index
    BY <1>4, <1>8, <1>18
  <2>6. \E f \in [left -> right] :
          /\ \A k \in right : \E o \in left : f[o] = k
          /\ \A o \in left : new[f[o]] = array[o]
          /\ \A o, p \in left : o < p => f[o] < f[p]
          /\ \A o \in left, i, j \in DOMAIN script :
               i < j /\ Later(script[i], o, f[o]) => Later(script[j], o, f[o])
    BY <1>4, <2>4
  <2> QED
    BY <2>1, <2>5, <2>6 DEF Tells
<1> QED
  BY <1>5, <1>6, <1>19 DEF new

\* The script that knockout knows of a splice tells of it, its moves pair its
\* entries and none is missed (knockout-debug.js, cacheDiffForKnownOperation).
THEOREM SpliceTells ==
  ASSUME NEW V, NEW array \in Seq(V), NEW args \in Seq(V), NEW start \in 1..(Len(array) + 1), NEW count \in Nat
  PROVE  LET script == SpliceDiff(array, start, count, args) IN
         /\ Tells(script, array, Spliced(array, start, count, args))
         /\ MovesPair(script)
         /\ NoMoveMissed(script)
<1> DEFINE plain == SpliceScript(array, start, count, args)
           new == Spliced(array, start, count, args)
           moves == FindMoves(plain, "deleted", "added", NoLimit)
           script == MarkMoves(plain, moves)
           n == Len(plain)
           l == Len(array)
           m == Len(new)
<1>1. script = SpliceDiff(array, start, count, args)
  BY DEF SpliceDiff
<1>2. plain \in Seq(ScriptEntries(V)) /\ Plain(plain) /\ Tells(plain, array, new)
  BY SpliceScriptTells
<1>3. /\ n \in Nat /\ DOMAIN plain = 1..n /\ l \in Nat /\ DOMAIN array = 1..l
      /\ m \in Nat /\ DOMAIN new = 1..m
  <2>1. new \in Seq(V)
    BY SplicedItems
  <2> QED
    BY <1>2, <2>1, LenProperties
<1>4. moves = MovesIn(plain, TRUE, NoLimit) /\ NoLimit \in Nat
  BY DEF MovesIn, NoLimit
<1> HIDE DEF plain, new, moves, script
<1>5. Orderly(plain, n, l, m)
  <2> HIDE DEF n, l, m
  <2> QED
    BY <1>2, <1>3, TellsOnce
<1>6. /\ OncePerSide(plain)
      /\ \A k \in 1..n : plain[k].index # NotMoved
  BY <1>5 DEF Orderly
<1>7. Ample(plain, "deleted", "added", NoLimit)
  BY DEF Ample
<1>8. AreMoves(moves, plain) /\ AllMoves(moves, plain)
  BY <1>3, <1>4, <1>6, <1>7, FoundAreMoves
<1>9. MovesPair(script) /\ NoMoveMissed(script)
  <2>1. /\ MovesPair(MarkMoves(plain, moves))
        /\ AllMoves(moves, plain) /\ (\A k \in 1..n : plain[k].index # NotMoved)
             => NoMoveMissed(MarkMoves(plain, moves))
    BY <1>2, <1>3, <1>6, <1>8, MarksPair
  <2> QED
    BY <1>6, <1>8, <2>1 DEF script
<1>10. Alike(plain, script, n)
  <2>1. /\ DOMAIN script = 1..n
        /\ \A i \in 1..n : /\ script[i].status = plain[i].status
                           /\ script[i].index = plain[i].index
                           /\ script[i].value = plain[i].value
    BY <1>2, <1>3, MarkedEntries DEF script
  <2> QED
    BY <1>3, <2>1 DEF Alike
<1>11. Tells(script, array, new)
  BY <1>2, <1>3, <1>10, AlikeTell
<1> QED
  BY <1>1, <1>9, <1>11 DEF new

-----------------------------------------------------------------------------
(* The rows once foreach has followed a script                             *)
(* (setDomNodeChildrenFromArrayMapping).                                   *)

\* The items that a script names on neither side.
Left(script, l) == (1..l) \ Named(script, "deleted")
Right(script, m) == (1..m) \ Named(script, "added")

\* A script for an array of l items that becomes one of m items, and where the
\* items that stay come to.
Keeps(at, script, l, m) ==
  /\ \A i \in DOMAIN script : \/ script[i].status = "deleted" /\ script[i].index \in 1..l
                              \/ script[i].status = "added" /\ script[i].index \in 1..m
  /\ \A i, j \in DOMAIN script :
       i < j /\ script[i].status = script[j].status => script[i].index < script[j].index
  /\ at \in [Left(script, l) -> Right(script, m)]
  /\ \A y \in Right(script, m) : \E o \in Left(script, l) : at[o] = y
  /\ \A o, p \in Left(script, l) : o < p => at[o] < at[p]
  /\ \A o \in Left(script, l), i, j \in DOMAIN script :
       i < j /\ Later(script[i], o, at[o]) => Later(script[j], o, at[o])

\* A function that grows on the numbers after a and misses none after b goes
\* up by one.
Gapless(f, a, b, c) ==
  /\ \A x \in (a + 1)..(a + c) : f[x] \in Int /\ f[x] > b
  /\ \A x, y \in (a + 1)..(a + c) : x < y => f[x] < f[y]
  /\ \A x \in (a + 1)..(a + c) : \A z \in (b + 1)..f[x] : \E y \in (a + 1)..(a + c) : f[y] = z

LEMMA GrowsByOne ==
  ASSUME NEW a \in Int, NEW b \in Int, NEW c \in Int, NEW f, Gapless(f, a, b, c)
  PROVE  \A i \in 1..c : f[a + i] = b + i
<1>0. /\ \A x \in (a + 1)..(a + c) : f[x] \in Int /\ f[x] > b
      /\ \A x, y \in (a + 1)..(a + c) : x < y => f[x] < f[y]
      /\ \A x \in (a + 1)..(a + c) : \A z \in (b + 1)..f[x] : \E y \in (a + 1)..(a + c) : f[y] = z
  BY DEF Gapless
<1> DEFINE S == {i \in Nat : i \in 1..c => f[a + i] = b + i}
<1>1. 0 \in S
  OBVIOUS
<1>2. ASSUME NEW i \in Nat, i \in S PROVE i + 1 \in S
  <2> SUFFICES ASSUME i + 1 \in 1..c PROVE f[a + (i + 1)] = b + (i + 1)
    OBVIOUS
  <2> DEFINE x == a + (i + 1)
             z == b + (i + 1)
  <2>1. x \in (a + 1)..(a + c) /\ x \in Int /\ z \in Int
    OBVIOUS
  <2> HIDE DEF x, z
  <2>2. f[x] \in Int /\ f[x] > b
    BY <1>0, <2>1
  <2>3. f[x] >= z
    <3>1. CASE i = 0
      BY <2>1, <2>2, <3>1 DEF z
    <3>2. CASE i # 0
      <4>1. i \in 1..c /\ f[a + i] = b + i
        BY <1>2, <3>2
      <4>2. a + i \in (a + 1)..(a + c) /\ a + i < x
        BY <4>1 DEF x
      <4>3. f[a + i] < f[x]
        BY <1>0, <2>1, <4>2
      <4> QED
        BY <2>2, <4>1, <4>3 DEF z
    <3> QED
      BY <3>1, <3>2
  <2>4. ASSUME f[x] > z PROVE FALSE
    <3>1. z \in (b + 1)..f[x]
      BY <2>1, <2>2, <2>4 DEF z
    <3>2. PICK y \in (a + 1)..(a + c) : f[y] = z
      BY <1>0, <2>1, <3>1
    <3>3. y \in Int /\ ~(x < y) /\ y # x
      <4>1. x < y => f[x] < f[y]
        BY <1>0, <2>1
      <4> QED
        BY <2>1, <2>2, <2>4, <3>2, <4>1
    <3>4. y < x
      BY <2>1, <3>3
    <3>5. y = a + i \/ y < a + i
      BY <3>3, <3>4 DEF x
    <3>6. i \in 1..c /\ f[a + i] = b + i /\ a + i \in (a + 1)..(a + c)
      BY <1>2, <3>3, <3>5
    <3>7. f[y] <= b + i
      <4>1. CASE y = a + i
        BY <3>6, <4>1
      <4>2. CASE y < a + i
        <5>1. f[y] < f[a + i] /\ f[y] \in Int
          BY <1>0, <3>6, <4>2
        <5> QED
          BY <3>6, <5>1
      <4> QED
        BY <3>5, <4>1, <4>2
    <3> QED
      BY <3>2, <3>7 DEF z
  <2> QED
    BY <2>1, <2>2, <2>3, <2>4 DEF x, z
<1>3. Nat \subseteq S
  <2> HIDE DEF S
  <2> QED
    BY <1>1, <1>2, SetInduction
<1> QED
  BY <1>3

\* The rows that foreach may have.
RowsOf(V) == {Row(r) : r \in V} \cup {NewRow(v) : v \in V}

\* What the fold has.
Rowed(acc) == acc = [rows |-> acc.rows, next |-> acc.next, gone |-> acc.gone, first |-> acc.first]

\* With the next rows retained.
LongerBy(kept, acc, V, last, count) ==
  /\ Rowed(kept) /\ kept.rows \in Seq(RowsOf(V))
  /\ kept.next = acc.next + count /\ kept.gone = acc.gone /\ kept.first = acc.first
  /\ Len(kept.rows) = Len(acc.rows) + count
  /\ \A i \in 1..Len(acc.rows) : kept.rows[i] = acc.rows[i]
  /\ \A i \in 1..count : kept.rows[Len(acc.rows) + i] = Row(last[acc.next + i - 1])

LEMMA Retained ==
  ASSUME NEW V, NEW last \in Seq(V), NEW acc, Rowed(acc), acc.rows \in Seq(RowsOf(V)),
         acc.next \in Nat \ {0}, NEW count \in Nat, acc.next + count <= Len(last) + 1,
         NEW kept, kept = Retain(acc, last, count)
  PROVE  LongerBy(kept, acc, V, last, count)
<1> DEFINE next == acc.next
           rows == acc.rows
           more == [i \in 1..count |-> Row(last[next + i - 1])]
<1>1. kept = [rows |-> rows \o more, next |-> next + count, gone |-> acc.gone, first |-> acc.first]
  <2>1. kept = [acc EXCEPT !.rows = @ \o more, !.next = @ + count]
    BY DEF Retain
  <2> HIDE DEF more
  <2> QED
    BY <2>1 DEF Rowed
<1>2. more \in Seq(RowsOf(V)) /\ Len(more) = count /\ \A i \in 1..count : more[i] = Row(last[next + i - 1])
  <2>1. Len(last) \in Nat
    BY LenProperties
  <2>2. \A i \in 1..count : next + i - 1 \in 1..Len(last)
    BY <2>1
  <2>3. ASSUME NEW i \in 1..count PROVE Row(last[next + i - 1]) \in RowsOf(V)
    <3>1. last[next + i - 1] \in V
      BY <2>2, ElementOfSeq
    <3> QED
      BY <3>1 DEF RowsOf
  <2>4. more \in [1..count -> RowsOf(V)]
    BY <2>3
  <2> QED
    BY <2>4
<1> HIDE DEF more
<1>3. /\ rows \o more \in Seq(RowsOf(V))
      /\ Len(rows \o more) = Len(rows) + Len(more)
      /\ \A i \in 1..(Len(rows) + Len(more)) :
           (rows \o more)[i] = IF i <= Len(rows) THEN rows[i] ELSE more[i - Len(rows)]
  BY <1>2, ConcatProperties
<1>4. Len(rows) \in Nat
  BY LenProperties
<1>5. kept.rows = rows \o more /\ kept.next = next + count /\ kept.gone = acc.gone /\ kept.first = acc.first
  BY <1>1
<1>6. Rowed(kept)
  BY <1>1, <1>5 DEF Rowed
<1> DEFINE n == Len(rows)
<1> HIDE DEF n
<1>7. \A i \in 1..n : kept.rows[i] = rows[i]
  BY <1>2, <1>3, <1>4, <1>5 DEF n
<1>8. ASSUME NEW i \in 1..count PROVE kept.rows[n + i] = Row(last[next + i - 1])
  <2>1. n + i \in 1..(n + count) /\ ~(n + i <= n) /\ (n + i) - n = i
    BY <1>4 DEF n
  <2> QED
    BY <1>2, <1>3, <1>5, <2>1 DEF n
<1> QED
  BY <1>2, <1>3, <1>5, <1>6, <1>7, <1>8 DEF n, LongerBy

\* The first k entries are those before the p-th old item and those up to the
\* q-th new one, and the items that stay are on the same side of both.
Reached(at, script, l, m, k, p, q) ==
  /\ p \in 1..(l + 1) /\ q \in 0..m
  /\ \A i \in DOMAIN script : script[i].status = "deleted" => (i <= k <=> script[i].index < p)
  /\ \A i \in DOMAIN script : script[i].status = "added" => (i <= k <=> script[i].index <= q)
  /\ \A o \in Left(script, l) : o < p <=> at[o] <= q

\* The next c items stay, and come to the next c places.
Run(at, script, l, p, q, c) == \A i \in 1..c : p + i - 1 \in Left(script, l) /\ at[p + i - 1] = q + i

LEMMA KeptPlaces ==
  ASSUME NEW l \in Nat, NEW m \in Nat, NEW script, NEW at, Keeps(at, script, l, m), NEW o \in Left(script, l)
  PROVE  o \in 1..l /\ at[o] \in 1..m /\ at[o] \in Right(script, m) /\ o \notin Named(script, "deleted")
BY DEF Keeps, Left, Right

LEMMA PlacesGrow ==
  ASSUME NEW l \in Nat, NEW m \in Nat, NEW script, NEW at, Keeps(at, script, l, m),
         NEW o \in Left(script, l), NEW p \in Left(script, l)
  PROVE  (o < p <=> at[o] < at[p]) /\ (o = p <=> at[o] = at[p])
<1>1. o \in Int /\ p \in Int /\ at[o] \in Int /\ at[p] \in Int
  BY KeptPlaces
<1>2. (o < p => at[o] < at[p]) /\ (p < o => at[p] < at[o])
  BY DEF Keeps
<1> QED
  BY <1>1, <1>2

\* When the next c places are of items that stay, and so are the old items up
\* to those, they are the next c old items.
LEMMA RunOfPlaces ==
  ASSUME NEW l \in Nat, NEW m \in Nat, NEW script, NEW at, Keeps(at, script, l, m),
         NEW p \in Nat, NEW q \in Nat, NEW c \in Nat, NEW k, Reached(at, script, l, m, k, p, q),
         \A y \in (q + 1)..(q + c) : y \in Right(script, m),
         \A o \in Left(script, l) : at[o] <= q + c => \A z \in p..o : z \in Left(script, l)
  PROVE  Run(at, script, l, p, q, c)
<1> DEFINE f == [y \in (q + 1)..(q + c) |-> CHOOSE o \in Left(script, l) : at[o] = y]
<1>1. ASSUME NEW y \in (q + 1)..(q + c) PROVE f[y] \in Left(script, l) /\ at[f[y]] = y
  <2>1. \E o \in Left(script, l) : at[o] = y
    BY DEF Keeps
  <2> QED
    BY <2>1
<1> HIDE DEF f
<1>2. ASSUME NEW y \in (q + 1)..(q + c) PROVE f[y] \in Int /\ f[y] > p - 1
  <2>1. f[y] \in 1..l
    BY <1>1, KeptPlaces
  <2>2. ~(f[y] < p)
    BY <1>1, <2>1 DEF Reached
  <2> QED
    BY <2>1, <2>2
<1>3. ASSUME NEW x \in (q + 1)..(q + c), NEW y \in (q + 1)..(q + c), x < y PROVE f[x] < f[y]
  BY <1>1, <1>3, PlacesGrow
<1>4. ASSUME NEW x \in (q + 1)..(q + c), NEW z \in ((p - 1) + 1)..f[x]
      PROVE  \E y \in (q + 1)..(q + c) : f[y] = z
  <2>1. z \in p..f[x] /\ f[x] \in Left(script, l) /\ at[f[x]] = x /\ f[x] \in Int
    BY <1>1, <1>2
  <2>2. at[f[x]] <= q + c
    BY <2>1
  <2>3. z \in Left(script, l)
    BY <2>1, <2>2
  <2>4. at[z] \in Int /\ z \in Int
    BY <2>3, KeptPlaces
  <2>5. at[z] <= x
    <3>1. z < f[x] \/ z = f[x]
      BY <2>1, <2>4
    <3>2. CASE z = f[x]
      BY <2>1, <3>2
    <3>3. CASE z < f[x]
      <4>1. at[z] < at[f[x]]
        BY <2>1, <2>3, <3>3, PlacesGrow
      <4> QED
        BY <2>1, <2>4, <4>1
    <3> QED
      BY <3>1, <3>2, <3>3
  <2>6. ~(at[z] <= q)
    <3>1. ~(z < p)
      BY <2>1, <2>4
    <3> QED
      BY <2>3, <3>1 DEF Reached
  <2>7. at[z] \in (q + 1)..(q + c)
    BY <2>4, <2>5, <2>6
  <2>8. f[at[z]] = z
    <3> DEFINE o == f[at[z]]
    <3>1. o \in Left(script, l) /\ at[o] = at[z]
      BY <1>1, <2>7
    <3> HIDE DEF o
    <3>2. o = z
      BY <2>3, <3>1, PlacesGrow
    <3> QED
      BY <3>2 DEF o
  <2> QED
    BY <2>7, <2>8
<1>5. \A i \in 1..c : f[q + i] = (p - 1) + i
  <2>1. Gapless(f, q, p - 1, c)
    BY <1>2, <1>3, <1>4 DEF Gapless
  <2> QED
    BY <2>1, GrowsByOne
<1>6. ASSUME NEW i \in 1..c PROVE p + i - 1 \in Left(script, l) /\ at[p + i - 1] = q + i
  <2>1. q + i \in (q + 1)..(q + c) /\ (p - 1) + i = p + i - 1
    OBVIOUS
  <2> QED
    BY <1>1, <1>5, <2>1
<1> QED
  BY <1>6 DEF Run

\* When the next c old items stay, and so does what has the places up to
\* theirs, they come to the next c places.
LEMMA RunOfItems ==
  ASSUME NEW l \in Nat, NEW m \in Nat, NEW script, NEW at, Keeps(at, script, l, m),
         NEW p \in Nat, NEW q \in Nat, NEW c \in Nat, NEW k, Reached(at, script, l, m, k, p, q),
         \A o \in p..(p + c - 1) : o \in Left(script, l),
         \A o \in p..(p + c - 1) : \A y \in (q + 1)..at[o] : y \in Right(script, m)
  PROVE  Run(at, script, l, p, q, c)
<1>1. ASSUME NEW o \in ((p - 1) + 1)..((p - 1) + c)
      PROVE  o \in p..(p + c - 1) /\ o \in Left(script, l) /\ at[o] \in Int /\ at[o] > q
  <2>1. o \in p..(p + c - 1)
    OBVIOUS
  <2>2. o \in Left(script, l) /\ at[o] \in Int
    BY <2>1, KeptPlaces
  <2>3. ~(o < p)
    BY <2>1
  <2> QED
    BY <2>1, <2>2, <2>3 DEF Reached
<1>2. \A x, y \in ((p - 1) + 1)..((p - 1) + c) : x < y => at[x] < at[y]
  BY <1>1, PlacesGrow
<1>3. ASSUME NEW x \in ((p - 1) + 1)..((p - 1) + c), NEW z \in (q + 1)..at[x]
      PROVE  \E y \in ((p - 1) + 1)..((p - 1) + c) : at[y] = z
  <2>1. z \in Right(script, m)
    BY <1>1
  <2>2. PICK y \in Left(script, l) : at[y] = z
    BY <2>1 DEF Keeps
  <2>3. y \in Int
    BY <2>2, KeptPlaces
  <2>4. ~(y < p)
    <3>1. ~(at[y] <= q)
      BY <1>1, <2>2
    <3> QED
      BY <2>2, <3>1 DEF Reached
  <2>5. y <= x
    <3>1. ~(at[x] < at[y])
      BY <1>1, <2>2
    <3>2. ~(x < y)
      BY <1>1, <2>2, <3>1, PlacesGrow
    <3> QED
      BY <2>3, <3>2
  <2> QED
    BY <2>2, <2>3, <2>4, <2>5
<1>4. \A i \in 1..c : at[(p - 1) + i] = q + i
  <2>1. Gapless(at, p - 1, q, c)
    BY <1>1, <1>2, <1>3 DEF Gapless
  <2> QED
    BY <2>1, GrowsByOne
<1>5. ASSUME NEW i \in 1..c PROVE p + i - 1 \in Left(script, l) /\ at[p + i - 1] = q + i
  <2>1. p + i - 1 \in p..(p + c - 1) /\ p + i - 1 = (p - 1) + i
    OBVIOUS
  <2> QED
    BY <1>4, <2>1
<1> QED
  BY <1>5 DEF Run

\* An entry is the last one that has come or the next one.
LEMMA EntryKinds ==
  ASSUME NEW l \in Nat, NEW m \in Nat, NEW script, NEW at, Keeps(at, script, l, m),
         NEW i \in DOMAIN script
  PROVE  /\ script[i].status \in {"deleted", "added"} /\ script[i].index \in Int
         /\ script[i].status = "deleted" => script[i].index \in 1..l /\ script[i].index \notin Left(script, l)
         /\ script[i].status = "added" => script[i].index \in 1..m /\ script[i].index \notin Right(script, m)
<1>1. \/ script[i].status = "deleted" /\ script[i].index \in 1..l
      \/ script[i].status = "added" /\ script[i].index \in 1..m
  BY DEF Keeps
<1>2. script[i].index \in Named(script, script[i].status)
  BY DEF Named
<1> QED
  BY <1>1, <1>2 DEF Left, Right

\* The deletion that follows: the items before it stay.
LEMMA DeletionReached ==
  ASSUME NEW n \in Nat, NEW l \in Nat, NEW m \in Nat, NEW script, DOMAIN script = 1..n, NEW at,
         Keeps(at, script, l, m), NEW k \in 0..(n - 1), NEW p \in Nat, NEW q \in Nat,
         Reached(at, script, l, m, k, p, q), script[k + 1].status = "deleted",
         NEW x, x = script[k + 1].index, NEW c, c = Before(p, x)
  PROVE  /\ c \in Nat /\ p + c = x /\ x \in 1..l
         /\ Run(at, script, l, p, q, c)
         /\ Reached(at, script, l, m, k + 1, x + 1, q + c)
<1>0. /\ p \in 1..(l + 1) /\ q \in 0..m
      /\ \A i \in 1..n : script[i].status = "deleted" => (i <= k <=> script[i].index < p)
      /\ \A i \in 1..n : script[i].status = "added" => (i <= k <=> script[i].index <= q)
      /\ \A o \in Left(script, l) : o < p <=> at[o] <= q
  BY DEF Reached
<1>1. k + 1 \in 1..n /\ ~(k + 1 <= k)
  OBVIOUS
<1>2. x \in 1..l /\ x \notin Left(script, l)
  BY <1>1, EntryKinds
<1>3. x >= p
  BY <1>0, <1>1, <1>2
<1>4. c \in Nat /\ p + c = x
  BY <1>2, <1>3 DEF Before
<1>5. ASSUME NEW i \in 1..n, i > k + 1
      PROVE  /\ script[i].status = "deleted" => script[i].index > x
             /\ \A o \in Left(script, l) : o < x /\ script[i].status = "added" => script[i].index > at[o]
  <2>1. script[i].index \in Int
    BY EntryKinds
  <2>2. script[i].status = "deleted" => script[i].index > x
    BY <1>1, <1>2, <1>5, <2>1 DEF Keeps
  <2>3. ASSUME NEW o \in Left(script, l), o < x, script[i].status = "added" PROVE script[i].index > at[o]
    <3>1. Later(script[k + 1], o, at[o])
      BY <1>2, <2>3, KeptPlaces DEF Later
    <3>2. Later(script[i], o, at[o])
      BY <1>1, <1>5, <3>1 DEF Keeps
    <3> QED
      BY <2>3, <3>2 DEF Later
  <2> QED
    BY <2>2, <2>3
<1>6. ASSUME NEW o \in p..(p + c - 1) PROVE o \in Left(script, l)
  <2>1. o \in 1..l /\ o < x /\ ~(o < p)
    BY <1>0, <1>2, <1>4, SMTT(40)
  <2>2. ASSUME o \in Named(script, "deleted") PROVE FALSE
    <3>1. PICK i \in 1..n : script[i].status = "deleted" /\ script[i].index = o
      BY <2>2 DEF Named
    <3>2. i > k
      BY <1>0, <2>1, <3>1
    <3>3. i # k + 1
      BY <1>2, <2>1, <3>1
    <3> QED
      BY <1>2, <1>5, <2>1, <3>1, <3>2, <3>3
  <2> QED
    BY <2>1, <2>2 DEF Left
<1>7. ASSUME NEW o \in p..(p + c - 1), NEW y \in (q + 1)..at[o] PROVE y \in Right(script, m)
  <2>1. o \in Left(script, l) /\ o < x
    BY <1>2, <1>4, <1>6, SMTT(40)
  <2>2. at[o] \in 1..m
    BY <2>1, KeptPlaces
  <2>3. y \in 1..m /\ y <= at[o] /\ y > q
    BY <1>0, <2>2
  <2>4. ASSUME y \in Named(script, "added") PROVE FALSE
    <3>1. PICK i \in 1..n : script[i].status = "added" /\ script[i].index = y
      BY <2>4 DEF Named
    <3>2. i > k
      BY <1>0, <2>3, <3>1
    <3>3. i # k + 1
      BY <3>1
    <3> QED
      BY <1>5, <2>1, <2>2, <2>3, <3>1, <3>2, <3>3
  <2> QED
    BY <2>3, <2>4 DEF Right
<1>8. Run(at, script, l, p, q, c)
  BY <1>4, <1>6, <1>7, RunOfItems
<1>9. c = 0 \/ (x - 1 \in Left(script, l) /\ at[x - 1] = q + c)
  <2>1. c # 0 => c \in 1..c /\ p + c - 1 = x - 1
    BY <1>2, <1>4
  <2> QED
    BY <1>4, <1>8, <2>1 DEF Run
<1>10. q + c \in 0..m
  <2>1. CASE c = 0
    BY <1>0, <2>1
  <2>2. CASE c # 0
    <3>1. at[x - 1] \in 1..m
      BY <1>9, <2>2, KeptPlaces
    <3> QED
      BY <1>9, <2>2, <3>1
  <2> QED
    BY <2>1, <2>2
<1>11. ASSUME NEW o \in Left(script, l) PROVE o < x + 1 <=> at[o] <= q + c
  <2>1. o \in 1..l /\ at[o] \in 1..m /\ o # x
    BY <1>2, KeptPlaces
  <2>2. CASE o < p
    BY <1>0, <1>3, <1>4, <2>1, <2>2, SMTT(40)
  <2>3. CASE ~(o < p) /\ o < x
    <3>1. o - p + 1 \in 1..c /\ p + (o - p + 1) - 1 = o
      BY <1>0, <1>2, <1>4, <2>1, <2>3
    <3>2. at[o] = q + (o - p + 1)
      BY <1>8, <3>1 DEF Run
    <3> QED
      BY <1>0, <1>2, <1>4, <2>1, <2>3, <3>1, <3>2, SMTT(40)
  <2>4. CASE o > x
    <3>1. at[o] > q + c
      <4>1. CASE c = 0
        BY <1>0, <1>2, <1>3, <2>1, <2>4, <4>1
      <4>2. CASE c # 0
        <5>1. at[x - 1] < at[o]
          BY <1>2, <1>9, <2>1, <2>4, <4>2, PlacesGrow
        <5> QED
          BY <1>9, <4>2, <5>1
      <4> QED
        BY <4>1, <4>2
    <3> QED
      BY <1>2, <1>10, <2>1, <2>4, <3>1
  <2> QED
    BY <1>0, <1>2, <2>1, <2>2, <2>3, <2>4
<1>12. ASSUME NEW i \in 1..n, script[i].status = "deleted" PROVE i <= k + 1 <=> script[i].index < x + 1
  <2>1. script[i].index \in 1..l
    BY <1>12, EntryKinds
  <2>2. CASE i <= k
    BY <1>0, <1>2, <1>3, <1>12, <2>1, <2>2
  <2>3. CASE i = k + 1
    BY <1>2, <2>3
  <2>4. CASE i > k + 1
    BY <1>2, <1>5, <1>12, <2>1, <2>4
  <2> QED
    BY <2>2, <2>3, <2>4
<1>13. ASSUME NEW i \in 1..n, script[i].status = "added" PROVE i <= k + 1 <=> script[i].index <= q + c
  <2>1. script[i].index \in 1..m
    BY <1>13, EntryKinds
  <2>2. CASE i <= k
    BY <1>0, <1>4, <1>13, <2>1, <2>2
  <2>3. CASE i = k + 1
    BY <1>13, <2>3
  <2>4. CASE i > k + 1
    <3>1. CASE c = 0
      BY <1>0, <1>13, <2>1, <2>4, <3>1
    <3>2. CASE c # 0
      <4>1. x - 1 < x /\ script[i].index > at[x - 1]
        BY <1>2, <1>5, <1>9, <1>13, <2>4, <3>2
      <4> QED
        BY <1>9, <1>10, <2>1, <2>4, <3>2, <4>1
    <3> QED
      BY <3>1, <3>2
  <2> QED
    BY <2>2, <2>3, <2>4
<1>14. Reached(at, script, l, m, k + 1, x + 1, q + c)
  BY <1>2, <1>10, <1>11, <1>12, <1>13, SMTT(40) DEF Reached
<1> QED
  BY <1>2, <1>4, <1>8, <1>14

LEMMA StepsBetween ==
  ASSUME NEW q \in Int, NEW y \in Int, q + 1 < y
  PROVE  y - (q + 1) \in Nat /\ q + (y - (q + 1)) + 1 = y
OBVIOUS

LEMMA NotBelow ==
  ASSUME NEW a \in Int, NEW b \in Int, NEW c \in Int, a > b + c - 1
  PROVE  ~(a < b + c)
OBVIOUS

\* The addition that follows: what comes to the places before it stays.
LEMMA AdditionReached ==
  ASSUME NEW n \in Nat, NEW l \in Nat, NEW m \in Nat, NEW script, DOMAIN script = 1..n, NEW at,
         Keeps(at, script, l, m), NEW k \in 0..(n - 1), NEW p \in Nat, NEW q \in Nat,
         Reached(at, script, l, m, k, p, q), script[k + 1].status = "added",
         NEW y, y = script[k + 1].index, NEW c, c = Before(q + 1, y)
  PROVE  /\ c \in Nat /\ q + c + 1 = y /\ y \in 1..m /\ p + c <= l + 1
         /\ Run(at, script, l, p, q, c)
         /\ Reached(at, script, l, m, k + 1, p + c, q + c + 1)
<1>0. /\ p \in 1..(l + 1) /\ q \in 0..m
      /\ \A i \in 1..n : script[i].status = "deleted" => (i <= k <=> script[i].index < p)
      /\ \A i \in 1..n : script[i].status = "added" => (i <= k <=> script[i].index <= q)
      /\ \A o \in Left(script, l) : o < p <=> at[o] <= q
  BY DEF Reached
<1>1. k + 1 \in 1..n /\ ~(k + 1 <= k)
  OBVIOUS
<1>2. y \in 1..m /\ y \notin Right(script, m)
  BY <1>1, EntryKinds
<1>3. y > q
  BY <1>0, <1>1, <1>2
<1>4. c \in Nat /\ q + c + 1 = y
  <2>1. y = q + 1 \/ q + 1 < y
    BY <1>2, <1>3
  <2>2. CASE y = q + 1
    BY <2>2 DEF Before
  <2>3. CASE q + 1 < y
    <3>1. c = y - (q + 1)
      BY <2>3 DEF Before
    <3>2. y \in Int /\ q \in Int /\ q + 1 < y
      BY <1>2, <2>3
    <3>3. y - (q + 1) \in Nat /\ q + (y - (q + 1)) + 1 = y
      BY <3>2, StepsBetween, Zenon
    <3> QED
      BY <3>1, <3>3
  <2> QED
    BY <2>1, <2>2, <2>3
<1>5. ASSUME NEW i \in 1..n, i > k + 1
      PROVE  /\ script[i].status = "added" => script[i].index > y
             /\ \A o \in Left(script, l) : at[o] < y /\ script[i].status = "deleted" => script[i].index > o
  <2>1. script[i].index \in Int
    BY EntryKinds
  <2>2. script[i].status = "added" => script[i].index > y
    BY <1>1, <1>2, <1>5, <2>1 DEF Keeps
  <2>3. ASSUME NEW o \in Left(script, l), at[o] < y, script[i].status = "deleted" PROVE script[i].index > o
    <3>1. Later(script[k + 1], o, at[o])
      BY <1>2, <2>3, KeptPlaces DEF Later
    <3>2. Later(script[i], o, at[o])
      BY <1>1, <1>5, <3>1 DEF Keeps
    <3> QED
      BY <2>3, <3>2 DEF Later
  <2> QED
    BY <2>2, <2>3
<1>6. ASSUME NEW z \in (q + 1)..(q + c) PROVE z \in Right(script, m)
  <2>1. z \in 1..m /\ z < y /\ z > q
    BY <1>0, <1>2, <1>4, SMTT(40)
  <2>2. ASSUME z \in Named(script, "added") PROVE FALSE
    <3>1. PICK i \in 1..n : script[i].status = "added" /\ script[i].index = z
      BY <2>2 DEF Named
    <3>2. i > k
      BY <1>0, <2>1, <3>1
    <3>3. i # k + 1
      BY <1>2, <2>1, <3>1
    <3> QED
      BY <1>2, <1>5, <2>1, <3>1, <3>2, <3>3
  <2> QED
    BY <2>1, <2>2 DEF Right
<1>7. ASSUME NEW o \in Left(script, l), at[o] <= q + c, NEW z \in p..o PROVE z \in Left(script, l)
  <2>1. o \in 1..l /\ at[o] \in 1..m /\ at[o] < y
    <3>1. o \in 1..l /\ at[o] \in 1..m
      BY KeptPlaces
    <3> QED
      BY <1>2, <1>4, <1>7, <3>1
  <2>2. z \in 1..l /\ z <= o /\ ~(z < p)
    BY <1>0, <2>1
  <2>3. ASSUME z \in Named(script, "deleted") PROVE FALSE
    <3>1. PICK i \in 1..n : script[i].status = "deleted" /\ script[i].index = z
      BY <2>3 DEF Named
    <3>2. i > k
      BY <1>0, <2>2, <3>1
    <3>3. i # k + 1
      BY <3>1
    <3> QED
      BY <1>5, <2>1, <2>2, <3>1, <3>2, <3>3
  <2> QED
    BY <2>2, <2>3 DEF Left
<1>8. Run(at, script, l, p, q, c)
  BY <1>4, <1>6, <1>7, RunOfPlaces
<1>9. c = 0 \/ (p + c - 1 \in Left(script, l) /\ at[p + c - 1] = q + c)
  <2>1. c # 0 => c \in 1..c
    BY <1>4
  <2> QED
    BY <1>4, <1>8, <2>1 DEF Run
<1>10. p + c \in 1..(l + 1)
  <2>1. CASE c = 0
    BY <1>0, <2>1
  <2>2. CASE c # 0
    <3>1. p + c - 1 \in 1..l
      BY <1>9, <2>2, KeptPlaces
    <3> QED
      BY <1>0, <1>4, <3>1, SMTT(40)
  <2> QED
    BY <2>1, <2>2
<1>11. ASSUME NEW o \in Left(script, l) PROVE o < p + c <=> at[o] <= y
  <2>1. o \in 1..l /\ at[o] \in 1..m /\ at[o] # y
    BY <1>2, KeptPlaces
  <2>2. CASE o < p
    BY <1>0, <1>3, <1>4, <2>1, <2>2, SMTT(40)
  <2>3. CASE ~(o < p) /\ o < p + c
    <3>1. o - p + 1 \in 1..c /\ p + (o - p + 1) - 1 = o
      <4>1. o \in Int /\ o >= p /\ o < p + c /\ c \in Nat
        BY <1>4, <2>1, <2>3
      <4> QED
        BY <4>1
    <3>2. at[o] = q + (o - p + 1)
      BY <1>8, <3>1 DEF Run
    <3> QED
      BY <1>0, <1>2, <1>4, <2>1, <2>3, <3>1, <3>2
  <2>4. CASE ~(o < p + c)
    <3>1. at[o] > q + c
      <4>1. CASE c = 0
        BY <1>0, <2>1, <2>4, <4>1
      <4>2. CASE c # 0
        <5>1. p + c - 1 < o
          BY <1>0, <1>4, <2>1, <2>4
        <5>2. at[p + c - 1] < at[o]
          BY <1>9, <4>2, <5>1, PlacesGrow
        <5> QED
          BY <1>9, <4>2, <5>2
      <4> QED
        BY <4>1, <4>2
    <3> QED
      BY <1>0, <1>2, <1>4, <2>1, <2>4, <3>1, SMTT(40)
  <2> QED
    BY <1>0, <1>4, <2>1, <2>2, <2>3, <2>4
<1>12. ASSUME NEW i \in 1..n, script[i].status = "added" PROVE i <= k + 1 <=> script[i].index <= y
  <2>1. script[i].index \in 1..m
    BY <1>12, EntryKinds
  <2>2. CASE i <= k
    BY <1>0, <1>2, <1>3, <1>12, <2>1, <2>2
  <2>3. CASE i = k + 1
    BY <1>2, <2>3
  <2>4. CASE i > k + 1
    BY <1>2, <1>5, <1>12, <2>1, <2>4
  <2> QED
    BY <2>2, <2>3, <2>4
<1>13. ASSUME NEW i \in 1..n, script[i].status = "deleted" PROVE i <= k + 1 <=> script[i].index < p + c
  <2>1. script[i].index \in 1..l
    BY <1>13, EntryKinds
  <2>2. CASE i <= k
    BY <1>0, <1>4, <1>13, <2>1, <2>2, SMTT(40)
  <2>3. CASE i = k + 1
    BY <1>13, <2>3
  <2>4. CASE i > k + 1
    <3>1. CASE c = 0
      BY <1>0, <1>13, <2>1, <2>4, <3>1
    <3>2. CASE c # 0
      <4>1. at[p + c - 1] < y
        BY <1>0, <1>2, <1>4, <1>9, <3>2
      <4>2. script[i].index > p + c - 1
        BY <1>5, <1>9, <1>13, <2>4, <3>2, <4>1
      <4>3. ~(script[i].index < p + c) /\ ~(i <= k + 1)
        <5>1. script[i].index \in Int /\ c \in Int /\ p \in Int
          BY <1>4, <2>1
        <5>2. ~(script[i].index < p + c)
          BY <4>2, <5>1, NotBelow
        <5> QED
          BY <2>4, <5>2
      <4> QED
        BY <4>3
    <3> QED
      BY <3>1, <3>2
  <2> QED
    BY <2>2, <2>3, <2>4
<1>14. Reached(at, script, l, m, k + 1, p + c, y)
  BY <1>2, <1>10, <1>11, <1>12, <1>13 DEF Reached
<1> QED
  BY <1>0, <1>2, <1>4, <1>8, <1>10, <1>14

\* Behind the last entry all that is left stays.
LEMMA EndReached ==
  ASSUME NEW n \in Nat, NEW l \in Nat, NEW m \in Nat, NEW script, DOMAIN script = 1..n, NEW at,
         Keeps(at, script, l, m), NEW p \in Nat, NEW q \in Nat,
         Reached(at, script, l, m, n, p, q), NEW c, c = Before(q, m)
  PROVE  c \in Nat /\ q + c = m /\ p + c = l + 1 /\ Run(at, script, l, p, q, c)
<1>0. /\ p \in 1..(l + 1) /\ q \in 0..m
      /\ \A i \in 1..n : script[i].status = "deleted" => script[i].index < p
      /\ \A i \in 1..n : script[i].status = "added" => script[i].index <= q
      /\ \A o \in Left(script, l) : o < p <=> at[o] <= q
  BY DEF Reached
<1>1. c \in Nat /\ q + c = m
  BY <1>0 DEF Before
<1>2. ASSUME NEW z \in (q + 1)..(q + c) PROVE z \in Right(script, m)
  <2>1. z \in 1..m /\ ~(z <= q)
    BY <1>0, <1>1
  <2>2. z \notin Named(script, "added")
    BY <1>0, <2>1 DEF Named
  <2> QED
    BY <2>1, <2>2 DEF Right
<1>3. ASSUME NEW z \in p..l PROVE z \in Left(script, l)
  <2>1. z \in 1..l /\ ~(z < p)
    BY <1>0
  <2>2. z \notin Named(script, "deleted")
    BY <1>0, <2>1 DEF Named
  <2> QED
    BY <2>1, <2>2 DEF Left
<1>4. Run(at, script, l, p, q, c)
  <2>1. \A o \in Left(script, l) : at[o] <= q + c => \A z \in p..o : z \in Left(script, l)
    <3>1. ASSUME NEW o \in Left(script, l), NEW z \in p..o PROVE z \in p..l
      <4>1. o \in 1..l
        BY KeptPlaces
      <4> QED
        BY <4>1
    <3> QED
      BY <1>3, <3>1
  <2> QED
    BY <1>1, <1>2, <2>1, RunOfPlaces
<1>5. c = 0 \/ (p + c - 1 \in Left(script, l) /\ at[p + c - 1] = m)
  <2>1. c # 0 => c \in 1..c
    BY <1>1
  <2> QED
    BY <1>1, <1>4, <2>1 DEF Run
<1>6. p + c <= l + 1
  <2>1. c # 0 => p + c - 1 \in 1..l
    BY <1>5, KeptPlaces
  <2> QED
    BY <1>0, <1>1, <2>1
<1>7. ASSUME p + c <= l PROVE FALSE
  <2>1. p + c \in Left(script, l)
    <3>1. p + c \in p..l
      BY <1>1, <1>7
    <3> QED
      BY <1>3, <3>1
  <2>2. at[p + c] \in 1..m
    BY <2>1, KeptPlaces
  <2>3. CASE c = 0
    <3>1. p \in Left(script, l) /\ at[p] <= q /\ ~(p < p)
      BY <1>1, <2>1, <2>2, <2>3
    <3> QED
      BY <1>0, <3>1
  <2>4. CASE c # 0
    <3>1. p + c - 1 < p + c
      BY <1>1
    <3>2. at[p + c - 1] < at[p + c]
      BY <1>5, <2>1, <2>4, <3>1, PlacesGrow
    <3> QED
      BY <1>5, <2>2, <2>4, <3>2
  <2> QED
    BY <2>3, <2>4
<1> QED
  BY <1>0, <1>1, <1>4, <1>6, <1>7

\* The row of an addition.
RowOf(entry, last) == IF entry.moved = NotMoved THEN NewRow(entry.value) ELSE Row(last[entry.moved])

\* The rows of the old items fit the script.
Fits(script, V, last, l) ==
  /\ last \in Seq(V) /\ Len(last) = l
  /\ \A i \in DOMAIN script :
       script[i].status = "added" => script[i].value \in V /\ (script[i].moved = NotMoved \/ script[i].moved \in 1..l)

\* The rows that leave with the first k entries.
Gone(script, last, k) ==
  {last[script[i].index] : i \in {j \in 1..k : script[j].status = "deleted" /\ script[j].moved = NotMoved}}

\* Where foreach is after k entries.
Followed(acc, V, last, script, at, l, m, k) ==
  /\ Rowed(acc) /\ acc.rows \in Seq(RowsOf(V))
  /\ Reached(at, script, l, m, k, acc.next, Len(acc.rows))
  /\ \A o \in Left(script, l) : o < acc.next => acc.rows[at[o]] = Row(last[o])
  /\ \A i \in 1..k : script[i].status = "added" => acc.rows[script[i].index] = RowOf(script[i], last)
  /\ acc.gone = Gone(script, last, k)
  /\ acc.first \in Seq(Nat)
  /\ \A f \in 1..Len(acc.first) :
       \E i \in 1..k : /\ script[i].status = "added" /\ script[i].moved # NotMoved
                       /\ script[i].index = acc.first[f]

\* After the next c rows are retained.
RunFollowed(kept, acc, V, last, script, at, l, k, c) ==
  /\ Rowed(kept) /\ kept.rows \in Seq(RowsOf(V))
  /\ kept.next = acc.next + c /\ Len(kept.rows) = Len(acc.rows) + c
  /\ kept.gone = acc.gone /\ kept.first = acc.first
  /\ \A o \in Left(script, l) : o < acc.next + c => kept.rows[at[o]] = Row(last[o])
  /\ \A i \in 1..k : script[i].status = "added" => kept.rows[script[i].index] = RowOf(script[i], last)

LEMMA RunIsRetained ==
  ASSUME NEW n \in Nat, NEW l \in Nat, NEW m \in Nat, NEW script, DOMAIN script = 1..n, NEW at,
         Keeps(at, script, l, m), NEW V, NEW last, Fits(script, V, last, l), NEW k \in 0..n,
         NEW acc, Followed(acc, V, last, script, at, l, m, k), NEW c \in Nat,
         Run(at, script, l, acc.next, Len(acc.rows), c), acc.next + c <= l + 1,
         NEW kept, kept = Retain(acc, last, c)
  PROVE  RunFollowed(kept, acc, V, last, script, at, l, k, c)
<1> DEFINE p == acc.next
           q == Len(acc.rows)
<1>1. /\ Rowed(acc) /\ acc.rows \in Seq(RowsOf(V)) /\ last \in Seq(V) /\ Len(last) = l
      /\ p \in 1..(l + 1) /\ q \in 0..m
      /\ \A i \in 1..n : script[i].status = "added" => (i <= k <=> script[i].index <= q)
      /\ \A o \in Left(script, l) : o < p <=> at[o] <= q
      /\ \A o \in Left(script, l) : o < p => acc.rows[at[o]] = Row(last[o])
      /\ \A i \in 1..k : script[i].status = "added" => acc.rows[script[i].index] = RowOf(script[i], last)
  BY DEF Followed, Reached, Fits
<1>2. /\ Rowed(kept)
      /\ kept.next = p + c /\ kept.gone = acc.gone /\ kept.first = acc.first
      /\ kept.rows \in Seq(RowsOf(V))
      /\ Len(kept.rows) = q + c
      /\ \A i \in 1..q : kept.rows[i] = acc.rows[i]
      /\ \A i \in 1..c : kept.rows[q + i] = Row(last[p + i - 1])
  <2>1. p \in Nat \ {0} /\ p + c <= Len(last) + 1
    BY <1>1
  <2>2. LongerBy(kept, acc, V, last, c)
    BY <1>1, <2>1, Retained
  <2> QED
    BY <2>2 DEF LongerBy
<1>3. \A i \in 1..c : p + i - 1 \in Left(script, l) /\ at[p + i - 1] = q + i
  BY DEF Run
<1> HIDE DEF p, q
<1>4. ASSUME NEW o \in Left(script, l), o < p + c PROVE kept.rows[at[o]] = Row(last[o])
  <2>1. o \in 1..l /\ at[o] \in 1..m
    BY KeptPlaces
  <2>2. CASE o < p
    <3>1. at[o] \in 1..q
      BY <1>1, <2>1, <2>2
    <3> QED
      BY <1>1, <1>2, <2>2, <3>1
  <2>3. CASE ~(o < p)
    <3> DEFINE i == o - p + 1
    <3>1. i \in 1..c /\ p + i - 1 = o
      BY <1>1, <1>4, <2>1, <2>3
    <3> HIDE DEF i
    <3>2. at[o] = q + i /\ kept.rows[q + i] = Row(last[o])
      BY <1>2, <1>3, <3>1
    <3> QED
      BY <3>2
  <2> QED
    BY <2>2, <2>3
<1>5. ASSUME NEW i \in 1..k, script[i].status = "added" PROVE kept.rows[script[i].index] = RowOf(script[i], last)
  <2>1. i \in 1..n /\ i <= k
    OBVIOUS
  <2>2. script[i].index \in 1..m
    BY <1>5, <2>1, EntryKinds
  <2>3. script[i].index \in 1..q
    BY <1>1, <1>5, <2>1, <2>2
  <2> QED
    BY <1>1, <1>2, <1>5, <2>3
<1> QED
  BY <1>2, <1>4, <1>5 DEF p, q, RunFollowed

LEMMA DeletionFollowed ==
  ASSUME NEW n \in Nat, NEW l \in Nat, NEW m \in Nat, NEW script, DOMAIN script = 1..n, NEW at,
         Keeps(at, script, l, m), NEW V, NEW last, Fits(script, V, last, l), NEW k \in 0..(n - 1),
         NEW acc, Followed(acc, V, last, script, at, l, m, k), script[k + 1].status = "deleted",
         NEW next, next = ApplyEntry(acc, last, script[k + 1])
  PROVE  Followed(next, V, last, script, at, l, m, k + 1)
<1> DEFINE p == acc.next
           q == Len(acc.rows)
           entry == script[k + 1]
           x == entry.index
           c == Before(p, x)
           kept == Retain(acc, last, c)
           gone == IF entry.moved = NotMoved THEN kept.gone \cup {last[kept.next]} ELSE kept.gone
<1>1. Reached(at, script, l, m, k, p, q) /\ p \in Nat /\ q \in Nat
  BY DEF Followed, Reached
<1>2. /\ c \in Nat /\ p + c = x /\ x \in 1..l
      /\ Run(at, script, l, p, q, c)
      /\ Reached(at, script, l, m, k + 1, x + 1, q + c)
  <2> HIDE DEF p, q, x, c
  <2> QED
    BY <1>1, DeletionReached DEF x, c
<1>3. next = [kept EXCEPT !.next = @ + 1, !.gone = gone]
  BY DEF ApplyEntry
<1> HIDE DEF kept, gone
<1>4. /\ Rowed(kept) /\ kept.rows \in Seq(RowsOf(V))
      /\ kept.next = p + c /\ Len(kept.rows) = q + c
      /\ kept.gone = acc.gone /\ kept.first = acc.first
      /\ \A o \in Left(script, l) : o < p + c => kept.rows[at[o]] = Row(last[o])
      /\ \A i \in 1..k : script[i].status = "added" => kept.rows[script[i].index] = RowOf(script[i], last)
  <2>1. k \in 0..n /\ p + c <= l + 1 /\ kept = Retain(acc, last, c)
    BY <1>2 DEF kept
  <2> HIDE DEF c
  <2>2. RunFollowed(kept, acc, V, last, script, at, l, k, c)
    BY <1>2, <2>1, RunIsRetained
  <2> QED
    BY <2>2 DEF RunFollowed
<1> HIDE DEF p, q, x, c
<1>5. next = [rows |-> kept.rows, next |-> x + 1, gone |-> gone, first |-> acc.first]
  <2>1. kept = [rows |-> kept.rows, next |-> x, gone |-> kept.gone, first |-> acc.first]
    BY <1>2, <1>4 DEF Rowed
  <2> QED
    BY <1>2, <1>3, <1>4, <2>1
<1>6. next.rows = kept.rows /\ next.next = x + 1 /\ next.gone = gone /\ next.first = acc.first
  BY <1>5
<1>7. Rowed(next)
  BY <1>5, <1>6 DEF Rowed
<1>8. ASSUME NEW o \in Left(script, l), o < next.next PROVE next.rows[at[o]] = Row(last[o])
  <2>1. o \in 1..l /\ o # x
    <3>1. x \notin Left(script, l)
      <4>1. k + 1 \in DOMAIN script
        OBVIOUS
      <4> QED
        BY <4>1, EntryKinds DEF x
    <3> QED
      BY <3>1, KeptPlaces
  <2>2. o < p + c
    BY <1>2, <1>6, <1>8, <2>1
  <2> QED
    BY <1>4, <1>6, <2>2
<1>9. ASSUME NEW i \in 1..(k + 1), script[i].status = "added"
      PROVE  next.rows[script[i].index] = RowOf(script[i], last)
  <2>1. i \in 1..k
    BY <1>9
  <2> QED
    BY <1>4, <1>6, <1>9, <2>1
<1>10. next.gone = Gone(script, last, k + 1)
  <2>1. kept.gone = Gone(script, last, k)
    BY <1>4 DEF Followed
  <2>2. CASE entry.moved = NotMoved
    <3>1. gone = Gone(script, last, k) \cup {last[x]}
      BY <1>2, <1>4, <2>1, <2>2 DEF gone
    <3>2. {j \in 1..(k + 1) : script[j].status = "deleted" /\ script[j].moved = NotMoved}
            = {j \in 1..k : script[j].status = "deleted" /\ script[j].moved = NotMoved} \cup {k + 1}
      BY <2>2
    <3>3. Gone(script, last, k + 1) = Gone(script, last, k) \cup {last[x]}
      BY <3>2 DEF Gone, x
    <3> QED
      BY <1>6, <3>1, <3>3
  <2>3. CASE entry.moved # NotMoved
    <3>1. gone = Gone(script, last, k)
      BY <2>1, <2>3 DEF gone
    <3>2. {j \in 1..(k + 1) : script[j].status = "deleted" /\ script[j].moved = NotMoved}
            = {j \in 1..k : script[j].status = "deleted" /\ script[j].moved = NotMoved}
      BY <2>3
    <3>3. Gone(script, last, k + 1) = Gone(script, last, k)
      BY <3>2 DEF Gone
    <3> QED
      BY <1>6, <3>1, <3>3
  <2> QED
    BY <2>2, <2>3
<1>11. /\ next.first \in Seq(Nat)
       /\ \A f \in 1..Len(next.first) :
            \E i \in 1..(k + 1) : /\ script[i].status = "added" /\ script[i].moved # NotMoved
                                  /\ script[i].index = next.first[f]
  <2>1. /\ acc.first \in Seq(Nat)
        /\ \A f \in 1..Len(acc.first) :
             \E i \in 1..k : /\ script[i].status = "added" /\ script[i].moved # NotMoved
                             /\ script[i].index = acc.first[f]
    BY DEF Followed
  <2>2. \A i \in 1..k : i \in 1..(k + 1)
    OBVIOUS
  <2> QED
    BY <1>6, <2>1, <2>2
<1>12. Reached(at, script, l, m, k + 1, next.next, Len(next.rows))
  BY <1>2, <1>4, <1>6
<1> QED
  BY <1>4, <1>6, <1>7, <1>8, <1>9, <1>10, <1>11, <1>12 DEF Followed

LEMMA AdditionFollowed ==
  ASSUME NEW n \in Nat, NEW l \in Nat, NEW m \in Nat, NEW script, DOMAIN script = 1..n, NEW at,
         Keeps(at, script, l, m), NEW V, NEW last, Fits(script, V, last, l), NEW k \in 0..(n - 1),
         NEW acc, Followed(acc, V, last, script, at, l, m, k), script[k + 1].status = "added",
         NEW next, next = ApplyEntry(acc, last, script[k + 1])
  PROVE  Followed(next, V, last, script, at, l, m, k + 1)
<1> DEFINE p == acc.next
           q == Len(acc.rows)
           entry == script[k + 1]
           y == entry.index
           c == Before(q + 1, y)
           kept == Retain(acc, last, c)
           row == RowOf(entry, last)
           first == IF entry.moved = NotMoved THEN kept.first ELSE Append(kept.first, Len(kept.rows) + 1)
<1>1. Reached(at, script, l, m, k, p, q) /\ p \in Nat /\ q \in Nat
  BY DEF Followed, Reached
<1>2. /\ c \in Nat /\ q + c + 1 = y /\ y \in 1..m /\ p + c <= l + 1
      /\ Run(at, script, l, p, q, c)
      /\ Reached(at, script, l, m, k + 1, p + c, q + c + 1)
  <2>1. y = script[k + 1].index /\ c = Before(q + 1, y)
    OBVIOUS
  <2> HIDE DEF p, q, y, c
  <2> QED
    BY <1>1, <2>1, AdditionReached, SMTT(40)
<1>0. entry.status # "deleted"
  OBVIOUS
<1>3. /\ entry.moved = NotMoved => next = [kept EXCEPT !.rows = Append(@, NewRow(entry.value))]
      /\ entry.moved # NotMoved => next = [kept EXCEPT !.rows = Append(@, Row(last[entry.moved])),
                                                      !.first = Append(@, Len(kept.rows) + 1)]
  BY <1>0 DEF ApplyEntry
<1> HIDE DEF kept
<1>4. /\ Rowed(kept) /\ kept.rows \in Seq(RowsOf(V))
      /\ kept.next = p + c /\ Len(kept.rows) = q + c
      /\ kept.gone = acc.gone /\ kept.first = acc.first
      /\ \A o \in Left(script, l) : o < p + c => kept.rows[at[o]] = Row(last[o])
      /\ \A i \in 1..k : script[i].status = "added" => kept.rows[script[i].index] = RowOf(script[i], last)
  <2>1. k \in 0..n /\ kept = Retain(acc, last, c)
    BY DEF kept
  <2> HIDE DEF c
  <2>2. RunFollowed(kept, acc, V, last, script, at, l, k, c)
    BY <1>2, <2>1, RunIsRetained
  <2> QED
    BY <2>2 DEF RunFollowed
<1> HIDE DEF p, q, y, c
<1>5. next = [rows |-> Append(kept.rows, row), next |-> p + c, gone |-> acc.gone, first |-> first]
  <2>1. kept = [rows |-> kept.rows, next |-> p + c, gone |-> acc.gone, first |-> acc.first]
    BY <1>4 DEF Rowed
  <2>2. CASE entry.moved = NotMoved
    <3>1. row = NewRow(entry.value) /\ first = acc.first
      BY <1>4, <2>2 DEF RowOf
    <3> HIDE DEF row, first, entry
    <3> QED
      BY <1>3, <1>4, <2>1, <2>2, <3>1
  <2>3. CASE entry.moved # NotMoved
    <3>1. row = Row(last[entry.moved]) /\ first = Append(acc.first, Len(kept.rows) + 1)
      BY <1>4, <2>3 DEF RowOf
    <3> HIDE DEF row, first, entry
    <3> QED
      BY <1>3, <1>4, <2>1, <2>3, <3>1
  <2> QED
    BY <2>2, <2>3
<1>6. row \in RowsOf(V)
  <2>1. /\ last \in Seq(V) /\ Len(last) = l
        /\ entry.value \in V /\ (entry.moved = NotMoved \/ entry.moved \in 1..l)
    BY DEF Fits
  <2>2. CASE entry.moved = NotMoved
    BY <2>1, <2>2 DEF RowOf, RowsOf
  <2>3. CASE entry.moved # NotMoved
    <3>1. last[entry.moved] \in V
      BY <2>1, <2>3, ElementOfSeq
    <3> QED
      BY <2>3, <3>1 DEF RowOf, RowsOf
  <2> QED
    BY <2>2, <2>3
<1>7. next.rows = Append(kept.rows, row) /\ next.next = p + c /\ next.gone = acc.gone /\ next.first = first
  BY <1>5
<1>8. Rowed(next)
  BY <1>5, <1>7 DEF Rowed
<1> HIDE DEF row
<1>9. /\ next.rows \in Seq(RowsOf(V)) /\ Len(next.rows) = q + c + 1
      /\ \A i \in 1..(q + c) : next.rows[i] = kept.rows[i]
      /\ next.rows[q + c + 1] = row
  <2> DEFINE r == kept.rows
  <2>1. r \in Seq(RowsOf(V)) /\ Len(r) = q + c /\ q + c \in Nat /\ next.rows = Append(r, row)
    <3>1. q + c \in Nat
      BY <1>1, <1>2
    <3> HIDE DEF row
    <3> QED
      BY <1>4, <1>7, <3>1
  <2> HIDE DEF r
  <2>2. /\ next.rows \in Seq(RowsOf(V)) /\ Len(next.rows) = Len(r) + 1
        /\ \A i \in 1..Len(r) : next.rows[i] = r[i]
        /\ next.rows[Len(r) + 1] = row
    BY <1>6, <2>1, AppendProperties
  <2> QED
    BY <2>1, <2>2 DEF r
<1>10. Reached(at, script, l, m, k + 1, next.next, Len(next.rows))
  BY <1>2, <1>7, <1>9
<1>11. ASSUME NEW o \in Left(script, l), o < next.next PROVE next.rows[at[o]] = Row(last[o])
  <2>1. at[o] \in 1..m /\ at[o] # y
    <3>1. y \notin Right(script, m)
      <4>1. k + 1 \in DOMAIN script
        OBVIOUS
      <4> QED
        BY <4>1, EntryKinds DEF y
    <3>2. at[o] \in Right(script, m)
      BY <1>11, KeptPlaces
    <3>3. at[o] \in 1..m
      BY <3>2 DEF Right
    <3> QED
      BY <3>1, <3>2, <3>3
  <2>2. at[o] <= q + c + 1
    BY <1>2, <1>7, <1>11 DEF Reached
  <2>3. at[o] \in 1..(q + c)
    BY <1>1, <1>2, <2>1, <2>2
  <2>4. kept.rows[at[o]] = Row(last[o])
    BY <1>4, <1>7, <1>11
  <2> QED
    BY <1>9, <2>3, <2>4
<1>12. ASSUME NEW i \in 1..(k + 1), script[i].status = "added"
       PROVE  next.rows[script[i].index] = RowOf(script[i], last)
  <2>1. CASE i = k + 1
    BY <1>2, <1>9, <2>1 DEF row, y
  <2>2. CASE i # k + 1
    <3>1. i \in 1..k /\ i \in 1..n /\ i <= k
      BY <2>2
    <3>2. script[i].index \in 1..m
      BY <1>12, <3>1, EntryKinds
    <3>3. script[i].index <= q
      BY <1>1, <1>12, <3>1 DEF Reached
    <3>4. script[i].index \in 1..(q + c)
      BY <1>1, <1>2, <3>2, <3>3
    <3> QED
      BY <1>4, <1>9, <1>12, <3>1, <3>4
  <2> QED
    BY <2>1, <2>2
<1>13. next.gone = Gone(script, last, k + 1)
  <2>1. acc.gone = Gone(script, last, k)
    BY DEF Followed
  <2>2. {j \in 1..(k + 1) : script[j].status = "deleted" /\ script[j].moved = NotMoved}
          = {j \in 1..k : script[j].status = "deleted" /\ script[j].moved = NotMoved}
    BY <1>0
  <2>3. Gone(script, last, k + 1) = Gone(script, last, k)
    BY <2>2 DEF Gone
  <2> QED
    BY <1>7, <2>1, <2>3
<1>14. /\ next.first \in Seq(Nat)
       /\ \A f \in 1..Len(next.first) :
            \E i \in 1..(k + 1) : /\ script[i].status = "added" /\ script[i].moved # NotMoved
                                  /\ script[i].index = next.first[f]
  <2>1. /\ acc.first \in Seq(Nat)
        /\ \A f \in 1..Len(acc.first) :
             \E i \in 1..k : /\ script[i].status = "added" /\ script[i].moved # NotMoved
                             /\ script[i].index = acc.first[f]
    BY DEF Followed
  <2>2. \A i \in 1..k : i \in 1..(k + 1)
    OBVIOUS
  <2>3. CASE entry.moved = NotMoved
    <3>1. next.first = acc.first
      BY <1>4, <1>7, <2>3
    <3> QED
      BY <2>1, <2>2, <3>1
  <2>4. CASE entry.moved # NotMoved
    <3> DEFINE f0 == acc.first
               d == Len(f0)
    <3>1. next.first = Append(f0, y) /\ y \in Nat
      <4>1. next.first = Append(f0, Len(kept.rows) + 1)
        BY <1>4, <1>7, <2>4
      <4>2. Len(kept.rows) + 1 = y /\ y \in Nat
        BY <1>2, <1>4
      <4> QED
        BY <4>1, <4>2
    <3>2. f0 \in Seq(Nat) /\ d \in Nat
      BY <2>1, LenProperties
    <3> HIDE DEF f0
    <3>3. /\ next.first \in Seq(Nat) /\ Len(next.first) = d + 1 /\ next.first[d + 1] = y
          /\ \A f \in 1..d : next.first[f] = f0[f]
      BY <3>1, <3>2
    <3>4. ASSUME NEW f \in 1..(d + 1)
          PROVE  \E i \in 1..(k + 1) : /\ script[i].status = "added" /\ script[i].moved # NotMoved
                                       /\ script[i].index = next.first[f]
      <4>1. CASE f = d + 1
        <5>1. k + 1 \in 1..(k + 1) /\ script[k + 1].index = next.first[f]
          BY <3>3, <4>1 DEF y
        <5> QED
          BY <2>4, <5>1
      <4>2. CASE f # d + 1
        <5>1. f \in 1..d
          BY <3>2, <4>2
        <5>2. next.first[f] = acc.first[f] /\ f \in 1..Len(acc.first)
          BY <3>3, <5>1 DEF f0
        <5> QED
          BY <2>1, <2>2, <5>2
      <4> QED
        BY <4>1, <4>2
    <3> QED
      BY <3>3, <3>4
  <2> QED
    BY <2>3, <2>4
<1> QED
  BY <1>8, <1>9, <1>10, <1>11, <1>12, <1>13, <1>14 DEF Followed

\* The rows when the script is followed to its end.
RowsTell(result, V, last, script, at, l, m, n) ==
  /\ result.rows \in Seq(RowsOf(V)) /\ Len(result.rows) = m
  /\ \A o \in Left(script, l) : result.rows[at[o]] = Row(last[o])
  /\ \A i \in 1..n : script[i].status = "added" => result.rows[script[i].index] = RowOf(script[i], last)
  /\ result.gone = Gone(script, last, n)
  /\ result.first \in Seq(Nat)
  /\ \A f \in 1..Len(result.first) :
       \E i \in 1..n : /\ script[i].status = "added" /\ script[i].moved # NotMoved
                       /\ script[i].index = result.first[f]

LEMMA NothingFollowed ==
  ASSUME NEW n \in Nat, NEW l \in Nat, NEW m \in Nat, NEW script, DOMAIN script = 1..n, NEW at,
         Keeps(at, script, l, m), NEW V, NEW last, Fits(script, V, last, l), NEW acc,
         acc = [rows |-> <<>>, next |-> 1, gone |-> {}, first |-> <<>>]
  PROVE  Followed(acc, V, last, script, at, l, m, 0)
<1>1. acc.rows = <<>> /\ acc.next = 1 /\ acc.gone = {} /\ acc.first = <<>> /\ Len(acc.rows) = 0 /\ Len(acc.first) = 0
  OBVIOUS
<1>2. Rowed(acc) /\ acc.rows \in Seq(RowsOf(V)) /\ acc.first \in Seq(Nat)
  BY <1>1 DEF Rowed
<1>3. Reached(at, script, l, m, 0, 1, 0)
  <2>1. \A i \in 1..n : /\ script[i].status = "deleted" => script[i].index \in 1..l
                        /\ script[i].status = "added" => script[i].index \in 1..m
    BY EntryKinds
  <2>2. \A i \in 1..n : script[i].status = "deleted" => (i <= 0 <=> script[i].index < 1)
    BY <2>1
  <2>3. \A i \in 1..n : script[i].status = "added" => (i <= 0 <=> script[i].index <= 0)
    BY <2>1
  <2>4. ASSUME NEW o \in Left(script, l) PROVE o < 1 <=> at[o] <= 0
    <3>1. o \in 1..l /\ at[o] \in 1..m
      BY KeptPlaces
    <3> QED
      BY <3>1
  <2>5. 1 \in 1..(l + 1) /\ 0 \in 0..m
    OBVIOUS
  <2> QED
    BY <2>2, <2>3, <2>4, <2>5 DEF Reached
<1>4. \A o \in Left(script, l) : ~(o < acc.next)
  <2>1. ASSUME NEW o \in Left(script, l) PROVE ~(o < acc.next)
    <3>1. o \in 1..l
      BY KeptPlaces
    <3> QED
      BY <1>1, <3>1
  <2> QED
    BY <2>1
<1>5. acc.gone = Gone(script, last, 0)
  BY <1>1 DEF Gone
<1>6. \A i \in 1..0 : FALSE
  OBVIOUS
<1> HIDE DEF Rowed
<1> QED
  BY <1>1, <1>2, <1>3, <1>4, <1>5, <1>6 DEF Followed

\* foreach follows a script: every item that stays or moved keeps its row, the
\* others have new ones, and all have the places that the script tells of.
LEMMA ScriptFollowed ==
  ASSUME NEW n \in Nat, NEW l \in Nat, NEW m \in Nat, NEW script, DOMAIN script = 1..n, NEW at,
         Keeps(at, script, l, m), NEW V, NEW last, Fits(script, V, last, l),
         NEW result, result = ApplyScript(last, script, m)
  PROVE  RowsTell(result, V, last, script, at, l, m, n)
<1>1. PICK acc : ApplySteps(acc, last, script, m, n)
  BY ApplyingSteps
<1>2. /\ acc[0] = [rows |-> <<>>, next |-> 1, gone |-> {}, first |-> <<>>]
      /\ \A k \in 1..n : acc[k] = ApplyEntry(acc[k - 1], last, script[k])
      /\ ApplyScript(last, script, m) = Retain(acc[n], last, Before(Len(acc[n].rows), m))
  BY <1>1 DEF ApplySteps
<1> DEFINE Good(k) == Followed(acc[k], V, last, script, at, l, m, k)
           S == {k \in Nat : k <= n => Good(k)}
<1>3. 0 \in S
  BY <1>2, NothingFollowed
<1>4. ASSUME NEW k \in Nat, k \in S PROVE k + 1 \in S
  <2> SUFFICES ASSUME k + 1 <= n PROVE Good(k + 1)
    <3> HIDE DEF Good
    <3> QED
      OBVIOUS
  <2>1. Good(k) /\ k \in 0..(n - 1) /\ k + 1 \in 1..n /\ (k + 1) - 1 = k
    <3> HIDE DEF Good
    <3> QED
      BY <1>4
  <2>2. acc[k + 1] = ApplyEntry(acc[k], last, script[k + 1])
    BY <1>2, <2>1
  <2>3. CASE script[k + 1].status = "deleted"
    BY <2>1, <2>2, <2>3, DeletionFollowed
  <2>4. CASE script[k + 1].status = "added"
    BY <2>1, <2>2, <2>4, AdditionFollowed
  <2>5. script[k + 1].status \in {"deleted", "added"}
    BY <2>1, EntryKinds
  <2> QED
    BY <2>3, <2>4, <2>5
<1>5. Good(n)
  <2>1. n \in S
    <3> HIDE DEF S
    <3> QED
      BY <1>3, <1>4, SetInduction
  <2> QED
    BY <2>1
<1> DEFINE done == acc[n]
           p == done.next
           q == Len(done.rows)
           c == Before(q, m)
<1>6. Followed(done, V, last, script, at, l, m, n)
  BY <1>5
<1>7. result = Retain(done, last, c)
  BY <1>2
<1> HIDE DEF done
<1>8. Reached(at, script, l, m, n, p, q) /\ p \in Nat /\ q \in Nat
  BY <1>6 DEF Followed, Reached
<1>9. c \in Nat /\ q + c = m /\ p + c = l + 1 /\ Run(at, script, l, p, q, c)
  <2> HIDE DEF p, q, c
  <2> QED
    BY <1>8, EndReached DEF c
<1>10. RunFollowed(result, done, V, last, script, at, l, n, c)
  <2>1. n \in 0..n /\ done.next + c <= l + 1
    BY <1>9
  <2> HIDE DEF c
  <2> QED
    BY <1>6, <1>7, <1>9, <2>1, RunIsRetained
<1>11. /\ result.rows \in Seq(RowsOf(V))
       /\ Len(result.rows) = q + c
       /\ result.gone = done.gone /\ result.first = done.first
       /\ \A o \in Left(script, l) : o < p + c => result.rows[at[o]] = Row(last[o])
       /\ \A i \in 1..n : script[i].status = "added" => result.rows[script[i].index] = RowOf(script[i], last)
  BY <1>10 DEF RunFollowed
<1> HIDE DEF p, q, c
<1>12. \A o \in Left(script, l) : o < p + c
  <2>1. ASSUME NEW o \in Left(script, l) PROVE o < p + c
    <3>1. o \in 1..l
      BY KeptPlaces
    <3> QED
      BY <1>9, <3>1
  <2> QED
    BY <2>1
<1>13. /\ done.gone = Gone(script, last, n)
       /\ done.first \in Seq(Nat)
       /\ \A f \in 1..Len(done.first) :
            \E i \in 1..n : /\ script[i].status = "added" /\ script[i].moved # NotMoved
                            /\ script[i].index = done.first[f]
  BY <1>6 DEF Followed
<1> QED
  BY <1>9, <1>11, <1>12, <1>13 DEF RowsTell

\* What a script that tells of two contents keeps.
KeepsItems(at, script, l, m, old, new) ==
  Keeps(at, script, l, m) /\ \A o \in Left(script, l) : new[at[o]] = old[o]

LEMMA TellsKeeps ==
  ASSUME NEW n \in Nat, NEW l \in Nat, NEW m \in Nat, NEW script, DOMAIN script = 1..n,
         NEW old, NEW new, DOMAIN old = 1..l, DOMAIN new = 1..m, Tells(script, old, new)
  PROVE  \E at : KeepsItems(at, script, l, m, old, new)
<1>1. Left(script, l) = DOMAIN old \ Named(script, "deleted")
      /\ Right(script, m) = DOMAIN new \ Named(script, "added")
  BY DEF Left, Right
<1>2. PICK at \in [Left(script, l) -> Right(script, m)] :
         /\ \A y \in Right(script, m) : \E o \in Left(script, l) : at[o] = y
         /\ \A o \in Left(script, l) : new[at[o]] = old[o]
         /\ \A o, p \in Left(script, l) : o < p => at[o] < at[p]
         /\ \A o \in Left(script, l), i, j \in DOMAIN script :
              i < j /\ Later(script[i], o, at[o]) => Later(script[j], o, at[o])
  BY <1>1 DEF Tells
<1>3. /\ \A i \in DOMAIN script : \/ script[i].status = "deleted" /\ script[i].index \in 1..l
                                  \/ script[i].status = "added" /\ script[i].index \in 1..m
      /\ \A i, j \in DOMAIN script :
           i < j /\ script[i].status = script[j].status => script[i].index < script[j].index
  BY DEF Tells
<1>4. Keeps(at, script, l, m)
  BY <1>2, <1>3 DEF Keeps
<1> QED
  BY <1>2, <1>4 DEF KeepsItems

-----------------------------------------------------------------------------
(* The nodes of the rows in the document.                                  *)

\* No node is in the document twice.
Once(dom) == \A i, j \in 1..Len(dom) : dom[i] = dom[j] => i = j

In(x, dom) == \E i \in 1..Len(dom) : dom[i] = x

\* Nodes of N, each of them once.
Nodes(dom, N) == dom \in Seq(N) /\ Once(dom)

LEMMA NodesDomain ==
  ASSUME NEW N, NEW dom, Nodes(dom, N)
  PROVE  Len(dom) \in Nat /\ DOMAIN dom = 1..Len(dom) /\ \A i \in 1..Len(dom) : dom[i] \in N
BY LenProperties, ElementOfSeq DEF Nodes

\* The nodes that are left are those that are not taken out.
LEMMA OthersAreLeft ==
  ASSUME NEW N, NEW dom, Nodes(dom, N), NEW out, NEW rest, rest = Without(dom, out)
  PROVE  Nodes(rest, N) /\ \A x : In(x, rest) <=> In(x, dom) /\ x \notin out
<1> DEFINE n == Len(dom)
<1>1. n \in Nat /\ DOMAIN dom = 1..n /\ dom \in Seq(N) /\ (\A i \in 1..n : dom[i] \in N) /\ Once(dom)
  BY NodesDomain DEF Nodes
<1> HIDE DEF n
<1>2. PICK acc : LeaveSteps(acc, dom, out, n)
  BY <1>1, LeavingSteps
<1>3. /\ acc[0] = <<>>
      /\ \A k \in 1..n : acc[k] = IF dom[k] \in out THEN acc[k - 1] ELSE Append(acc[k - 1], dom[k])
      /\ rest = acc[n]
  BY <1>2 DEF LeaveSteps
<1> DEFINE Good(k) == /\ acc[k] \in Seq(N) /\ Once(acc[k])
                      /\ \A x : In(x, acc[k]) <=> \E i \in 1..k : dom[i] = x /\ x \notin out
           S == {k \in Nat : k <= n => Good(k)}
<1>4. 0 \in S
  <2>1. Len(acc[0]) = 0 /\ acc[0] \in Seq(N) /\ 1..0 = {}
    BY <1>3
  <2> QED
    BY <2>1 DEF Once, In
<1>5. ASSUME NEW k \in Nat, k \in S PROVE k + 1 \in S
  <2> SUFFICES ASSUME k + 1 <= n PROVE Good(k + 1)
    <3> HIDE DEF Good
    <3> QED
      OBVIOUS
  <2>0. n \in Nat
    BY <1>1
  <2>1. Good(k) /\ k + 1 \in 1..n /\ (k + 1) - 1 = k
    <3>1. Good(k)
      <4> HIDE DEF Good
      <4> QED
        BY <1>5, <2>0
    <3>2. k + 1 \in 1..n /\ (k + 1) - 1 = k
      BY <2>0
    <3> HIDE DEF Good
    <3> QED
      BY <3>1, <3>2
  <2>2. acc[k + 1] = IF dom[k + 1] \in out THEN acc[k] ELSE Append(acc[k], dom[k + 1])
    BY <1>3, <2>1
  <2>3. CASE dom[k + 1] \in out
    <3>1. acc[k + 1] = acc[k]
      BY <2>2, <2>3
    <3>2. ASSUME NEW x
          PROVE  (\E i \in 1..(k + 1) : dom[i] = x /\ x \notin out) <=> \E i \in 1..k : dom[i] = x /\ x \notin out
      <4>1. \A i \in 1..(k + 1) : i \in 1..k \/ i = k + 1
        OBVIOUS
      <4>2. \A i \in 1..k : i \in 1..(k + 1)
        OBVIOUS
      <4> QED
        BY <2>3, <4>1, <4>2
    <3> QED
      BY <2>1, <3>1, <3>2
  <2>4. CASE dom[k + 1] \notin out
    <3> DEFINE left == acc[k]
               v == dom[k + 1]
               l == Len(left)
               next == acc[k + 1]
    <3>1. left \in Seq(N) /\ Once(left) /\ v \in N /\ next = Append(left, v)
      BY <1>1, <2>1, <2>2, <2>4
    <3>2. \A x : In(x, left) <=> \E i \in 1..k : dom[i] = x /\ x \notin out
      BY <2>1
    <3> HIDE DEF left, next, v
    <3>3. /\ l \in Nat /\ next \in Seq(N) /\ Len(next) = l + 1 /\ next[l + 1] = v
          /\ \A i \in 1..l : next[i] = left[i]
      BY <3>1, AppendProperties, LenProperties
    <3>4. ~In(v, left)
      <4>1. ASSUME NEW i \in 1..k, dom[i] = v PROVE FALSE
        <5>1. i \in 1..n /\ i # k + 1
          BY <2>0, <2>1
        <5> QED
          BY <1>1, <2>1, <4>1, <5>1 DEF v, Once, n
      <4> QED
        BY <3>2, <4>1
    <3>5. Once(next)
      <4>1. ASSUME NEW i \in 1..(l + 1), NEW j \in 1..(l + 1), next[i] = next[j] PROVE i = j
        <5>1. CASE i \in 1..l /\ j \in 1..l
          BY <3>1, <3>3, <4>1, <5>1 DEF Once
        <5>2. CASE i = l + 1 /\ j \in 1..l
          BY <3>3, <3>4, <4>1, <5>2 DEF In
        <5>3. CASE i \in 1..l /\ j = l + 1
          BY <3>3, <3>4, <4>1, <5>3 DEF In
        <5> QED
          BY <3>3, <5>1, <5>2, <5>3
      <4> QED
        BY <3>3, <4>1 DEF Once
    <3>6. ASSUME NEW x PROVE In(x, next) <=> In(x, left) \/ x = v
      <4>1. \A i \in 1..(l + 1) : i \in 1..l \/ i = l + 1
        BY <3>3
      <4>2. \A i \in 1..l : i \in 1..(l + 1)
        BY <3>3
      <4>3. l + 1 \in 1..(l + 1)
        BY <3>3
      <4> QED
        BY <3>3, <4>1, <4>2, <4>3 DEF In
    <3>7. ASSUME NEW x
          PROVE  (\E i \in 1..(k + 1) : dom[i] = x /\ x \notin out)
                   <=> (\E i \in 1..k : dom[i] = x /\ x \notin out) \/ x = v
      <4>1. \A i \in 1..(k + 1) : i \in 1..k \/ i = k + 1
        OBVIOUS
      <4>2. k + 1 \in 1..(k + 1) /\ \A i \in 1..k : i \in 1..(k + 1)
        OBVIOUS
      <4> QED
        BY <2>4, <4>1, <4>2 DEF v
    <3>8. \A x : In(x, next) <=> \E i \in 1..(k + 1) : dom[i] = x /\ x \notin out
      BY <3>2, <3>6, <3>7
    <3> QED
      BY <3>3, <3>5, <3>8 DEF next
  <2> QED
    BY <2>3, <2>4
<1>6. Good(n)
  <2>1. n \in S
    <3> HIDE DEF S
    <3> QED
      BY <1>1, <1>4, <1>5, SetInduction
  <2> QED
    BY <1>1, <2>1
<1>7. \A x : In(x, rest) <=> In(x, dom) /\ x \notin out
  BY <1>3, <1>6 DEF In, n
<1> QED
  BY <1>3, <1>6, <1>7 DEF Nodes

\* Where a node is, behind the last if it is nowhere, and what is left without it.
SoleAt(dom, node, t) ==
  t \in 1..(Len(dom) + 1) /\ \A i \in 1..Len(dom) : dom[i] = node <=> i = t

TakenOut(rest, dom, t) ==
  /\ Len(rest) = IF t <= Len(dom) THEN Len(dom) - 1 ELSE Len(dom)
  /\ \A i \in 1..Len(rest) : rest[i] = IF i < t THEN dom[i] ELSE dom[i + 1]

\* One node taken out: those behind it come one place nearer.
LEMMA OneIsOut ==
  ASSUME NEW N, NEW dom, Nodes(dom, N), NEW node, NEW t, SoleAt(dom, node, t),
         NEW rest, rest = Without(dom, {node})
  PROVE  TakenOut(rest, dom, t)
<1> DEFINE n == Len(dom)
<1>1. n \in Nat /\ DOMAIN dom = 1..n /\ \A i \in 1..n : dom[i] \in N
  BY NodesDomain
<1>0. t \in 1..(n + 1) /\ \A i \in 1..n : dom[i] = node <=> i = t
  BY DEF SoleAt
<1>2. PICK acc : LeaveSteps(acc, dom, {node}, n)
  <2> HIDE DEF n
  <2> QED
    BY <1>1, LeavingSteps
<1> HIDE DEF n
<1>3. /\ acc[0] = <<>>
      /\ \A k \in 1..n : acc[k] = IF dom[k] \in {node} THEN acc[k - 1] ELSE Append(acc[k - 1], dom[k])
      /\ rest = acc[n]
  BY <1>2 DEF LeaveSteps
<1> DEFINE Good(k) == /\ acc[k] \in Seq(N)
                      /\ Len(acc[k]) = IF t <= k THEN k - 1 ELSE k
                      /\ \A i \in 1..Len(acc[k]) : acc[k][i] = IF i < t THEN dom[i] ELSE dom[i + 1]
           S == {k \in Nat : k <= n => Good(k)}
<1>4. 0 \in S
  <2>1. Len(acc[0]) = 0 /\ acc[0] \in Seq(N) /\ 1..0 = {} /\ ~(t <= 0)
    BY <1>0, <1>3
  <2> QED
    BY <2>1
<1>5. ASSUME NEW k \in Nat, k \in S PROVE k + 1 \in S
  <2> SUFFICES ASSUME k + 1 <= n PROVE Good(k + 1)
    <3> HIDE DEF Good
    <3> QED
      OBVIOUS
  <2>0. n \in Nat
    BY <1>1
  <2>1. Good(k) /\ k + 1 \in 1..n /\ (k + 1) - 1 = k
    <3>1. Good(k)
      <4> HIDE DEF Good
      <4> QED
        BY <1>5, <2>0
    <3>2. k + 1 \in 1..n /\ (k + 1) - 1 = k
      BY <2>0
    <3> HIDE DEF Good
    <3> QED
      BY <3>1, <3>2
  <2>2. acc[k + 1] = IF k + 1 = t THEN acc[k] ELSE Append(acc[k], dom[k + 1])
    BY <1>0, <1>3, <2>1
  <2>3. CASE k + 1 = t
    <3>1. acc[k + 1] = acc[k] /\ t <= k + 1 /\ ~(t <= k)
      BY <2>2, <2>3
    <3> QED
      BY <2>1, <3>1
  <2>4. CASE k + 1 # t
    <3> DEFINE left == acc[k]
               v == dom[k + 1]
               l == Len(left)
               next == acc[k + 1]
    <3>1. left \in Seq(N) /\ v \in N /\ next = Append(left, v)
      BY <1>1, <2>1, <2>2, <2>4
    <3>2. /\ l = IF t <= k THEN k - 1 ELSE k
          /\ \A i \in 1..l : left[i] = IF i < t THEN dom[i] ELSE dom[i + 1]
      BY <2>1
    <3> HIDE DEF left, next
    <3>3. /\ l \in Nat /\ next \in Seq(N) /\ Len(next) = l + 1 /\ next[l + 1] = v
          /\ \A i \in 1..l : next[i] = left[i]
      <4> HIDE DEF v
      <4> QED
        BY <3>1, AppendProperties, LenProperties
    <3> HIDE DEF l
    <3>4. Len(next) = IF t <= k + 1 THEN (k + 1) - 1 ELSE k + 1
      BY <1>0, <2>4, <3>2, <3>3
    <3>5. v = IF l + 1 < t THEN dom[l + 1] ELSE dom[(l + 1) + 1]
      <4>1. CASE t <= k
        BY <1>0, <3>2, <4>1
      <4>2. CASE ~(t <= k)
        BY <1>0, <2>4, <3>2, <4>2
      <4> QED
        BY <4>1, <4>2
    <3>6. ASSUME NEW i \in 1..(l + 1) PROVE next[i] = IF i < t THEN dom[i] ELSE dom[i + 1]
      <4>1. CASE i \in 1..l
        BY <3>2, <3>3, <4>1
      <4>2. CASE i = l + 1
        BY <3>3, <3>5, <4>2
      <4> QED
        BY <3>3, <4>1, <4>2
    <3> QED
      BY <3>3, <3>4, <3>6 DEF next
  <2> QED
    BY <2>3, <2>4
<1>6. Good(n)
  <2>1. n \in S
    <3> HIDE DEF S
    <3> QED
      BY <1>1, <1>4, <1>5, SetInduction
  <2> QED
    BY <1>1, <2>1
<1> QED
  BY <1>0, <1>3, <1>6 DEF n, TakenOut

\* Where a node is.
LEMMA PlaceOf ==
  ASSUME NEW N, NEW dom, Nodes(dom, N), NEW node
  PROVE  /\ Place(dom, node) \in 0..Len(dom)
         /\ \A i \in 1..Len(dom) : <<dom[i]>> = node => Place(dom, node) = i
         /\ (\A i \in 1..Len(dom) : <<dom[i]>> # node) => Place(dom, node) = 0
<1> DEFINE T == {0} \cup {i \in DOMAIN dom : <<dom[i]>> = node}
<1>1. Len(dom) \in Nat /\ DOMAIN dom = 1..Len(dom) /\ Once(dom)
  BY NodesDomain DEF Nodes
<1>2. Place(dom, node) = CHOOSE x \in T : \A y \in T : x >= y
  BY DEF Place, Max
<1>3. ASSUME NEW i \in 1..Len(dom), <<dom[i]>> = node PROVE Place(dom, node) = i
  <2>1. \A j \in 1..Len(dom) : <<dom[j]>> = node => j = i
    <3>1. ASSUME NEW j \in 1..Len(dom), <<dom[j]>> = node PROVE j = i
      <4>1. <<dom[j]>>[1] = <<dom[i]>>[1]
        BY <1>3, <3>1
      <4>2. dom[j] = dom[i]
        BY <4>1
      <4> QED
        BY <1>1, <4>2 DEF Once
    <3> QED
      BY <3>1
  <2>2. T = {0, i}
    BY <1>1, <1>3, <2>1
  <2>3. \A x \in {0, i} : (\A y \in {0, i} : x >= y) => x = i
    OBVIOUS
  <2>4. i \in {0, i} /\ \A y \in {0, i} : i >= y
    OBVIOUS
  <2> HIDE DEF T
  <2> QED
    BY <1>2, <2>2, <2>3, <2>4
<1>4. ASSUME \A i \in 1..Len(dom) : <<dom[i]>> # node PROVE Place(dom, node) = 0
  <2>1. T = {0}
    BY <1>1, <1>4
  <2> HIDE DEF T
  <2>2. \A x \in {0} : x = 0 /\ 0 >= x
    OBVIOUS
  <2> QED
    BY <1>2, <2>1, <2>2
<1>5. Place(dom, node) \in 0..Len(dom)
  <2>1. CASE \A i \in 1..Len(dom) : <<dom[i]>> # node
    BY <1>1, <1>4, <2>1
  <2>2. CASE \E i \in 1..Len(dom) : <<dom[i]>> = node
    <3>1. PICK i \in 1..Len(dom) : <<dom[i]>> = node
      BY <2>2
    <3>2. Place(dom, node) = i
      BY <1>3, <3>1
    <3> QED
      BY <1>1, <3>2
  <2> QED
    BY <2>1, <2>2
<1> QED
  BY <1>3, <1>4, <1>5

\* A node among others, behind the first p of them.
Amid(result, rest, node, p) ==
  /\ Len(result) = Len(rest) + 1 /\ result[p + 1] = node
  /\ \A i \in 1..p : result[i] = rest[i]
  /\ \A i \in (p + 1)..Len(rest) : result[i + 1] = rest[i]

OfParts(result, part, back, rest, r, node, p) ==
  /\ part[p + 1] = node /\ \A i \in 1..p : part[i] = rest[i]
  /\ \A i \in 1..(r - p) : back[i] = rest[p + i]
  /\ Len(result) = (p + 1) + (r - p)
  /\ \A i \in 1..((p + 1) + (r - p)) : result[i] = IF i <= p + 1 THEN part[i] ELSE back[i - (p + 1)]

LEMMA AmidParts ==
  ASSUME NEW rest, NEW r \in Nat, r = Len(rest), NEW p \in 0..r, NEW node, NEW part, NEW back, NEW result,
         OfParts(result, part, back, rest, r, node, p)
  PROVE  Amid(result, rest, node, p)
<1>0. /\ part[p + 1] = node /\ \A i \in 1..p : part[i] = rest[i]
      /\ \A i \in 1..(r - p) : back[i] = rest[p + i]
      /\ Len(result) = r + 1
  BY DEF OfParts
<1>1. \A i \in 1..(r + 1) : result[i] = IF i <= p + 1 THEN part[i] ELSE back[i - (p + 1)]
  BY DEF OfParts
<1>2. Len(result) = r + 1 /\ result[p + 1] = node
  <2>1. p + 1 \in 1..(r + 1) /\ p + 1 <= p + 1
    OBVIOUS
  <2> QED
    BY <1>0, <1>1, <2>1
<1>3. ASSUME NEW i \in 1..p PROVE result[i] = rest[i]
  <2>1. i \in 1..(r + 1) /\ i <= p + 1
    OBVIOUS
  <2> QED
    BY <1>0, <1>1, <2>1
<1>4. ASSUME NEW i \in (p + 1)..r PROVE result[i + 1] = rest[i]
  <2>1. i + 1 \in 1..(r + 1) /\ ~(i + 1 <= p + 1) /\ (i + 1) - (p + 1) = i - p /\ i - p \in 1..(r - p) /\ p + (i - p) = i
    OBVIOUS
  <2>2. result[i + 1] = back[(i + 1) - (p + 1)]
    BY <1>1, <2>1
  <2>3. back[i - p] = rest[p + (i - p)]
    BY <1>0, <2>1
  <2> QED
    BY <2>1, <2>2, <2>3
<1> QED
  BY <1>2, <1>3, <1>4 DEF Amid

LEMMA PutAmid ==
  ASSUME NEW N, NEW rest \in Seq(N), NEW node \in N, NEW p \in 0..Len(rest), NEW result,
         result = SubSeq(rest, 1, p) \o <<node>> \o SubSeq(rest, p + 1, Len(rest))
  PROVE  result \in Seq(N) /\ Amid(result, rest, node, p)
<1> DEFINE r == Len(rest)
           front == SubSeq(rest, 1, p)
           back == SubSeq(rest, p + 1, r)
           part == Append(front, node)
<1>1. r \in Nat /\ p \in 0..r
  BY LenProperties
<1>2. front \in Seq(N) /\ Len(front) = p /\ \A i \in 1..p : front[i] = rest[i]
  <2>1. \A i \in 1..p : rest[i] \in N
    BY <1>1, ElementOfSeq
  <2> QED
    BY <1>1, <2>1, SubSeqProperties
<1>3. back \in Seq(N) /\ Len(back) = r - p /\ \A i \in 1..(r - p) : back[i] = rest[p + i]
  <2>1. \A i \in (p + 1)..r : rest[i] \in N
    BY <1>1, ElementOfSeq
  <2> QED
    BY <1>1, <2>1, SubSeqProperties
<1> HIDE DEF front, back
<1>4. front \o <<node>> = part
  BY <1>2
<1>5. part \in Seq(N) /\ Len(part) = p + 1 /\ part[p + 1] = node /\ \A i \in 1..p : part[i] = front[i]
  BY <1>1, <1>2, AppendProperties
<1> HIDE DEF part
<1>6. result = part \o back
  BY <1>4 DEF front, back
<1> HIDE DEF r
<1>7. /\ result \in Seq(N) /\ Len(result) = (p + 1) + (r - p)
      /\ \A i \in 1..((p + 1) + (r - p)) : result[i] = IF i <= p + 1 THEN part[i] ELSE back[i - (p + 1)]
  <2>1. /\ part \o back \in Seq(N)
        /\ Len(part \o back) = Len(part) + Len(back)
        /\ \A i \in 1..(Len(part) + Len(back)) :
             (part \o back)[i] = IF i <= Len(part) THEN part[i] ELSE back[i - Len(part)]
    BY <1>3, <1>5, ConcatProperties
  <2> QED
    BY <1>3, <1>5, <1>6, <2>1
<1>8. \A i \in 1..p : part[i] = rest[i]
  BY <1>2, <1>5
<1>9. OfParts(result, part, back, rest, r, node, p)
  BY <1>3, <1>5, <1>7, <1>8 DEF OfParts
<1>10. Amid(result, rest, node, p)
  <2>1. r = Len(rest)
    BY DEF r
  <2> QED
    BY <1>1, <1>9, <2>1, AmidParts
<1> QED
  BY <1>7, <1>10

\* The nodes and the one that came to them.
LEMMA OneMoreNode ==
  ASSUME NEW N, NEW rest, Nodes(rest, N), NEW node \in N, ~In(node, rest), NEW p \in 0..Len(rest),
         NEW result \in Seq(N), Amid(result, rest, node, p)
  PROVE  Nodes(result, N) /\ \A x : In(x, result) <=> In(x, rest) \/ x = node
<1> DEFINE r == Len(rest)
           Was(i) == IF i <= p THEN i ELSE i - 1
<1>1. r \in Nat /\ p \in 0..r
  BY NodesDomain
<1>2. /\ Len(result) = r + 1 /\ result[p + 1] = node
      /\ \A i \in 1..p : result[i] = rest[i]
      /\ \A i \in (p + 1)..r : result[i + 1] = rest[i]
  BY DEF Amid
<1>3. \A i, j \in 1..r : rest[i] = rest[j] => i = j
  BY DEF Nodes, Once
<1>4. \A i \in 1..r : rest[i] # node
  BY DEF In
<1> HIDE DEF r
<1>5. ASSUME NEW i \in 1..(r + 1), i # p + 1 PROVE Was(i) \in 1..r /\ result[i] = rest[Was(i)]
  <2>1. CASE i <= p
    BY <1>1, <1>2, <2>1
  <2>2. CASE ~(i <= p)
    <3>1. i - 1 \in (p + 1)..r /\ (i - 1) + 1 = i
      BY <1>1, <1>5, <2>2
    <3>2. result[(i - 1) + 1] = rest[i - 1]
      BY <1>2, <3>1
    <3> QED
      BY <1>1, <2>2, <3>1, <3>2
  <2> QED
    BY <2>1, <2>2
<1>6. ASSUME NEW i \in 1..(r + 1), NEW j \in 1..(r + 1), result[i] = result[j] PROVE i = j
  <2>1. CASE i # p + 1 /\ j # p + 1
    <3>1. Was(i) \in 1..r /\ Was(j) \in 1..r /\ Was(i) = Was(j)
      <4> HIDE DEF Was
      <4> QED
        BY <1>3, <1>5, <1>6, <2>1
    <3> QED
      BY <1>1, <2>1, <3>1
  <2>2. CASE i = p + 1 /\ j # p + 1
    <3> HIDE DEF Was
    <3> QED
      BY <1>2, <1>4, <1>5, <1>6, <2>2
  <2>3. CASE i # p + 1 /\ j = p + 1
    <3> HIDE DEF Was
    <3> QED
      BY <1>2, <1>4, <1>5, <1>6, <2>3
  <2> QED
    BY <2>1, <2>2, <2>3
<1>7. ASSUME NEW x, In(x, result) PROVE In(x, rest) \/ x = node
  <2>1. PICK i \in 1..(r + 1) : result[i] = x
    BY <1>2, <1>7 DEF In
  <2> HIDE DEF Was
  <2> QED
    BY <1>2, <1>5, <2>1 DEF In, r
<1>8. ASSUME NEW x, In(x, rest) PROVE In(x, result)
  <2>1. PICK i \in 1..r : rest[i] = x
    BY <1>8 DEF In, r
  <2>2. CASE i <= p
    <3>1. i \in 1..(r + 1) /\ result[i] = x
      BY <1>1, <1>2, <2>1, <2>2
    <3> QED
      BY <1>2, <3>1 DEF In
  <2>3. CASE ~(i <= p)
    <3>1. i + 1 \in 1..(r + 1) /\ result[i + 1] = x
      BY <1>1, <1>2, <2>1, <2>3
    <3> QED
      BY <1>2, <3>1 DEF In
  <2> QED
    BY <2>2, <2>3
<1>9. In(node, result)
  <2>1. p + 1 \in 1..(r + 1)
    BY <1>1
  <2> QED
    BY <1>2, <2>1 DEF In
<1>10. Once(result)
  BY <1>2, <1>6 DEF Once
<1> QED
  BY <1>7, <1>8, <1>9, <1>10 DEF Nodes

\* insertAfter: the node is in the document, once, and no other came or went.
LEMMA Inserted ==
  ASSUME NEW N, NEW dom, Nodes(dom, N), NEW node \in N, NEW before,
         NEW result, result = InsertAfter(dom, node, before)
  PROVE  Nodes(result, N) /\ \A x : In(x, result) <=> In(x, dom) \/ x = node
<1> DEFINE rest == Without(dom, {node})
           p == Place(rest, before)
<1>1. Nodes(rest, N) /\ \A x : In(x, rest) <=> In(x, dom) /\ x \notin {node}
  BY OthersAreLeft
<1>2. result = SubSeq(rest, 1, p) \o <<node>> \o SubSeq(rest, p + 1, Len(rest))
  BY DEF InsertAfter
<1> HIDE DEF rest
<1>3. p \in 0..Len(rest) /\ rest \in Seq(N) /\ ~In(node, rest)
  BY <1>1, PlaceOf DEF Nodes
<1> HIDE DEF p
<1>4. result \in Seq(N) /\ Amid(result, rest, node, p)
  BY <1>2, <1>3, PutAmid
<1>5. Nodes(result, N) /\ \A x : In(x, result) <=> In(x, rest) \/ x = node
  BY <1>1, <1>3, <1>4, OneMoreNode
<1> QED
  BY <1>1, <1>5

\* The first k of some nodes are one behind the other, from b + 1 on.
Together(dom, nodes, k, b) ==
  b \in Nat /\ b + k <= Len(dom) /\ \A i \in 1..k : dom[b + i] = nodes[i]

\* Whatever is between the last of them and the next node leaves its place to it.
LEMMA NextPut ==
  ASSUME NEW N, NEW dom, Nodes(dom, N), NEW nodes, NEW k \in Nat \ {0}, NEW b, Together(dom, nodes, k, b),
         NEW node \in N, \A i \in 1..k : nodes[i] # node, node = nodes[k + 1],
         NEW result, result = InsertAfter(dom, node, <<nodes[k]>>)
  PROVE  \E c : Together(result, nodes, k + 1, c)
<1> DEFINE n == Len(dom)
           rest == Without(dom, {node})
           p == Place(rest, <<nodes[k]>>)
<1>1. n \in Nat /\ b \in Nat /\ b + k <= n /\ (\A i \in 1..k : dom[b + i] = nodes[i]) /\ Once(dom)
  BY NodesDomain DEF Together, Nodes
<1>2. Nodes(rest, N) /\ \A x : In(x, rest) <=> In(x, dom) /\ x \notin {node}
  BY OthersAreLeft
<1>3. PICK t \in 1..(n + 1) : \A i \in 1..n : dom[i] = node <=> i = t
  <2>1. CASE In(node, dom)
    <3>1. PICK i \in 1..n : dom[i] = node
      BY <2>1 DEF In
    <3>2. i \in 1..(n + 1) /\ \A j \in 1..n : dom[j] = node <=> j = i
      BY <1>1, <3>1 DEF Once
    <3> QED
      BY <3>2
  <2>2. CASE ~In(node, dom)
    <3>1. n + 1 \in 1..(n + 1) /\ \A j \in 1..n : dom[j] # node /\ j # n + 1
      BY <1>1, <2>2 DEF In
    <3> QED
      BY <3>1
  <2> QED
    BY <2>1, <2>2
<1>4. /\ Len(rest) = IF t <= n THEN n - 1 ELSE n
      /\ \A i \in 1..Len(rest) : rest[i] = IF i < t THEN dom[i] ELSE dom[i + 1]
  <2>1. rest = Without(dom, {node})
    OBVIOUS
  <2>2. SoleAt(dom, node, t)
    BY <1>3 DEF SoleAt
  <2>3. TakenOut(rest, dom, t)
    <3> HIDE DEF rest, n
    <3> QED
      BY <2>1, <2>2, OneIsOut
  <2> QED
    BY <2>3 DEF TakenOut
<1>5. result = SubSeq(rest, 1, p) \o <<node>> \o SubSeq(rest, p + 1, Len(rest))
  BY DEF InsertAfter
<1>6. p \in 0..Len(rest) /\ \A i \in 1..Len(rest) : <<rest[i]>> = <<nodes[k]>> => p = i
  <2> HIDE DEF rest
  <2> QED
    BY <1>2, PlaceOf
<1> DEFINE r == Len(rest)
           c == IF t <= b THEN b - 1 ELSE b
<1> HIDE DEF n, rest, p
<1>7. t \notin (b + 1)..(b + k)
  <2>1. ASSUME t \in (b + 1)..(b + k) PROVE FALSE
    <3>1. t - b \in 1..k /\ b + (t - b) = t /\ t \in 1..n
      BY <1>1, <2>1
    <3>2. dom[b + (t - b)] = nodes[t - b] /\ dom[t] = node
      BY <1>1, <1>3, <3>1
    <3> QED
      BY <3>1, <3>2
  <2> QED
    BY <2>1
<1>8. r \in Nat /\ c \in Nat /\ c + k <= r
  BY <1>1, <1>4, <1>7
<1>9. ASSUME NEW i \in 1..k PROVE rest[c + i] = nodes[i]
  <2>1. dom[b + i] = nodes[i]
    BY <1>1
  <2>2. c + i \in 1..r
    BY <1>8
  <2>3. rest[c + i] = IF c + i < t THEN dom[c + i] ELSE dom[c + i + 1]
    BY <1>4, <2>2
  <2>4. CASE t <= b
    <3>1. ~(c + i < t) /\ c + i + 1 = b + i
      BY <1>1, <2>4
    <3> QED
      BY <2>1, <2>3, <3>1
  <2>5. CASE ~(t <= b)
    <3>1. c = b
      BY <2>5
    <3>2. c + i < t
      BY <1>1, <1>7, <2>5, <3>1
    <3> HIDE DEF c
    <3> QED
      BY <2>1, <2>3, <3>1, <3>2
  <2> QED
    BY <2>4, <2>5
<1> HIDE DEF c, r
<1>10. p = c + k
  <2>1. k \in 1..k /\ c + k \in 1..r
    BY <1>8
  <2>2. <<rest[c + k]>> = <<nodes[k]>>
    BY <1>9, <2>1
  <2> QED
    BY <1>6, <2>1, <2>2 DEF r
<1>11. result \in Seq(N) /\ Amid(result, rest, node, p)
  BY <1>2, <1>5, <1>6, PutAmid DEF Nodes
<1>12. /\ Len(result) = r + 1 /\ result[p + 1] = node
       /\ \A i \in 1..p : result[i] = rest[i]
  BY <1>11 DEF Amid, r
<1>13. ASSUME NEW i \in 1..(k + 1) PROVE result[c + i] = nodes[i]
  <2>1. CASE i \in 1..k
    <3>1. c + i \in 1..p
      BY <1>8, <1>10, <2>1
    <3> QED
      BY <1>9, <1>12, <2>1, <3>1
  <2>2. CASE i = k + 1
    <3>1. c + i = p + 1
      BY <1>8, <1>10, <2>2
    <3> QED
      BY <1>12, <2>2, <3>1
  <2> QED
    BY <2>1, <2>2
<1>14. c + (k + 1) <= Len(result)
  BY <1>8, <1>12
<1> QED
  BY <1>8, <1>13, <1>14 DEF Together

\* The node that follows is the next one of the run.
LEMMA FollowedBy ==
  ASSUME NEW dom, NEW node, NEW before, NextSibling(dom, before) = <<node>>
  PROVE  Place(dom, before) < Len(dom) /\ dom[Place(dom, before) + 1] = node
<1> DEFINE p == Place(dom, before)
<1>1. NextSibling(dom, before) = IF p < Len(dom) THEN <<dom[p + 1]>> ELSE <<>>
  BY DEF NextSibling
<1> HIDE DEF p
<1>2. p < Len(dom)
  <2>1. <<>> # <<node>>
    OBVIOUS
  <2> QED
    BY <1>1, <2>1
<1>3. <<dom[p + 1]>> = <<node>>
  BY <1>1, <1>2
<1>4. <<dom[p + 1]>>[1] = <<node>>[1]
  BY <1>3
<1>5. dom[p + 1] = node
  BY <1>4
<1> QED
  BY <1>2, <1>5 DEF p

\* The first k rows are in their order, one behind the other.
Arranged(acc, N, nodes, k) ==
  /\ Nodes(acc.dom, N) /\ \A x : In(x, acc.dom) => In(x, nodes)
  /\ \E b : Together(acc.dom, nodes, k, b)
  /\ k # 0 => acc.last = <<nodes[k]>>
  /\ acc.next = NextSibling(acc.dom, IF k = 0 THEN <<>> ELSE <<nodes[k]>>)

LEMMA NextInPlace ==
  ASSUME NEW N, NEW nodes, Nodes(nodes, N), NEW k \in Nat, k + 1 <= Len(nodes), NEW acc,
         Arranged(acc, N, nodes, k), acc.next = <<nodes[k + 1]>>
  PROVE  \E b : Together(acc.dom, nodes, k + 1, b)
<1> DEFINE dom == acc.dom
           v == nodes[k + 1]
           before == IF k = 0 THEN <<>> ELSE <<nodes[k]>>
           p == Place(dom, before)
           n == Len(dom)
<1>1. Nodes(dom, N) /\ acc.next = NextSibling(dom, before)
  BY DEF Arranged
<1>2. PICK b : Together(dom, nodes, k, b)
  BY DEF Arranged
<1> HIDE DEF dom
<1>3. n \in Nat /\ b \in Nat /\ b + k <= n /\ \A i \in 1..k : dom[b + i] = nodes[i]
  BY <1>1, <1>2, NodesDomain DEF Together
<1>4. p < n /\ dom[p + 1] = v
  <2> HIDE DEF before
  <2> QED
    BY <1>1, FollowedBy
<1>5. CASE k = 0
  <2>1. \A i \in 1..n : <<dom[i]>> # before
    <3>1. before = <<>> /\ \A x : <<x>> # <<>>
      BY <1>5
    <3> HIDE DEF before
    <3> QED
      BY <3>1
  <2>2. p = 0
    <3> HIDE DEF before
    <3> QED
      BY <1>1, <2>1, PlaceOf
  <2> HIDE DEF p, n
  <2>3. \A i \in 1..(k + 1) : dom[0 + i] = nodes[i]
    BY <1>4, <1>5, <2>2
  <2>4. 0 \in Nat /\ 0 + (k + 1) <= n
    BY <1>3, <1>4, <1>5, <2>2
  <2> QED
    BY <2>3, <2>4 DEF Together, dom, n
<1>6. CASE k # 0
  <2>1. p = b + k
    <3>1. before = <<nodes[k]>> /\ dom[b + k] = nodes[k] /\ b + k \in 1..n
      BY <1>3, <1>6
    <3>2. <<dom[b + k]>> = before
      BY <3>1
    <3> HIDE DEF before
    <3> QED
      BY <1>1, <3>1, <3>2, PlaceOf
  <2> HIDE DEF p, n
  <2>2. \A i \in 1..(k + 1) : dom[b + i] = nodes[i]
    <3>1. \A i \in 1..(k + 1) : i \in 1..k \/ i = k + 1
      OBVIOUS
    <3>2. p + 1 = b + (k + 1)
      BY <1>3, <2>1
    <3> QED
      BY <1>3, <1>4, <3>1, <3>2
  <2>3. b + (k + 1) <= n
    BY <1>3, <1>4, <2>1
  <2> QED
    BY <1>3, <2>2, <2>3 DEF Together, dom, n
<1> QED
  BY <1>5, <1>6

LEMMA NextMoved ==
  ASSUME NEW N, NEW nodes, Nodes(nodes, N), NEW k \in Nat, k + 1 <= Len(nodes), NEW acc,
         Arranged(acc, N, nodes, k), NEW dom, dom = InsertAfter(acc.dom, nodes[k + 1], acc.last)
  PROVE  \E b : Together(dom, nodes, k + 1, b)
<1> DEFINE v == nodes[k + 1]
           n == Len(nodes)
<1>1. n \in Nat /\ (\A i \in 1..n : nodes[i] \in N) /\ \A i, j \in 1..n : nodes[i] = nodes[j] => i = j
  BY NodesDomain DEF Nodes, Once
<1>2. Nodes(acc.dom, N)
  BY DEF Arranged
<1>3. k + 1 \in 1..n /\ v \in N
  BY <1>1
<1>4. CASE k = 0
  <2>1. Nodes(dom, N) /\ In(v, dom)
    <3> HIDE DEF v
    <3>1. dom = InsertAfter(acc.dom, v, acc.last)
      BY DEF v
    <3> QED
      BY <1>2, <1>3, <3>1, Inserted
  <2>2. PICK i \in 1..Len(dom) : dom[i] = v
    BY <2>1 DEF In
  <2>3. Len(dom) \in Nat
    BY <2>1, NodesDomain
  <2> DEFINE b == i - 1
  <2>4. b \in Nat /\ b + (k + 1) <= Len(dom) /\ b + 1 = i
    BY <1>4, <2>3
  <2>5. \A j \in 1..(k + 1) : dom[b + j] = nodes[j]
    <3>1. \A j \in 1..(k + 1) : j = 1 /\ k + 1 = 1
      BY <1>4
    <3> HIDE DEF b
    <3> QED
      BY <2>2, <2>4, <3>1
  <2> QED
    BY <2>4, <2>5 DEF Together
<1>5. CASE k # 0
  <2>1. PICK b : Together(acc.dom, nodes, k, b)
    BY DEF Arranged
  <2>2. \A i \in 1..k : nodes[i] # v
    <3>1. \A i \in 1..k : i \in 1..n /\ i # k + 1
      BY <1>1
    <3> QED
      BY <1>1, <1>3, <3>1
  <2>3. dom = InsertAfter(acc.dom, v, <<nodes[k]>>)
    BY <1>5 DEF Arranged
  <2>4. k \in Nat \ {0} /\ v = nodes[k + 1]
    BY <1>5
  <2> HIDE DEF v, n
  <2> QED
    BY <1>2, <1>3, <2>1, <2>2, <2>3, <2>4, NextPut
<1> QED
  BY <1>4, <1>5

LEMMA OnePut ==
  ASSUME NEW N, NEW nodes, Nodes(nodes, N), NEW k \in Nat, k + 1 <= Len(nodes), NEW acc,
         Arranged(acc, N, nodes, k), NEW next, next = PutNext(acc, nodes[k + 1])
  PROVE  Arranged(next, N, nodes, k + 1)
<1> DEFINE v == nodes[k + 1]
           put == IF acc.next = <<v>> THEN acc.dom ELSE InsertAfter(acc.dom, v, acc.last)
<1>1. next = [dom |-> put, last |-> <<v>>, next |-> NextSibling(put, <<v>>)]
  BY DEF PutNext
<1>2. v \in N /\ In(v, nodes)
  <2>1. Len(nodes) \in Nat /\ \A i \in 1..Len(nodes) : nodes[i] \in N
    BY NodesDomain
  <2>2. k + 1 \in 1..Len(nodes)
    BY <2>1
  <2> QED
    BY <2>1, <2>2 DEF In
<1>3. Nodes(acc.dom, N) /\ \A x : In(x, acc.dom) => In(x, nodes)
  BY DEF Arranged
<1>4. /\ Nodes(put, N) /\ \A x : In(x, put) => In(x, nodes)
      /\ \E b : Together(put, nodes, k + 1, b)
  <2>1. CASE acc.next = <<v>>
    <3>1. put = acc.dom
      BY <2>1
    <3>2. \E b : Together(acc.dom, nodes, k + 1, b)
      BY <2>1, NextInPlace
    <3> HIDE DEF put
    <3> QED
      BY <1>3, <3>1, <3>2
  <2>2. CASE acc.next # <<v>>
    <3>1. put = InsertAfter(acc.dom, v, acc.last)
      BY <2>2
    <3> HIDE DEF put
    <3>2. \E b : Together(put, nodes, k + 1, b)
      BY <3>1, NextMoved
    <3> HIDE DEF v
    <3>3. Nodes(put, N) /\ \A x : In(x, put) <=> In(x, acc.dom) \/ x = v
      BY <1>2, <1>3, <3>1, Inserted
    <3> QED
      BY <1>2, <1>3, <3>2, <3>3
  <2> QED
    BY <2>1, <2>2
<1> HIDE DEF put
<1>5. next.dom = put /\ next.last = <<v>> /\ next.next = NextSibling(put, <<v>>)
  BY <1>1
<1>6. k + 1 # 0
  OBVIOUS
<1> QED
  BY <1>4, <1>5, <1>6 DEF Arranged

\* A run of all nodes that there are is the document.
LEMMA NothingElse ==
  ASSUME NEW N, NEW nodes, Nodes(nodes, N), NEW dom, Nodes(dom, N), \A x : In(x, dom) => In(x, nodes),
         NEW b, Together(dom, nodes, Len(nodes), b)
  PROVE  dom = nodes
<1> DEFINE n == Len(nodes)
           d == Len(dom)
<1>1. n \in Nat /\ d \in Nat /\ nodes \in Seq(N) /\ dom \in Seq(N) /\ \A i, j \in 1..d : dom[i] = dom[j] => i = j
  BY NodesDomain DEF Nodes, Once
<1>2. b \in Nat /\ b + n <= d /\ \A i \in 1..n : dom[b + i] = nodes[i]
  BY DEF Together
<1>3. ASSUME NEW i \in 1..d PROVE i \in (b + 1)..(b + n)
  <2>1. In(dom[i], nodes)
    BY DEF In
  <2>2. PICK j \in 1..n : nodes[j] = dom[i]
    BY <2>1 DEF In
  <2>3. b + j \in 1..d /\ dom[b + j] = dom[i] /\ j \in Int
    BY <1>1, <1>2, <2>2
  <2>4. b + j = i
    <3> HIDE DEF d
    <3> QED
      BY <1>1, <2>3
  <2> HIDE DEF n, d
  <2> QED
    BY <1>1, <1>2, <2>3, <2>4
<1>4. b = 0 /\ d = n
  <2> HIDE DEF n, d
  <2>1. d \in 1..d \/ d = 0
    BY <1>1
  <2>2. 1 \in 1..d \/ d = 0
    BY <1>1
  <2>3. CASE d = 0
    BY <1>1, <1>2, <2>3
  <2>4. CASE d # 0
    <3>1. 1 \in (b + 1)..(b + n) /\ d \in (b + 1)..(b + n)
      BY <1>3, <2>1, <2>2, <2>4
    <3> QED
      BY <1>1, <1>2, <3>1
  <2> QED
    BY <2>3, <2>4
<1>5. \A i \in 1..n : dom[i] = nodes[i]
  BY <1>1, <1>2, <1>4
<1> QED
  BY <1>1, <1>4, <1>5, SeqEqual

\* However the rows lie, and whichever node the first of them is put behind,
\* they are in their order in the end.
LEMMA RowsInOrder ==
  ASSUME NEW N, NEW nodes, Nodes(nodes, N), NEW dom, Nodes(dom, N), \A x : In(x, dom) => In(x, nodes), NEW last
  PROVE  PutInOrder(dom, last, nodes) = nodes
<1> DEFINE n == Len(nodes)
<1>1. n \in Nat /\ DOMAIN nodes = 1..n
  BY NodesDomain
<1> HIDE DEF n
<1>2. PICK acc : PutSteps(acc, dom, last, nodes, n)
  BY <1>1, PuttingSteps
<1>3. /\ acc[0] = [dom |-> dom, last |-> last, next |-> NextSibling(dom, <<>>)]
      /\ \A k \in 1..n : acc[k] = PutNext(acc[k - 1], nodes[k])
      /\ PutInOrder(dom, last, nodes) = acc[n].dom
  BY <1>2 DEF PutSteps
<1> DEFINE Good(k) == Arranged(acc[k], N, nodes, k)
           S == {k \in Nat : k <= n => Good(k)}
<1>4. 0 \in S
  <2>1. acc[0].dom = dom /\ acc[0].next = NextSibling(dom, <<>>)
    BY <1>3
  <2>2. Together(dom, nodes, 0, 0)
    <3>1. Len(dom) \in Nat /\ 1..0 = {}
      BY NodesDomain
    <3> QED
      BY <3>1 DEF Together
  <2>3. Arranged(acc[0], N, nodes, 0)
    BY <2>1, <2>2 DEF Arranged
  <2> QED
    BY <2>3
<1>5. ASSUME NEW k \in Nat, k \in S PROVE k + 1 \in S
  <2> SUFFICES ASSUME k + 1 <= n PROVE Good(k + 1)
    <3> HIDE DEF Good
    <3> QED
      OBVIOUS
  <2>1. Good(k)
    <3> HIDE DEF Good
    <3> QED
      BY <1>1, <1>5
  <2>2. k + 1 \in 1..n /\ (k + 1) - 1 = k
    BY <1>1
  <2>3. acc[k + 1] = PutNext(acc[k], nodes[k + 1])
    BY <1>3, <2>2
  <2>4. k + 1 <= Len(nodes)
    BY DEF n
  <2> QED
    BY <2>1, <2>3, <2>4, OnePut
<1>6. Good(n)
  <2>1. n \in S
    <3> HIDE DEF S
    <3> QED
      BY <1>1, <1>4, <1>5, SetInduction
  <2> QED
    BY <1>1, <2>1
<1>7. /\ Nodes(acc[n].dom, N) /\ \A x : In(x, acc[n].dom) => In(x, nodes)
      /\ \E b : Together(acc[n].dom, nodes, Len(nodes), b)
  BY <1>6 DEF Arranged, n
<1>8. acc[n].dom = nodes
  BY <1>7, NothingElse
<1> QED
  BY <1>3, <1>8

\* Putting the moved rows behind what they will be behind takes no node away
\* and brings none but theirs.
LEMMA FirstMoved ==
  ASSUME NEW N, NEW dom, Nodes(dom, N), NEW result, NEW n \in Nat, DOMAIN result.first = 1..n,
         \A f \in 1..n : result.rows[result.first[f]].row \in N,
         NEW after, after = MoveFirst(dom, result)
  PROVE  /\ Nodes(after, N)
         /\ \A x : In(x, after) => In(x, dom) \/ \E f \in 1..n : x = result.rows[result.first[f]].row
<1> DEFINE row(f) == result.rows[result.first[f]].row
<1>1. PICK acc : MoveSteps(acc, dom, result, n)
  BY MovingSteps
<1>2. /\ acc[0] = dom
      /\ \A k \in 1..n : acc[k] = InsertAfter(acc[k - 1], row(k), NodeBefore(result.rows, result.first[k]))
      /\ after = acc[n]
  BY <1>1 DEF MoveSteps
<1> DEFINE Good(k) == /\ Nodes(acc[k], N)
                      /\ \A x : In(x, acc[k]) => In(x, dom) \/ \E f \in 1..n : x = row(f)
           S == {k \in Nat : k <= n => Good(k)}
<1>3. 0 \in S
  BY <1>2
<1>4. ASSUME NEW k \in Nat, k \in S PROVE k + 1 \in S
  <2> SUFFICES ASSUME k + 1 <= n PROVE Good(k + 1)
    <3> HIDE DEF Good
    <3> QED
      OBVIOUS
  <2>1. Good(k)
    <3> HIDE DEF Good
    <3> QED
      BY <1>4
  <2>2. k + 1 \in 1..n /\ (k + 1) - 1 = k
    OBVIOUS
  <2> DEFINE before == NodeBefore(result.rows, result.first[k + 1])
             node == row(k + 1)
             next == acc[k + 1]
  <2>3. next = InsertAfter(acc[k], node, before) /\ node \in N
    BY <1>2, <2>2
  <2>4. Nodes(acc[k], N)
    BY <2>1
  <2> HIDE DEF before, node, next
  <2>5. Nodes(next, N) /\ \A x : In(x, next) <=> In(x, acc[k]) \/ x = node
    BY <2>3, <2>4, Inserted
  <2>6. ASSUME NEW x, In(x, next) PROVE In(x, dom) \/ \E f \in 1..n : x = row(f)
    <3>1. CASE In(x, acc[k])
      BY <2>1, <3>1
    <3>2. CASE x = node
      BY <2>2, <3>2 DEF node
    <3> QED
      BY <2>5, <2>6, <3>1, <3>2
  <2> QED
    BY <2>5, <2>6 DEF next
<1>5. Good(n)
  <2>1. n \in S
    <3> HIDE DEF S
    <3> QED
      BY <1>3, <1>4, SetInduction
  <2> QED
    BY <2>1
<1> QED
  BY <1>2, <1>5

\* An entry that comes with a row of its own.
IsNew(entry) == entry.status = "added" /\ entry.moved = NotMoved

\* The new rows have nodes that are in no old row, and each its own.
FreshNodes(script, last, node, N, l) ==
  /\ \A o \in 1..l : last[o] \in N
  /\ \A i \in DOMAIN script :
       IsNew(script[i]) =>
         /\ node[script[i].value] \in N
         /\ \A o \in 1..l : node[script[i].value] # last[o]
         /\ \A j \in DOMAIN script :
              IsNew(script[j]) /\ node[script[j].value] = node[script[i].value] => i = j

\* Where the node at a place comes from.
FromKept(y, x, at, script, last, l) == \E o \in Left(script, l) : at[o] = y /\ x = last[o]
FromMoved(y, x, script, last, l) ==
  \E i \in DOMAIN script : /\ script[i].status = "added" /\ script[i].moved # NotMoved /\ script[i].moved \in 1..l
                           /\ script[i].index = y /\ x = last[script[i].moved]
FromNew(y, x, script, node) ==
  \E i \in DOMAIN script : IsNew(script[i]) /\ script[i].index = y /\ x = node[script[i].value]

LEMMA NodeAt ==
  ASSUME NEW n \in Nat, NEW l \in Nat, NEW m \in Nat, NEW script, DOMAIN script = 1..n, NEW at,
         Keeps(at, script, l, m), NEW V, NEW last, Fits(script, V, last, l),
         NEW result, RowsTell(result, V, last, script, at, l, m, n), NEW node, NEW y \in 1..m,
         NEW x, x = NodeOf(result.rows[y], node)
  PROVE  \/ FromKept(y, x, at, script, last, l)
         \/ FromMoved(y, x, script, last, l)
         \/ FromNew(y, x, script, node)
<1>1. CASE y \in Right(script, m)
  <2>1. PICK o \in Left(script, l) : at[o] = y
    BY <1>1 DEF Keeps
  <2>2. result.rows[y] = Row(last[o])
    BY <2>1 DEF RowsTell
  <2>3. x = last[o]
    BY <2>2 DEF NodeOf, Row
  <2> QED
    BY <2>1, <2>3 DEF FromKept
<1>2. CASE y \notin Right(script, m)
  <2>1. PICK i \in 1..n : script[i].status = "added" /\ script[i].index = y
    BY <1>2 DEF Right, Named
  <2>2. result.rows[y] = RowOf(script[i], last)
    BY <2>1 DEF RowsTell
  <2>3. CASE script[i].moved = NotMoved
    <3>1. x = node[script[i].value]
      BY <2>2, <2>3 DEF RowOf, NodeOf, NewRow
    <3> QED
      BY <2>1, <2>3, <3>1 DEF FromNew, IsNew
  <2>4. CASE script[i].moved # NotMoved
    <3>1. x = last[script[i].moved]
      BY <2>2, <2>4 DEF RowOf, NodeOf, Row
    <3>2. script[i].moved \in 1..l
      BY <2>1, <2>4 DEF Fits
    <3> QED
      BY <2>1, <2>4, <3>1, <3>2 DEF FromMoved
  <2> QED
    BY <2>3, <2>4
<1> QED
  BY <1>1, <1>2

\* Entries of one side have different positions.
LEMMA OnePosition ==
  ASSUME NEW n \in Nat, NEW l \in Nat, NEW m \in Nat, NEW script, DOMAIN script = 1..n, NEW at,
         Keeps(at, script, l, m), NEW i \in 1..n, NEW j \in 1..n,
         script[i].status = script[j].status, script[i].index = script[j].index
  PROVE  i = j
<1>1. /\ i < j => script[i].index < script[j].index
      /\ j < i => script[j].index < script[i].index
  BY DEF Keeps
<1>2. script[i].index \in Int /\ script[j].index \in Int
  BY EntryKinds
<1> QED
  BY <1>1, <1>2

\* No node is at two places.
LEMMA OnePlace ==
  ASSUME NEW n \in Nat, NEW l \in Nat, NEW m \in Nat, NEW script, DOMAIN script = 1..n, NEW at,
         Keeps(at, script, l, m), MovesPair(script), NEW last, NEW node, NEW N,
         FreshNodes(script, last, node, N, l), \A o, p \in 1..l : last[o] = last[p] => o = p,
         NEW y \in 1..m, NEW z \in 1..m, NEW x,
         \/ FromKept(y, x, at, script, last, l) \/ FromMoved(y, x, script, last, l) \/ FromNew(y, x, script, node),
         \/ FromKept(z, x, at, script, last, l) \/ FromMoved(z, x, script, last, l) \/ FromNew(z, x, script, node)
  PROVE  y = z
<1>0. \A o \in Left(script, l) : o \in 1..l /\ o \notin Named(script, "deleted")
  BY KeptPlaces
<1>1. ASSUME NEW i \in 1..n, script[i].status = "added", script[i].moved # NotMoved
      PROVE  \E j \in 1..n : /\ script[j].status = "deleted" /\ script[j].index = script[i].moved
                             /\ script[j].moved = script[i].index
  <2>1. PICK j \in 1..n : /\ script[j].status # script[i].status
                          /\ script[j].index = script[i].moved /\ script[j].moved = script[i].index
    BY <1>1 DEF MovesPair
  <2>2. script[j].status \in {"deleted", "added"}
    BY EntryKinds
  <2> QED
    BY <1>1, <2>1, <2>2
<1>2. ASSUME NEW u, NEW v, FromKept(u, x, at, script, last, l), FromKept(v, x, at, script, last, l)
      PROVE  u = v
  <2>1. PICK o \in Left(script, l) : at[o] = u /\ x = last[o]
    BY <1>2 DEF FromKept
  <2>2. PICK p \in Left(script, l) : at[p] = v /\ x = last[p]
    BY <1>2 DEF FromKept
  <2>3. o = p
    BY <1>0, <2>1, <2>2
  <2> QED
    BY <2>1, <2>2, <2>3
<1>3. ASSUME NEW u, NEW v, FromKept(u, x, at, script, last, l), FromMoved(v, x, script, last, l)
      PROVE  FALSE
  <2>1. PICK o \in Left(script, l) : at[o] = u /\ x = last[o]
    BY <1>3 DEF FromKept
  <2>2. PICK i \in 1..n : /\ script[i].status = "added" /\ script[i].moved # NotMoved /\ script[i].moved \in 1..l
                          /\ script[i].index = v /\ x = last[script[i].moved]
    BY <1>3 DEF FromMoved
  <2>3. o = script[i].moved
    BY <1>0, <2>1, <2>2
  <2>4. o \in Named(script, "deleted")
    <3>1. PICK j \in 1..n : script[j].status = "deleted" /\ script[j].index = script[i].moved
      BY <1>1, <2>2
    <3> QED
      BY <2>3, <3>1 DEF Named
  <2> QED
    BY <1>0, <2>4
<1>4. ASSUME NEW u, NEW v, FromMoved(u, x, script, last, l), FromMoved(v, x, script, last, l)
      PROVE  u = v
  <2>1. PICK i \in 1..n : /\ script[i].status = "added" /\ script[i].moved # NotMoved /\ script[i].moved \in 1..l
                          /\ script[i].index = u /\ x = last[script[i].moved]
    BY <1>4 DEF FromMoved
  <2>2. PICK j \in 1..n : /\ script[j].status = "added" /\ script[j].moved # NotMoved /\ script[j].moved \in 1..l
                          /\ script[j].index = v /\ x = last[script[j].moved]
    BY <1>4 DEF FromMoved
  <2>3. script[i].moved = script[j].moved
    BY <2>1, <2>2
  <2>4. PICK d \in 1..n : script[d].status = "deleted" /\ script[d].index = script[i].moved /\ script[d].moved = u
    BY <1>1, <2>1
  <2>5. PICK e \in 1..n : script[e].status = "deleted" /\ script[e].index = script[j].moved /\ script[e].moved = v
    BY <1>1, <2>2
  <2>6. d = e
    BY <2>3, <2>4, <2>5, OnePosition
  <2> QED
    BY <2>4, <2>5, <2>6
<1>5. ASSUME NEW u, NEW v, FromNew(u, x, script, node), FromNew(v, x, script, node) PROVE u = v
  <2>1. PICK i \in 1..n : IsNew(script[i]) /\ script[i].index = u /\ x = node[script[i].value]
    BY <1>5 DEF FromNew
  <2>2. PICK j \in 1..n : IsNew(script[j]) /\ script[j].index = v /\ x = node[script[j].value]
    BY <1>5 DEF FromNew
  <2>3. i = j
    BY <2>1, <2>2 DEF FreshNodes
  <2> QED
    BY <2>1, <2>2, <2>3
<1>6. ASSUME NEW u, NEW v, FromNew(u, x, script, node),
             FromKept(v, x, at, script, last, l) \/ FromMoved(v, x, script, last, l)
      PROVE  FALSE
  <2>1. PICK i \in 1..n : IsNew(script[i]) /\ x = node[script[i].value]
    BY <1>6 DEF FromNew
  <2>2. \A o \in 1..l : x # last[o]
    BY <2>1 DEF FreshNodes
  <2>3. \E o \in 1..l : x = last[o]
    BY <1>0, <1>6 DEF FromKept, FromMoved
  <2> QED
    BY <2>2, <2>3
<1> QED
  BY <1>2, <1>3, <1>4, <1>5, <1>6

MovedTo(result, entry, last, node, l, m) ==
  /\ entry.index \in 1..m /\ entry.moved \in 1..l
  /\ result.rows[entry.index].row = last[entry.moved]
  /\ NodeOf(result.rows[entry.index], node) = last[entry.moved]

\* A row that moved has a place of its own among the rows that the script found.
LEMMA MovedRow ==
  ASSUME NEW n \in Nat, NEW l \in Nat, NEW m \in Nat, NEW script, DOMAIN script = 1..n, NEW at,
         Keeps(at, script, l, m), NEW V, NEW last, Fits(script, V, last, l),
         NEW result, RowsTell(result, V, last, script, at, l, m, n), NEW node,
         NEW i \in 1..n, script[i].status = "added", script[i].moved # NotMoved
  PROVE  MovedTo(result, script[i], last, node, l, m)
<1>1. script[i].index \in 1..m
  BY EntryKinds
<1>2. script[i].moved \in 1..l
  BY DEF Fits
<1>3. result.rows[script[i].index] = RowOf(script[i], last)
  BY DEF RowsTell
<1>4. result.rows[script[i].index] = Row(last[script[i].moved])
  BY <1>3 DEF RowOf
<1> QED
  BY <1>1, <1>2, <1>4 DEF Row, NodeOf, MovedTo

\* An old row that is not gone is at one of the places.
LEMMA RowStays ==
  ASSUME NEW n \in Nat, NEW l \in Nat, NEW m \in Nat, NEW script, DOMAIN script = 1..n, NEW at,
         Keeps(at, script, l, m), MovesPair(script), NEW V, NEW last, Fits(script, V, last, l),
         NEW result, RowsTell(result, V, last, script, at, l, m, n), NEW node,
         NEW o \in 1..l, last[o] \notin result.gone
  PROVE  \E y \in 1..m : NodeOf(result.rows[y], node) = last[o]
<1>1. CASE o \in Left(script, l)
  <2>1. at[o] \in 1..m
    BY <1>1, KeptPlaces
  <2>2. result.rows[at[o]] = Row(last[o])
    BY <1>1 DEF RowsTell
  <2>3. NodeOf(result.rows[at[o]], node) = last[o]
    BY <2>2 DEF NodeOf, Row
  <2> QED
    BY <2>1, <2>3
<1>2. CASE o \notin Left(script, l)
  <2>1. PICK i \in 1..n : script[i].status = "deleted" /\ script[i].index = o
    BY <1>2 DEF Left, Named
  <2>2. script[i].moved # NotMoved
    <3>1. ASSUME script[i].moved = NotMoved PROVE FALSE
      <4>1. last[o] \in Gone(script, last, n)
        BY <2>1, <3>1 DEF Gone
      <4> QED
        BY <4>1 DEF RowsTell
    <3> QED
      BY <3>1
  <2>3. PICK j \in 1..n : /\ script[j].status # script[i].status
                          /\ script[j].index = script[i].moved /\ script[j].moved = script[i].index
    BY <2>2 DEF MovesPair
  <2>4. script[j].status = "added" /\ script[j].moved = o
    <3>1. script[j].status \in {"deleted", "added"}
      BY EntryKinds
    <3> QED
      BY <2>1, <2>3, <3>1
  <2>5. script[j].moved # NotMoved
    BY <2>4 DEF NotMoved
  <2>6. MovedTo(result, script[j], last, node, l, m)
    BY <2>4, <2>5, MovedRow
  <2>7. script[j].index \in 1..m /\ NodeOf(result.rows[script[j].index], node) = last[o]
    BY <2>4, <2>6 DEF MovedTo
  <2> QED
    BY <2>7
<1> QED
  BY <1>1, <1>2

\* foreach puts the nodes of the rows, and no other, in their order.
LEMMA NodesRearranged ==
  ASSUME NEW n \in Nat, NEW l \in Nat, NEW m \in Nat, NEW script, DOMAIN script = 1..n, NEW at,
         Keeps(at, script, l, m), MovesPair(script), NEW V, NEW last, Fits(script, V, last, l),
         NEW result, RowsTell(result, V, last, script, at, l, m, n), NEW node, NEW N, Nodes(last, N),
         FreshNodes(script, last, node, N, l),
         NEW nodes, nodes = [y \in 1..m |-> NodeOf(result.rows[y], node)]
  PROVE  Nodes(nodes, N) /\ Rearranged(last, result, node) = nodes
<1>1. /\ Len(last) = l /\ \A o, p \in 1..l : last[o] = last[p] => o = p
      /\ \A o \in 1..l : last[o] \in N
  BY DEF Fits, Nodes, Once, FreshNodes
<1>2. Len(result.rows) = m /\ result.gone = Gone(script, last, n) /\ result.first \in Seq(Nat)
  BY DEF RowsTell
<1>3. ASSUME NEW y \in 1..m
      PROVE  \/ FromKept(y, nodes[y], at, script, last, l)
             \/ FromMoved(y, nodes[y], script, last, l)
             \/ FromNew(y, nodes[y], script, node)
  <2>1. nodes[y] = NodeOf(result.rows[y], node)
    OBVIOUS
  <2> QED
    BY <2>1, NodeAt
<1>4. ASSUME NEW y \in 1..m PROVE nodes[y] \in N
  <2>1. CASE FromKept(y, nodes[y], at, script, last, l)
    <3>1. PICK o \in Left(script, l) : nodes[y] = last[o]
      BY <2>1 DEF FromKept
    <3>2. o \in 1..l
      BY KeptPlaces
    <3> QED
      BY <1>1, <3>1, <3>2
  <2>2. CASE FromMoved(y, nodes[y], script, last, l)
    BY <1>1, <2>2 DEF FromMoved
  <2>3. CASE FromNew(y, nodes[y], script, node)
    BY <2>3 DEF FromNew, FreshNodes
  <2> QED
    BY <1>3, <2>1, <2>2, <2>3
<1>5. Len(nodes) = m /\ nodes \in Seq(N)
  <2>1. nodes \in [1..m -> N]
    BY <1>4
  <2> QED
    BY <2>1
<1>6. ASSUME NEW y \in 1..m, NEW z \in 1..m, nodes[y] = nodes[z] PROVE y = z
  <2> DEFINE x == nodes[y]
  <2>1. \/ FromKept(y, x, at, script, last, l) \/ FromMoved(y, x, script, last, l) \/ FromNew(y, x, script, node)
    BY <1>3
  <2>2. \/ FromKept(z, x, at, script, last, l) \/ FromMoved(z, x, script, last, l) \/ FromNew(z, x, script, node)
    BY <1>3, <1>6
  <2> HIDE DEF x
  <2> QED
    BY <1>1, <2>1, <2>2, OnePlace, SMTT(40)
<1>7. Nodes(nodes, N)
  BY <1>5, <1>6 DEF Nodes, Once
<1> DEFINE rest == Without(last, result.gone)
           after == MoveFirst(rest, result)
           f == Len(result.first)
<1>8. Nodes(rest, N) /\ \A x : In(x, rest) <=> In(x, last) /\ x \notin result.gone
  BY OthersAreLeft
<1> HIDE DEF rest
<1>9. f \in Nat /\ DOMAIN result.first = 1..f
  BY <1>2, LenProperties
<1> HIDE DEF f
<1>10. ASSUME NEW k \in 1..f
       PROVE  /\ result.rows[result.first[k]].row \in N
              /\ In(result.rows[result.first[k]].row, nodes)
  <2>1. PICK i \in 1..n : /\ script[i].status = "added" /\ script[i].moved # NotMoved
                          /\ script[i].index = result.first[k]
    BY DEF RowsTell, f
  <2>4. MovedTo(result, script[i], last, node, l, m)
    BY <2>1, MovedRow
  <2>2. /\ script[i].index \in 1..m /\ script[i].moved \in 1..l
        /\ result.rows[script[i].index].row = last[script[i].moved]
        /\ NodeOf(result.rows[script[i].index], node) = last[script[i].moved]
    BY <2>4 DEF MovedTo
  <2>3. nodes[script[i].index] = result.rows[result.first[k]].row
    BY <2>1, <2>2
  <2> QED
    BY <1>4, <1>5, <2>2, <2>3 DEF In
<1>11. /\ Nodes(after, N)
       /\ \A x : In(x, after) => In(x, rest) \/ \E k \in 1..f : x = result.rows[result.first[k]].row
  <2>1. \A k \in 1..f : result.rows[result.first[k]].row \in N
    BY <1>10
  <2>2. after = MoveFirst(rest, result)
    OBVIOUS
  <2> HIDE DEF after
  <2> QED
    BY <1>8, <1>9, <2>1, <2>2, FirstMoved
<1> HIDE DEF after
<1>12. ASSUME NEW x, In(x, after) PROVE In(x, nodes)
  <2>1. CASE In(x, rest)
    <3>1. In(x, last) /\ x \notin result.gone
      BY <1>8, <2>1
    <3>2. PICK o \in 1..l : last[o] = x
      BY <1>1, <3>1 DEF In
    <3>3. last[o] \notin result.gone
      BY <3>1, <3>2
    <3>4. \E y \in 1..m : NodeOf(result.rows[y], node) = last[o]
      BY <3>3, RowStays
    <3>5. PICK y \in 1..m : nodes[y] = x
      BY <3>2, <3>4
    <3> QED
      BY <1>5, <3>5 DEF In
  <2>2. CASE \E k \in 1..f : x = result.rows[result.first[k]].row
    BY <1>10, <2>2
  <2> QED
    BY <1>11, <1>12, <2>1, <2>2
<1>13. PutInOrder(after, LastMoved(result), nodes) = nodes
  BY <1>7, <1>11, <1>12, RowsInOrder
<1>14. Rearranged(last, result, node) = PutInOrder(after, LastMoved(result), nodes)
  BY <1>2 DEF Rearranged, rest, after
<1> QED
  BY <1>7, <1>13, <1>14

\* What is in the document in the end: a row that was there shows the item it
\* shows now, and the other rows are new.
Shows(dom, last, node, old, new) ==
  /\ Len(dom) = Len(new) /\ Once(dom)
  /\ \A y \in 1..Len(new) : \/ \E o \in 1..Len(old) : dom[y] = last[o] /\ old[o] = new[y]
                            \/ dom[y] = node[new[y]]

\* Only the items that were not there have new nodes.
NewOnes(dom, node, old, new) == \A y \in 1..Len(new) : dom[y] = node[new[y]] <=> ~In(new[y], old)

\* The nodes of the rows are different, and the new ones are others.
Distinct(last, node, N, V) ==
  /\ Nodes(last, N)
  /\ node \in [V -> N] /\ \A v, w \in V : node[v] = node[w] => v = w
  /\ \A v \in V, o \in 1..Len(last) : node[v] # last[o]

LEMMA AreFresh ==
  ASSUME NEW n \in Nat, NEW V, NEW old \in Seq(V), NEW new \in Seq(V), Once(new), NEW script, DOMAIN script = 1..n,
         NEW at, Keeps(at, script, Len(old), Len(new)), Tells(script, old, new), NEW last, Len(last) = Len(old),
         NEW node, NEW N, Distinct(last, node, N, V)
  PROVE  FreshNodes(script, last, node, N, Len(old))
<1>1. \A o \in 1..Len(old) : last[o] \in N
  BY NodesDomain DEF Distinct
<1>2. ASSUME NEW i \in 1..n, IsNew(script[i])
      PROVE  script[i].index \in 1..Len(new) /\ script[i].value = new[script[i].index] /\ script[i].value \in V
  <2>1. script[i].status = "added"
    BY <1>2 DEF IsNew
  <2>2. script[i].index \in DOMAIN new /\ script[i].value = new[script[i].index]
    BY <2>1 DEF Tells
  <2>3. DOMAIN new = 1..Len(new) /\ \A y \in 1..Len(new) : new[y] \in V
    BY LenProperties, ElementOfSeq
  <2> QED
    BY <2>2, <2>3
<1>3. ASSUME NEW i \in 1..n, NEW j \in 1..n, IsNew(script[i]), IsNew(script[j]),
             node[script[j].value] = node[script[i].value]
      PROVE  i = j
  <2>1. script[i].value = script[j].value
    BY <1>2, <1>3 DEF Distinct
  <2>2. script[i].index = script[j].index
    BY <1>2, <1>3, <2>1 DEF Once
  <2>3. script[i].status = script[j].status
    BY <1>3 DEF IsNew
  <2>4. Len(old) \in Nat /\ Len(new) \in Nat
    BY LenProperties
  <2> QED
    BY <2>2, <2>3, <2>4, OnePosition
<1>4. ASSUME NEW i \in 1..n, IsNew(script[i])
      PROVE  /\ node[script[i].value] \in N
             /\ \A o \in 1..Len(old) : node[script[i].value] # last[o]
  BY <1>2, <1>4 DEF Distinct
<1> QED
  BY <1>1, <1>3, <1>4 DEF FreshNodes

\* The rows in the document follow any script that tells of the contents and
\* whose moves pair its entries (knockout-debug.js, setDomNodeChildrenFromArrayMapping).
THEOREM RowsFollowScript ==
  ASSUME NEW V, NEW old \in Seq(V), NEW new \in Seq(V), Once(new), NEW n \in Nat, NEW script, DOMAIN script = 1..n,
         Tells(script, old, new), MovesPair(script), NEW last, Len(last) = Len(old), NEW node, NEW N,
         Distinct(last, node, N, V)
  PROVE  LET result == ApplyScript(last, script, Len(new))
             dom == Rearranged(last, result, node)
         IN /\ Shows(dom, last, node, old, new)
            /\ NoMoveMissed(script) => NewOnes(dom, node, old, new)
<1> DEFINE l == Len(old)
           m == Len(new)
           result == ApplyScript(last, script, m)
           nodes == [y \in 1..m |-> NodeOf(result.rows[y], node)]
           W == V \cup N
<1>1. /\ l \in Nat /\ DOMAIN old = 1..l /\ m \in Nat /\ DOMAIN new = 1..m
      /\ (\A o \in 1..l : old[o] \in V) /\ (\A y \in 1..m : new[y] \in V)
  BY LenProperties, ElementOfSeq
<1>2. PICK at : Keeps(at, script, l, m) /\ \A o \in Left(script, l) : new[at[o]] = old[o]
  <2> HIDE DEF l, m
  <2>1. \E at : KeepsItems(at, script, l, m, old, new)
    BY <1>1, TellsKeeps
  <2> QED
    BY <2>1 DEF KeepsItems
<1>3. ASSUME NEW i \in 1..n
      PROVE  /\ script[i].status = "deleted" => script[i].value = old[script[i].index]
             /\ script[i].status = "added" => script[i].value = new[script[i].index]
             /\ script[i].moved # NotMoved =>
                  \E j \in 1..n : /\ script[j].status # script[i].status /\ script[j].value = script[i].value
                                  /\ script[j].index = script[i].moved /\ script[j].moved = script[i].index
  BY DEF Tells, MovesPair
<1>4. ASSUME NEW i \in 1..n
      PROVE  /\ script[i].status \in {"deleted", "added"}
             /\ script[i].status = "deleted" => script[i].index \in 1..l
             /\ script[i].status = "added" => script[i].index \in 1..m
  BY <1>1, <1>2, EntryKinds
<1>5. Fits(script, W, last, l)
  <2>1. last \in Seq(W)
    <3>1. Len(last) = l /\ \A o \in 1..l : last[o] \in N
      BY NodesDomain DEF Distinct
    <3>2. last = [o \in 1..l |-> last[o]]
      <4>1. last \in Seq(N)
        BY DEF Distinct, Nodes
      <4> QED
        BY <3>1, <4>1
    <3>3. last \in [1..l -> W]
      BY <3>1, <3>2
    <3> HIDE DEF W
    <3> QED
      BY <1>1, <3>3
  <2>2. ASSUME NEW i \in 1..n, script[i].status = "added"
        PROVE  script[i].value \in W /\ (script[i].moved = NotMoved \/ script[i].moved \in 1..l)
    <3>1. script[i].value \in W
      BY <1>1, <1>3, <1>4, <2>2
    <3>2. ASSUME script[i].moved # NotMoved PROVE script[i].moved \in 1..l
      <4>1. PICK j \in 1..n : script[j].status # script[i].status /\ script[j].index = script[i].moved
        BY <1>3, <3>2
      <4>2. script[j].status = "deleted"
        BY <1>4, <2>2, <4>1
      <4> QED
        BY <1>4, <4>1, <4>2
    <3> QED
      BY <3>1, <3>2
  <2> QED
    BY <2>1, <2>2 DEF Fits
<1> HIDE DEF W, l, m, result
<1>6. RowsTell(result, W, last, script, at, l, m, n)
  BY <1>1, <1>2, <1>5, ScriptFollowed DEF result
<1>7. FreshNodes(script, last, node, N, l)
  BY <1>2, AreFresh DEF l, m
<1> DEFINE dom == Rearranged(last, result, node)
<1>8. Nodes(nodes, N) /\ dom = nodes
  <2>1. Nodes(last, N)
    BY DEF Distinct
  <2> DEFINE there == nodes
  <2>2. there = [y \in 1..m |-> NodeOf(result.rows[y], node)]
    OBVIOUS
  <2> HIDE DEF there
  <2>3. Nodes(there, N) /\ Rearranged(last, result, node) = there
    BY <1>1, <1>2, <1>5, <1>6, <1>7, <2>1, <2>2, NodesRearranged
  <2> QED
    BY <2>3 DEF there
<1>9. Len(nodes) = m
  <2>1. Len(nodes) \in Nat /\ DOMAIN nodes = 1..Len(nodes)
    BY <1>8, NodesDomain
  <2>2. DOMAIN nodes = 1..m
    OBVIOUS
  <2> QED
    BY <1>1, <2>1, <2>2
<1>10. ASSUME NEW y \in 1..m
       PROVE  \/ \E o \in Left(script, l) : at[o] = y /\ nodes[y] = last[o]
              \/ \E i \in 1..n : /\ script[i].status = "added" /\ script[i].moved # NotMoved
                                 /\ script[i].index = y /\ nodes[y] = last[script[i].moved]
              \/ \E i \in 1..n : /\ script[i].status = "added" /\ script[i].moved = NotMoved
                                 /\ script[i].index = y /\ nodes[y] = node[script[i].value]
  <2> DEFINE x == nodes[y]
  <2>1. x = NodeOf(result.rows[y], node)
    OBVIOUS
  <2> HIDE DEF x
  <2>2. FromKept(y, x, at, script, last, l) \/ FromMoved(y, x, script, last, l) \/ FromNew(y, x, script, node)
    BY <1>1, <1>2, <1>5, <1>6, <2>1, NodeAt
  <2>3. CASE FromKept(y, x, at, script, last, l)
    BY <2>3 DEF FromKept, x
  <2>4. CASE FromMoved(y, x, script, last, l)
    BY <2>4 DEF FromMoved, x
  <2>5. CASE FromNew(y, x, script, node)
    BY <2>5 DEF FromNew, IsNew, x
  <2> QED
    BY <2>2, <2>3, <2>4, <2>5
<1> HIDE DEF nodes, dom
<1>11. \A o \in Left(script, l) : o \in 1..l /\ at[o] \in Right(script, m)
  BY <1>1, <1>2, KeptPlaces
<1>12. ASSUME NEW y \in 1..m
       PROVE  \/ \E o \in 1..l : nodes[y] = last[o] /\ old[o] = new[y]
              \/ nodes[y] = node[new[y]] /\ \E i \in 1..n : IsNew(script[i]) /\ script[i].index = y
  <2>1. ASSUME NEW o \in Left(script, l), at[o] = y, nodes[y] = last[o]
        PROVE  o \in 1..l /\ nodes[y] = last[o] /\ old[o] = new[y]
    BY <1>2, <1>11, <2>1
  <2>2. ASSUME NEW i \in 1..n, script[i].status = "added", script[i].moved # NotMoved,
               script[i].index = y, nodes[y] = last[script[i].moved]
        PROVE  script[i].moved \in 1..l /\ old[script[i].moved] = new[y]
    <3>1. PICK j \in 1..n : /\ script[j].status # script[i].status /\ script[j].value = script[i].value
                            /\ script[j].index = script[i].moved
      BY <1>3, <2>2
    <3>2. script[j].status = "deleted"
      BY <1>4, <2>2, <3>1
    <3> QED
      BY <1>3, <1>4, <2>2, <3>1, <3>2
  <2>3. ASSUME NEW i \in 1..n, script[i].status = "added", script[i].moved = NotMoved,
               script[i].index = y, nodes[y] = node[script[i].value]
        PROVE  nodes[y] = node[new[y]] /\ IsNew(script[i]) /\ script[i].index = y
    BY <1>3, <2>3 DEF IsNew
  <2> QED
    BY <1>10, <2>1, <2>2, <2>3
<1>13. Shows(dom, last, node, old, new)
  <2>1. Once(nodes)
    BY <1>8 DEF Nodes
  <2> QED
    BY <1>8, <1>9, <1>12, <2>1 DEF Shows, l, m
<1>14. ASSUME NoMoveMissed(script), NEW y \in 1..m PROVE nodes[y] = node[new[y]] <=> ~In(new[y], old)
  <2>1. ASSUME ~In(new[y], old) PROVE nodes[y] = node[new[y]]
    <3>1. \A o \in 1..l : old[o] # new[y]
      BY <2>1 DEF In, l
    <3> QED
      BY <1>12, <3>1
  <2>2. ASSUME nodes[y] = node[new[y]], NEW o \in 1..l, old[o] = new[y] PROVE FALSE
    <3>1. \A p \in 1..l : nodes[y] # last[p]
      BY <1>1, <2>2 DEF Distinct, l
    <3>2. PICK i \in 1..n : IsNew(script[i]) /\ script[i].index = y
      BY <1>12, <3>1
    <3>3. script[i].status = "added" /\ script[i].moved = NotMoved /\ script[i].value = new[y]
      BY <1>3, <3>2 DEF IsNew
    <3>4. \A z \in 1..m : new[z] = new[y] => z = y
      BY DEF Once, m
    <3>5. CASE o \in Left(script, l)
      <4>1. at[o] = y
        <5>1. at[o] \in 1..m /\ new[at[o]] = new[y]
          BY <1>2, <1>11, <2>2, <3>5 DEF Right
        <5> QED
          BY <3>4, <5>1
      <4>2. y \in Named(script, "added")
        BY <3>2, <3>3 DEF Named
      <4> QED
        BY <1>11, <3>5, <4>1, <4>2 DEF Right
    <3>6. CASE o \notin Left(script, l)
      <4>1. PICK k \in 1..n : script[k].status = "deleted" /\ script[k].index = o
        BY <3>6 DEF Left, Named
      <4>2. script[k].value = new[y]
        BY <1>3, <2>2, <4>1
      <4>3. script[k].moved # NotMoved
        BY <1>14, <3>3, <4>1, <4>2 DEF NoMoveMissed
      <4>4. PICK j \in 1..n : /\ script[j].status # script[k].status /\ script[j].value = script[k].value
                              /\ script[j].index = script[k].moved /\ script[j].moved = script[k].index
        BY <1>3, <4>3
      <4>5. script[j].status = "added"
        BY <1>4, <4>1, <4>4
      <4>6. script[j].index = y
        BY <1>3, <1>4, <3>4, <4>2, <4>4, <4>5, SMTT(40)
      <4>7. j = i
        <5>1. script[j].status = script[i].status /\ script[j].index = script[i].index
          BY <3>2, <3>3, <4>5, <4>6
        <5>2. Keeps(at, script, l, m)
          BY <1>2
        <5> QED
          BY <1>1, <5>1, <5>2, OnePosition
      <4>8. o # NotMoved
        BY DEF NotMoved
      <4> QED
        BY <3>3, <4>1, <4>4, <4>7, <4>8
    <3> QED
      BY <3>5, <3>6
  <2> QED
    BY <2>1, <2>2 DEF In, l
<1>15. NoMoveMissed(script) => NewOnes(dom, node, old, new)
  <2>1. dom = nodes
    BY <1>8
  <2> QED
    BY <1>14, <2>1 DEF NewOnes, m
<1> QED
  BY <1>13, <1>15 DEF dom, result, l, m

LEMMA ComparisonIsScript ==
  ASSUME NEW V, NEW old \in Seq(V), NEW new \in Seq(V)
  PROVE  \E n \in Nat : DOMAIN CompareArrays(old, new) = 1..n
<1>1. /\ DOMAIN old = 1..Len(old) /\ Len(old) \in Nat
      /\ DOMAIN new = 1..Len(new) /\ Len(new) \in Nat
  BY LenProperties
<1>2. CASE Len(old) < Len(new)
  <2> DEFINE p == Differences(old, new)
             script == Marked(Entries(p, old, new, TRUE), TRUE, 10 * Len(old))
  <2>1. Sides(old, new)
    BY <1>1, <1>2 DEF Sides
  <2>2. PathTells(p, old, new, Len(old), Len(new))
    BY <2>1, DifferencesTell
  <2>3. p \in Seq(PathEntry)
    BY <2>2 DEF PathTells, Descends
  <2> HIDE DEF p
  <2>4. Reads(script, p, old, new, TRUE)
    BY <2>3, MarkedReads
  <2>5. CompareArrays(old, new) = script
    BY <1>2 DEF CompareArrays, script, p
  <2> HIDE DEF script
  <2> QED
    BY <2>3, <2>4, <2>5, LenProperties DEF Reads
<1>3. CASE ~ (Len(old) < Len(new))
  <2> DEFINE p == Differences(new, old)
             script == Marked(Entries(p, new, old, FALSE), FALSE, 10 * Len(new))
  <2>1. Sides(new, old)
    BY <1>1, <1>3 DEF Sides
  <2>2. PathTells(p, new, old, Len(new), Len(old))
    BY <2>1, DifferencesTell
  <2>3. p \in Seq(PathEntry)
    BY <2>2 DEF PathTells, Descends
  <2> HIDE DEF p
  <2>4. Reads(script, p, new, old, FALSE)
    BY <2>3, MarkedReads
  <2>5. CompareArrays(old, new) = script
    BY <1>3 DEF CompareArrays, script, p
  <2> HIDE DEF script
  <2> QED
    BY <2>3, <2>4, <2>5, LenProperties DEF Reads
<1> QED
  BY <1>2, <1>3

\* The document after foreach has followed a script: it shows the new items,
\* and only those that were not there have new nodes.
Follows(script, last, node, old, new) ==
  LET dom == Rearranged(last, ApplyScript(last, script, Len(new)), node)
  IN Shows(dom, last, node, old, new) /\ NewOnes(dom, node, old, new)

(***************************************************************************)
(* However the items of an array have changed, the rows in the document    *)
(* are those of the new items, in their order, each with the nodes it had  *)
(* or with new ones.  With ten items at most on either side only an item   *)
(* that was not there gets new nodes: nothing on the page that stays is    *)
(* made anew (knockout-debug.js, compareArrays and                         *)
(* setDomNodeChildrenFromArrayMapping).                                    *)
(***************************************************************************)
THEOREM RowsFollowComparison ==
  ASSUME NEW V, NEW old \in Seq(V), NEW new \in Seq(V), Once(new), NEW last, Len(last) = Len(old),
         NEW node, NEW N, Distinct(last, node, N, V)
  PROVE  LET script == CompareArrays(old, new)
             dom == Rearranged(last, ApplyScript(last, script, Len(new)), node)
         IN /\ Shows(dom, last, node, old, new)
            /\ Len(old) <= 10 /\ Len(new) <= 10 => NewOnes(dom, node, old, new)
<1> DEFINE script == CompareArrays(old, new)
<1>1. PICK n \in Nat : DOMAIN script = 1..n
  BY ComparisonIsScript
<1>2. Tells(script, old, new)
  BY ScriptsTell
<1>3. MovesPair(script) /\ (Len(old) <= 10 /\ Len(new) <= 10 => NoMoveMissed(script))
  BY MovesOfComparison
<1> HIDE DEF script
<1>4. LET dom == Rearranged(last, ApplyScript(last, script, Len(new)), node)
      IN /\ Shows(dom, last, node, old, new)
         /\ NoMoveMissed(script) => NewOnes(dom, node, old, new)
  BY <1>1, <1>2, <1>3, RowsFollowScript
<1> QED
  BY <1>3, <1>4 DEF script

\* A script that only adds or only deletes has no moves and misses none.
LEMMA OneKind ==
  ASSUME NEW script, NEW status,
         \A i \in DOMAIN script : script[i].moved = NotMoved /\ script[i].status = status
  PROVE  MovesPair(script) /\ NoMoveMissed(script)
BY DEF MovesPair, NoMoveMissed

LEMMA FrontOfSeq ==
  ASSUME NEW V, NEW array \in Seq(V)
  PROVE  Front(array) \in Seq(V)
<1>1. Len(array) \in Nat
  BY LenProperties
<1>2. SubSeq(array, 1, Len(array) - 1) \in Seq(V)
  <2>1. CASE array = <<>>
    BY <2>1, SubSeqProperties
  <2>2. CASE array # <<>>
    BY <2>2, <1>1, SubSeqProperties
  <2> QED
    BY <2>1, <2>2
<1> QED
  BY <1>2 DEF Front

LEMMA KnownScriptFollows ==
  ASSUME NEW V, NEW old \in Seq(V), NEW new \in Seq(V), Once(new), NEW n \in Nat, NEW script, DOMAIN script = 1..n,
         Tells(script, old, new), MovesPair(script), NoMoveMissed(script),
         NEW last, Len(last) = Len(old), NEW node, NEW N, Distinct(last, node, N, V)
  PROVE  Follows(script, last, node, old, new)
BY RowsFollowScript DEF Follows

(***************************************************************************)
(* The same for the operations whose script knockout knows, for arrays of  *)
(* any length: every item that stays keeps its row                         *)
(* (cacheDiffForKnownOperation).                                           *)
(***************************************************************************)
THEOREM RowsFollowKnownScripts ==
  ASSUME NEW V, NEW array \in Seq(V), NEW args \in Seq(V), NEW start \in 1..(Len(array) + 1), NEW count \in Nat,
         NEW last, Len(last) = Len(array), NEW node, NEW N, Distinct(last, node, N, V)
  PROVE  /\ Once(Spliced(array, start, count, args)) =>
              Follows(SpliceDiff(array, start, count, args), last, node, array, Spliced(array, start, count, args))
         /\ Once(array \o args) => Follows(PushDiff(array, args), last, node, array, array \o args)
         /\ Once(args \o array) => Follows(UnshiftDiff(args), last, node, array, args \o array)
         /\ array # <<>> /\ Once(Front(array)) => Follows(PopDiff(array), last, node, array, Front(array))
         /\ array # <<>> /\ Once(Tail(array)) => Follows(ShiftDiff(array), last, node, array, Tail(array))
<1>1. ASSUME Once(Spliced(array, start, count, args))
      PROVE  Follows(SpliceDiff(array, start, count, args), last, node, array, Spliced(array, start, count, args))
  <2> DEFINE script == SpliceDiff(array, start, count, args)
             new == Spliced(array, start, count, args)
             plain == SpliceScript(array, start, count, args)
  <2>1. new \in Seq(V)
    BY SplicedItems
  <2>2. Tells(script, array, new) /\ MovesPair(script) /\ NoMoveMissed(script)
    BY SpliceTells
  <2>3. Len(plain) \in Nat /\ DOMAIN script = 1..Len(plain)
    <3>1. plain \in Seq(ScriptEntries(V))
      BY SpliceScriptTells
    <3>2. Len(plain) \in Nat
      BY <3>1, LenProperties
    <3> QED
      BY <3>2 DEF SpliceDiff, MarkMoves
  <2> HIDE DEF script, new, plain
  <2>4. Once(new)
    BY <1>1 DEF new
  <2>5. Follows(script, last, node, array, new)
    BY <2>1, <2>2, <2>3, <2>4, KnownScriptFollows
  <2> QED
    BY <2>5 DEF script, new
<1>2. ASSUME Once(array \o args) PROVE Follows(PushDiff(array, args), last, node, array, array \o args)
  <2> DEFINE script == PushDiff(array, args)
             new == array \o args
  <2>1. new \in Seq(V)
    BY ConcatProperties
  <2>2. Tells(script, array, new)
    BY KnownScriptsTell
  <2>3. Len(args) \in Nat /\ DOMAIN script = 1..Len(args)
    BY LenProperties DEF PushDiff
  <2>4. \A i \in DOMAIN script : script[i].moved = NotMoved /\ script[i].status = "added"
    BY <2>3 DEF PushDiff, Added
  <2>5. MovesPair(script) /\ NoMoveMissed(script)
    BY <2>4, OneKind
  <2> HIDE DEF script, new
  <2>6. Once(new)
    BY <1>2 DEF new
  <2>7. Follows(script, last, node, array, new)
    BY <2>1, <2>2, <2>3, <2>5, <2>6, KnownScriptFollows
  <2> QED
    BY <2>7 DEF script, new
<1>3. ASSUME Once(args \o array) PROVE Follows(UnshiftDiff(args), last, node, array, args \o array)
  <2> DEFINE script == UnshiftDiff(args)
             new == args \o array
  <2>1. new \in Seq(V)
    BY ConcatProperties
  <2>2. Tells(script, array, new)
    BY KnownScriptsTell
  <2>3. Len(args) \in Nat /\ DOMAIN script = 1..Len(args)
    BY LenProperties DEF UnshiftDiff
  <2>4. \A i \in DOMAIN script : script[i].moved = NotMoved /\ script[i].status = "added"
    BY <2>3 DEF UnshiftDiff, Added
  <2>5. MovesPair(script) /\ NoMoveMissed(script)
    BY <2>4, OneKind
  <2> HIDE DEF script, new
  <2>6. Once(new)
    BY <1>3 DEF new
  <2>7. Follows(script, last, node, array, new)
    BY <2>1, <2>2, <2>3, <2>5, <2>6, KnownScriptFollows
  <2> QED
    BY <2>7 DEF script, new
<1>4. ASSUME array # <<>>, Once(Front(array)) PROVE Follows(PopDiff(array), last, node, array, Front(array))
  <2> DEFINE script == PopDiff(array)
             new == Front(array)
  <2>1. new \in Seq(V)
    BY LenProperties, FrontOfSeq
  <2>2. Tells(script, array, new)
    BY <1>4, KnownScriptsTell
  <2>3. script = <<Deleted(Last(array), Len(array))>>
    BY <1>4 DEF PopDiff
  <2>4. DOMAIN script = 1..1 /\ \A i \in DOMAIN script : script[i].moved = NotMoved /\ script[i].status = "deleted"
    BY <2>3 DEF Deleted
  <2>5. MovesPair(script) /\ NoMoveMissed(script)
    BY <2>4, OneKind
  <2> HIDE DEF script, new
  <2>6. Once(new)
    BY <1>4 DEF new
  <2>7. Follows(script, last, node, array, new)
    BY <2>1, <2>2, <2>4, <2>5, <2>6, KnownScriptFollows
  <2> QED
    BY <2>7 DEF script, new
<1>5. ASSUME array # <<>>, Once(Tail(array)) PROVE Follows(ShiftDiff(array), last, node, array, Tail(array))
  <2> DEFINE script == ShiftDiff(array)
             new == Tail(array)
  <2>1. new \in Seq(V)
    BY <1>5, HeadTailProperties
  <2>2. Tells(script, array, new)
    BY <1>5, KnownScriptsTell
  <2>3. script = <<Deleted(Head(array), 1)>>
    BY <1>5 DEF ShiftDiff
  <2>4. DOMAIN script = 1..1 /\ \A i \in DOMAIN script : script[i].moved = NotMoved /\ script[i].status = "deleted"
    BY <2>3 DEF Deleted
  <2>5. MovesPair(script) /\ NoMoveMissed(script)
    BY <2>4, OneKind
  <2> HIDE DEF script, new
  <2>6. Once(new)
    BY <1>5 DEF new
  <2>7. Follows(script, last, node, array, new)
    BY <2>1, <2>2, <2>4, <2>5, <2>6, KnownScriptFollows
  <2> QED
    BY <2>7 DEF script, new
<1> QED
  BY <1>1, <1>2, <1>3, <1>4, <1>5

=============================================================================
