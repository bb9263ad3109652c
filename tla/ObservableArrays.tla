----------------------------- MODULE ObservableArrays -----------------------------
(***************************************************************************)
(* knockout's observable arrays, changed in place, and the extender that   *)
(* tells its "arrayChange" listeners what changed (trackArrayChanges).     *)
(* While anybody listens, the extender subscribes to the changes of the    *)
(* array itself, in its turn among the other subscribers.  The engine has: *)
(*   listeners array -> who listens to "arrayChange", in order             *)
(*   previous  array -> its contents when last told, Untracked if nobody   *)
(*             listens                                                     *)
(*   pending   array -> the notifications not yet told to the listeners    *)
(*   diff      array -> the script of a known operation, NoDiff if none    *)
(***************************************************************************)
EXTENDS Observables, ArrayChanges

CONSTANTS Untracked, NoDiff

Tracker(a) == <<"tracker", a>>
Told(l, a, changes) == [do |-> "changes", who |-> l, of |-> a, changes |-> changes]

IsTracked(e, a) == e.previous[a] # Untracked

\* A script that is known stands for one notification only.
GetChanges(e, a) ==
  IF e.diff[a] # NoDiff /\ e.pending[a] = 1 THEN e.diff[a] ELSE CompareArrays(e.previous[a], e.value[a])

\* notifyChanges: to the listeners of this moment.
TellListeners(e, a, changes) ==
  IF changes = <<>> THEN e
  ELSE [e EXCEPT !.turn = [i \in DOMAIN e.listeners[a] |-> Told(e.listeners[a][i], a, changes)] \o @]

NotifyChanges(e, a) ==
  IF e.pending[a] = 0 THEN e
  ELSE TellListeners([e EXCEPT !.previous[a] = e.value[a], !.diff[a] = NoDiff, !.pending[a] = 0], a, GetChanges(e, a))

\* trackChanges, before a listener is added.
TrackChanges(e, a) ==
  IF IsTracked(e, a) THEN NotifyChanges(e, a)
  ELSE Subscribe([e EXCEPT !.previous[a] = e.value[a], !.diff[a] = NoDiff], Tracker(a), a)

SubscribeChanges(e, l, a) == [TrackChanges(e, a) EXCEPT !.listeners[a] = Append(@, l)]

\* The last listener to leave ends the tracking.
UnsubscribeChanges(e, l, a) ==
  LET f == [e EXCEPT !.listeners[a] = Remove(@, l),
                     !.turn = SelectSeq(@, LAMBDA call : ~(call.do = "changes" /\ call.who = l /\ call.of = a))]
  IN IF f.listeners[a] = <<>> /\ IsTracked(f, a) THEN [Unsubscribe(f, Tracker(a), a) EXCEPT !.previous[a] = Untracked]
     ELSE f

\* notifySubscribers, which the extender intercepts to count.
Mutated(e, a, contents) ==
  ValueHasMutated(IF IsTracked(e, a) THEN [e EXCEPT !.pending[a] = @ + 1] ELSE e, a, contents)

\* An operation whose script is known.
KnownOperation(e, a, contents, script) ==
  Mutated(IF IsTracked(e, a) /\ e.pending[a] = 0 THEN [e EXCEPT !.diff[a] = script] ELSE e, a, contents)

Push(e, a, v) == KnownOperation(e, a, Append(e.value[a], v), PushDiff(e.value[a], <<v>>))
Unshift(e, a, v) == KnownOperation(e, a, <<v>> \o e.value[a], UnshiftDiff(<<v>>))
Pop(e, a) == KnownOperation(e, a, IF e.value[a] = <<>> THEN <<>> ELSE Front(e.value[a]), PopDiff(e.value[a]))
Shift(e, a) == KnownOperation(e, a, IF e.value[a] = <<>> THEN <<>> ELSE Tail(e.value[a]), ShiftDiff(e.value[a]))
Splice(e, a, start, count, args) ==
  KnownOperation(e, a, Spliced(e.value[a], start, count, args), SpliceDiff(e.value[a], start, count, args))

\* sort and reverse: the script is not known.
ReverseArray(e, a) == Mutated(e, a, Reverse(e.value[a]))

\* Nothing is told when nothing is removed...
RemoveItem(e, a, v) ==
  IF Contains(e.value[a], v) THEN Mutated(e, a, SelectSeq(e.value[a], LAMBDA w : w # v)) ELSE e

\* ...by value; all are removed even when there are none.
RemoveAll(e, a) == Mutated(e, a, <<>>)

ReplaceItem(e, a, old, new) ==
  LET at == {i \in DOMAIN e.value[a] : e.value[a][i] = old}
  IN IF at = {} THEN e ELSE Mutated(e, a, [e.value[a] EXCEPT ![Min(at)] = new])

\* An array is an object, which always differs.
WriteArray(e, a, contents) == Mutated(e, a, contents)

\* Between two turns nothing is left to tell, and the extender subscribes
\* exactly while somebody listens.
TrackingExact(e, a) ==
  /\ e.pending[a] = 0
  /\ IsTracked(e, a) <=> e.listeners[a] # <<>>
  /\ IsTracked(e, a) => e.previous[a] = e.value[a]
  /\ Len(SelectSeq(e.subs[a], LAMBDA s : s = Tracker(a))) = IF IsTracked(e, a) THEN 1 ELSE 0

=============================================================================
