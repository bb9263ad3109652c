------------------------------- MODULE Observables -------------------------------
(***************************************************************************)
(* The dependency engine of knockout (knockout-debug.js): observables, the *)
(* computeds that read them and the subscriptions that a computed takes    *)
(* out and gives back as its reads change.  A pure computed sleeps while   *)
(* nobody subscribes to it; asleep, it has no subscriptions and compares   *)
(* the versions of what it read when it is asked for its value.            *)
(*                                                                         *)
(* Everything happens inside one turn of the browser, so the operators     *)
(* take the state of the engine "e" and return the next one:               *)
(*   value     the latest value of observables and computeds               *)
(*   deps      computed -> what it read, in order (dependencyTracking)     *)
(*   subs      source -> who subscribes to its changes, in order           *)
(*   outdated  <<c, x>>: x has another version than the one c has noted    *)
(*   stale     the computeds that have never been evaluated                *)
(*   asleep    the pure computeds that sleep                               *)
(*   turn      the calls to make before the turn is over, the next first   *)
(* A subscriber that a notification has still to call is in "turn"; one    *)
(* that unsubscribes meanwhile is taken out of it, as notifySubscribers    *)
(* skips what is disposed.                                                 *)
(*                                                                         *)
(* Deferred and rate-limited updates are not used by the site, and         *)
(* evaluators that throw are left out.                                     *)
(***************************************************************************)
EXTENDS Naturals, Sequences, SequencesExt, FiniteSets

CONSTANTS
  Pures,          \* the pure computeds
  IsPrimitive(_), \* the values that are compared; an object always differs
  NextRead(_, _), \* what a computed reads after the values it has read
  NoRead,         \* nothing more
  Result(_, _)    \* the value of a computed, given all that it has read

RECURSIVE Unsubscribe(_, _, _), Subscribe(_, _, _), Evaluate(_, _), Checked(_, _)

\* Whether something changed, and the engine after finding that out.
Changed(e, changed) == [e |-> e, changed |-> changed]

Call(c, x) == [do |-> "call", who |-> c, of |-> x]
Done(c) == [do |-> "done", who |-> c, of |-> c]

\* valuesArePrimitiveAndEqual
IsDifferent(old, new) == ~(IsPrimitive(old) /\ old = new)

UpdateVersion(e, x) ==
  [e EXCEPT !.outdated = @ \cup {<<c, x>> : c \in {d \in DOMAIN e.deps : Contains(e.deps[d], x)}}]

\* The subscribers of this moment are called, and all that follows from each
\* call is done before the next one.
NotifySubscribers(e, x) ==
  [UpdateVersion(e, x) EXCEPT !.turn = [i \in DOMAIN e.subs[x] |-> Call(e.subs[x][i], x)] \o @]

(***************************************************************************)
(* Subscriptions.                                                          *)
(***************************************************************************)
\* afterSubscriptionRemove: what was read stays noted.
Sleep(e, p) == FoldLeft(LAMBDA f, x : Unsubscribe(f, p, x), [e EXCEPT !.asleep = @ \cup {p}], e.deps[p])

Unsubscribe(e, c, x) ==
  LET f == [e EXCEPT !.subs[x] = Remove(@, c), !.turn = SelectSeq(@, LAMBDA call : call # Call(c, x))]
  IN IF x \in Pures /\ e.subs[x] # <<>> /\ f.subs[x] = <<>> THEN Sleep(f, x) ELSE f

\* The evaluation of a pure computed that wakes up, or notices that it is out
\* of date, tells those who noted its version.
TellVersion(r, p) == IF r.changed THEN UpdateVersion(r.e, p) ELSE r.e

Reevaluated(now, p) == IF now.changed THEN TellVersion(Evaluate(now.e, p), p) ELSE now.e

SubscribeAll(e, p) == FoldLeft(LAMBDA f, x : Subscribe(f, p, x), e, e.deps[p])

\* One that was never evaluated has changed, whatever it reads.
HaveChanged(e, p) == IF p \in e.stale THEN Changed(e, TRUE) ELSE Checked(e, p)

\* Nothing that was read is kept, or else all of it is subscribed to and
\* looked at again.
Rechecked(now, p) ==
  IF now.changed THEN [now EXCEPT !.e.deps[p] = <<>>] ELSE Checked(SubscribeAll(now.e, p), p)

\* Mutant: what was read while asleep is taken to be up to date.
WakeUnchecked(e, p) ==
  LET f == [e EXCEPT !.asleep = @ \ {p}]
  IN IF p \in f.stale THEN Reevaluated(Changed([f EXCEPT !.deps[p] = <<>>], TRUE), p) ELSE SubscribeAll(f, p)

\* beforeSubscriptionAdd
Wake(e, p) == Reevaluated(Rechecked(HaveChanged([e EXCEPT !.asleep = @ \ {p}], p), p), p)

Subscribe(e, c, x) == [(IF x \in e.asleep THEN Wake(e, x) ELSE e) EXCEPT !.subs[x] = Append(@, c)]

(***************************************************************************)
(* Versions.  One that is asleep finds out whether it has changed when it  *)
(* is asked for its version.                                               *)
(***************************************************************************)
Renewed(now, x) == IF now.changed THEN Evaluate(now.e, x).e ELSE now.e

GetVersion(e, x) == IF x \in e.asleep THEN Renewed(HaveChanged(e, x), x) ELSE e

Compared(e, c, x) == Changed(e, <<c, x>> \in e.outdated)

\* haveDependenciesChanged: up to the first that has.
Checked(e, c) ==
  FoldLeft(LAMBDA acc, x : IF acc.changed THEN acc ELSE Compared(GetVersion(acc.e, x), c, x),
           Changed(e, FALSE), e.deps[c])

(***************************************************************************)
(* Evaluation.                                                             *)
(***************************************************************************)
\* A read is a dependency of the computed that is being evaluated: one that
\* it had keeps its subscription, one that sleeps takes out none.
RegisterDependency(e, c, x, candidates) ==
  IF Contains(e.deps[c], x) THEN e
  ELSE [GetVersion(IF c \in e.asleep \/ Contains(candidates, x) THEN e ELSE Subscribe(e, c, x), x)
         EXCEPT !.deps[c] = Append(@, x)]

RECURSIVE ReadFrom(_, _, _, _)
ReadOn(e, c, x, got, candidates) == ReadFrom(e, c, Append(got, e.value[x]), candidates)

\* The evaluator runs: "got" are the values that it has read.
ReadFrom(e, c, got, candidates) ==
  IF NextRead(c, got) = NoRead THEN [e |-> e, result |-> Result(c, got)]
  ELSE ReadOn(RegisterDependency(e, c, NextRead(c, got), candidates), c, NextRead(c, got), got, candidates)

\* Mutant: what is no longer read is still subscribed to.
KeepUnused(e, c, candidates) == e

\* The subscriptions that were not used again are disposed of.
DisposeUnused(e, c, candidates) ==
  FoldLeft(LAMBDA f, x : IF c \in f.asleep \/ Contains(f.deps[c], x) THEN f ELSE Unsubscribe(f, c, x), e, candidates)

IsBeingEvaluated(e, c) == Contains(e.turn, Done(c))

\* The result is taken over; a pure computed that sleeps has a new version.
TakeOver(e, c, result) ==
  IF ~IsDifferent(e.value[c], result) THEN Changed(e, FALSE)
  ELSE Changed([(IF c \in e.asleep THEN UpdateVersion(e, c) ELSE e) EXCEPT !.value[c] = result], TRUE)

Finish(run, c, candidates) ==
  TakeOver([DisposeUnused(run.e, c, candidates) EXCEPT !.stale = @ \ {c}], c, run.result)

\* evaluateImmediate without a notification.
Evaluate(e, c) ==
  LET fresh == [e EXCEPT !.deps[c] = <<>>, !.outdated = {d \in @ : d[1] # c}]
      candidates == SelectSeq(e.deps[c], LAMBDA x : Contains(e.subs[x], c))
  IN IF IsBeingEvaluated(e, c) THEN Changed(e, FALSE)
     ELSE Finish(ReadFrom(fresh, c, <<>>, candidates), c, candidates)

\* evaluatePossiblyAsync: what a computed does when told of a change.
TellSubscribers(r, c) ==
  IF r.changed THEN NotifySubscribers([r.e EXCEPT !.turn = <<Done(c)>> \o @], c) ELSE r.e

Respond(e, c) == TellSubscribers(Evaluate(e, c), c)

\* ko.computed that is not pure: evaluated at once.
Computed(e, c) == Evaluate([e EXCEPT !.stale = @ \cup {c}], c).e

Dispose(e, c) ==
  [FoldLeft(LAMBDA f, x : Unsubscribe(f, c, x), e, e.deps[c]) EXCEPT
    !.deps[c] = <<>>, !.outdated = {d \in @ : d[1] # c}]

(***************************************************************************)
(* Observables.                                                            *)
(***************************************************************************)
\* An equal primitive is not written.
Write(e, x, v) ==
  IF IsDifferent(e.value[x], v) THEN NotifySubscribers([e EXCEPT !.value[x] = v], x) ELSE e

\* What was mutated in place is always told.
ValueHasMutated(e, x, v) == NotifySubscribers([e EXCEPT !.value[x] = v], x)

(***************************************************************************)
(* Between two turns: a computed subscribes to what it reads if it is      *)
(* wanted, and only then, and its value is that of its reads.              *)
(***************************************************************************)
SubscriptionsExact(e, live) ==
  LET wanted == live \cup (Pures \ e.asleep) IN
  /\ \A p \in Pures : p \in e.asleep <=> e.subs[p] = <<>>
  /\ \A x \in DOMAIN e.subs : \A c \in DOMAIN e.deps :
       Len(SelectSeq(e.subs[x], LAMBDA s : s = c)) = IF c \in wanted /\ Contains(e.deps[c], x) THEN 1 ELSE 0

=============================================================================
