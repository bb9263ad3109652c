-------------------------- MODULE MessageDisposal ---------------------------
(***************************************************************************)
(* What a monitored queue promises to those who put messages on it: a      *)
(* message that arrived stays until its request has been carried out or a  *)
(* copy of it is on the dead-letter queue.  Nothing is promised about how  *)
(* often either happens: delivery is at least once, and a worker that was  *)
(* overtaken may still handle or archive a message that is gone.           *)
(***************************************************************************)
CONSTANT Messages

VARIABLES arrived,    \* messages that were put on the queue
          handled,    \* messages whose request was carried out
          archived,   \* messages with a copy on the dead-letter queue
          removed     \* messages that left the queue

vars == <<arrived, handled, archived, removed>>

Init == arrived = {} /\ handled = {} /\ archived = {} /\ removed = {}

Arrive(m) ==
  /\ m \notin arrived
  /\ arrived' = arrived \cup {m}
  /\ UNCHANGED <<handled, archived, removed>>

Handle(m) ==
  /\ m \in arrived
  /\ handled' = handled \cup {m}
  /\ UNCHANGED <<arrived, archived, removed>>

Archive(m) ==
  /\ m \in arrived
  /\ archived' = archived \cup {m}
  /\ UNCHANGED <<arrived, handled, removed>>

Remove(m) ==
  /\ m \in (arrived \ removed) \cap (handled \cup archived)
  /\ removed' = removed \cup {m}
  /\ UNCHANGED <<arrived, handled, archived>>

Next == \E m \in Messages : Arrive(m) \/ Handle(m) \/ Archive(m) \/ Remove(m)

Spec == Init /\ [][Next]_vars

=============================================================================
