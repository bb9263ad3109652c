---------------------------- MODULE MCDashboard ----------------------------
(* Instances of Dashboard for TLC.                                         *)
EXTENDS Dashboard

CONSTANT none   \* model value

Item(id, parent) == [id |-> id, parent |-> parent]

\* Two records of each kind, one of which may be gone or refer to another
\* parent, and three transactions on pages of two.
SomeAnswers ==
  [policies |-> {<<Item(1, none)>>, <<Item(1, none), Item(2, none)>>},
   services |-> {<<>>, <<Item(1, 2)>>, <<Item(2, 1), Item(1, 1)>>},
   secrets |-> {<<Item(1, none), Item(2, 1)>>, <<Item(1, 2)>>},
   transactions |-> {<<Item(1, 1)>>, <<Item(2, 2), Item(3, none), Item(1, 1)>>}]

=============================================================================
