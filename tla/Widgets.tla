--------------------------------- MODULE Widgets ---------------------------------
(***************************************************************************)
(* The editors and the menus of one page.  The click that opens an editor  *)
(* closes the menus on its way up.  A dialog keeps the focus, and the user *)
(* from the menus, while it is shown; a key that goes up is heard anyway.  *)
(***************************************************************************)
EXTENDS Dialogs, Dropdown

widgetVars == <<dialogVars, dropdownVars>>

WidgetsInit == DialogsInit /\ DropdownInit

\* A dialog that is shown focuses its element.
FocusDialog(m) == IF m \in isTransitioning \ isTransitioning' /\ m \in isShown THEN focus' = <<>> ELSE UNCHANGED focus

EndOfTransition(m) ==
  /\ TransitionEnd(m)
  /\ FocusDialog(m)
  /\ UNCHANGED <<dropdowns, open, expanded, tabbing>>

WidgetsUserStep ==
  \/ /\ \E m \in Modals : EditBegin(m) \/ EditEnd(m)
     /\ ClickPage
  \/ /\ \E m \in Modals : Dismiss(m)
     /\ UNCHANGED dropdownVars
  \/ /\ (focusTrap = NoModal /\ DropdownNext) \/ TabUp
     /\ UNCHANGED dialogVars

WidgetsNext ==
  \/ WidgetsUserStep
  \/ \E m \in Modals : EndOfTransition(m)
  \/ \E m \in Modals : ListReplaced(m) /\ UNCHANGED dropdownVars

\* The browser ends a transition, or else the timer does.
WidgetsFairness == \A m \in Modals : WF_widgetVars(EndOfTransition(m))

WidgetsSpec == WidgetsInit /\ [][WidgetsNext]_widgetVars /\ WidgetsFairness

(***************************************************************************)
(* Every transition ends, so that a dialog hears its buttons again and the *)
(* page gets rid of its backdrop.                                          *)
(***************************************************************************)
DialogsSettle == \A m \in Modals : []<>DialogAtRest(m)

=============================================================================
