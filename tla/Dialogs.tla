--------------------------------- MODULE Dialogs ---------------------------------
(***************************************************************************)
(* The editors of the configuration page (entities.js): each kind of item  *)
(* has one element on the page, to which the view model of an item is      *)
(* bound for as long as the element is a Modal.  A view model keeps the    *)
(* element in modalState while its dialog is open.                         *)
(*                                                                         *)
(* An answer of the server may replace the view models of a list at any    *)
(* moment.  A click on Edit is stopped by a backdrop, but a key reaches    *)
(* the button whenever no dialog keeps the focus; knockout throws when the *)
(* element is bound already.                                               *)
(***************************************************************************)
EXTENDS Modal

CONSTANT MaxLists  \* bound on the lists of a kind that are received

VARIABLES
  listed,   \* dialog -> the list that its table shows
  boundTo,  \* dialog -> the list of the item that is bound to it, 0 for none
  opened    \* the items with a modalState.modal, as <<dialog, list>>

editorVars == <<listed, boundTo, opened>>
dialogVars == <<modalVars, editorVars>>

DialogsInit ==
  /\ ModalInit
  /\ listed = [m \in Modals |-> 1]
  /\ boundTo = [m \in Modals |-> 0]
  /\ opened = {}

\* Mutant: knockout binds an element again.
AlwaysBindable(m) == TRUE

Bindable(m) == boundTo[m] = 0

\* ko.applyBindings throws if the element is bound: nothing after it is done.
Bind(m) ==
  IF ~Bindable(m) THEN UNCHANGED <<boundTo, opened, modalVars>>
  ELSE /\ boundTo' = [boundTo EXCEPT ![m] = listed[m]]
       /\ opened' = opened \cup {<<m, listed[m]>>}
       /\ Show(m)

\* actions.edit.begin of an item that is listed.
EditBegin(m) ==
  /\ focusTrap = NoModal
  /\ Bind(m)
  /\ UNCHANGED listed

\* actions.edit.end: the Cancel button, in the context of what is bound.
EditEnd(m) ==
  /\ m \in displayed
  /\ <<m, boundTo[m]>> \in opened
  /\ Hide(m)
  /\ UNCHANGED editorVars

\* The escape key, which Modal handles.
Dismiss(m) ==
  /\ m \in displayed \cap isShown
  /\ Hide(m)
  /\ UNCHANGED editorVars

\* "hidden": the Modal is disposed of, the element cleaned, the state cleared.
Hidden(m) ==
  /\ RemoveBackdrop(m)
  /\ Dispose(m)
  /\ pending' = [pending EXCEPT ![m] = @ \ {"backdrop out"}]
  /\ boundTo' = [boundTo EXCEPT ![m] = 0]
  /\ opened' = opened \ {<<m, boundTo[m]>>}
  /\ UNCHANGED <<displayed, listed>>

\* fillPages puts new view models in place of the old ones.
ListReplaced(m) ==
  /\ listed[m] < MaxLists
  /\ listed' = [listed EXCEPT ![m] = @ + 1]
  /\ UNCHANGED <<modalVars, boundTo, opened>>

\* The end of a transition, which the browser or the timer of util.js tells.
TransitionEnd(m) ==
  \/ (ShowElement(m) \/ Shown(m) \/ HideModal(m)) /\ UNCHANGED editorVars
  \/ Hidden(m)

DialogsNext ==
  \E m \in Modals :
    EditBegin(m) \/ EditEnd(m) \/ Dismiss(m) \/ ListReplaced(m) \/ TransitionEnd(m)

DialogAtRest(m) == pending[m] = {}

(***************************************************************************)
(* Between quick keys, closing dialogs and lists that are replaced: a      *)
(* dialog that is open is bound to the item that can close it, and no      *)
(* dialog leaves anything behind, be it a backdrop over the page, the trap *)
(* of the focus, a handler or a binding.                                   *)
(***************************************************************************)
DialogsConsistent ==
  /\ \A m \in Modals :
       /\ m \in displayed => <<m, boundTo[m]>> \in opened
       /\ backdrops[m] <= 1
       /\ DialogAtRest(m) => /\ m \in isShown <=> m \in displayed
                             /\ m \in isShown <=> backdrops[m] = 1
                             /\ m \in isShown <=> boundTo[m] # 0
                             /\ m \notin isTransitioning
  /\ (\A m \in Modals : DialogAtRest(m) /\ m \notin isShown) =>
       ~modalOpen /\ focusTrap = NoModal /\ resizing = {} /\ instance = {} /\ opened = {}

=============================================================================
