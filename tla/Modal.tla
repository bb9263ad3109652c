---------------------------------- MODULE Modal ----------------------------------
(***************************************************************************)
(* Bootstrap's modal dialogs (modal.js), with the transitions of util.js.  *)
(*                                                                         *)
(* Showing a dialog lays a backdrop over the page, then shows the element; *)
(* hiding hides the element, then removes the backdrop.  Each of the four  *)
(* is a transition, whose end runs the next part; a timer ends those whose *)
(* end the browser does not tell.  The dialogs of a page share its body,   *)
(* the trap that keeps the focus in a dialog, and the window's handlers.   *)
(***************************************************************************)
EXTENDS Naturals, FiniteSets

CONSTANTS
  Modals,   \* the dialogs' elements, all with the class "fade"
  NoModal

VARIABLES
  instance,         \* dialogs whose element has a Modal
  isShown,          \* dialogs that are or will be shown
  isTransitioning,  \* dialogs that are deaf to show and hide
  displayed,        \* dialogs whose element is displayed
  backdrops,        \* dialog -> backdrops laid for it that are on the page
  pending,          \* dialog -> transitions whose end it waits for
  modalOpen,        \* the body has the class "modal-open"
  focusTrap,        \* the dialog that keeps the focus
  resizing          \* dialogs that follow the size of the window

modalVars ==
  <<instance, isShown, isTransitioning, displayed, backdrops, pending, modalOpen,
    focusTrap, resizing>>

ModalInit ==
  /\ instance = {} /\ isShown = {} /\ isTransitioning = {} /\ displayed = {}
  /\ backdrops = [m \in Modals |-> 0]
  /\ pending = [m \in Modals |-> {}]
  /\ modalOpen = FALSE
  /\ focusTrap = NoModal
  /\ resizing = {}

-----------------------------------------------------------------------------
(* What the dialogs share.                                                 *)

\* _setResizeEvent: the handlers that are taken off are those of all dialogs.
SetResizeEvent(m) == resizing' = IF m \in isShown' THEN resizing \cup {m} ELSE {}

\* _enforceFocus: one handler of the document, the latest.
EnforceFocus(m) == focusTrap' = m

\* _setScrollbar and _resetScrollbar, with the class of the body: the body is
\* reset whichever dialogs are shown.
SetScrollbar == modalOpen' = TRUE

ResetScrollbar == modalOpen' = FALSE

\* _showBackdrop, for a dialog that is shown.
LayBackdrop(m) ==
  /\ backdrops' = [backdrops EXCEPT ![m] = @ + 1]
  /\ pending' = [pending EXCEPT ![m] = @ \cup {"backdrop in"}]

-----------------------------------------------------------------------------
(* Showing and hiding.                                                     *)

\* show, of a dialog that may be new: the backdrop comes first.
Show(m) ==
  IF m \in isShown \cup isTransitioning THEN UNCHANGED modalVars
  ELSE /\ instance' = instance \cup {m}
       /\ isTransitioning' = isTransitioning \cup {m}
       /\ isShown' = isShown \cup {m}
       /\ SetScrollbar
       /\ SetResizeEvent(m)
       /\ LayBackdrop(m)
       /\ UNCHANGED <<displayed, focusTrap>>

\* Mutant: a dialog that fades can be hidden.
HidableAnyTime(m) == m \in isShown

Hidable(m) == m \in isShown \ isTransitioning

\* hide: the trap that is taken off may be that of another dialog.
Hide(m) ==
  IF ~Hidable(m) THEN UNCHANGED modalVars
  ELSE /\ isShown' = isShown \ {m}
       /\ isTransitioning' = isTransitioning \cup {m}
       /\ SetResizeEvent(m)
       /\ focusTrap' = NoModal
       /\ pending' = [pending EXCEPT ![m] = @ \cup {"element out"}]
       /\ UNCHANGED <<instance, displayed, backdrops, modalOpen>>

\* The backdrop covers the page: _showElement.
ShowElement(m) ==
  /\ "backdrop in" \in pending[m] /\ m \in instance
  /\ displayed' = displayed \cup {m}
  /\ EnforceFocus(m)
  /\ pending' = [pending EXCEPT ![m] = (@ \ {"backdrop in"}) \cup {"element in"}]
  /\ UNCHANGED <<instance, isShown, isTransitioning, backdrops, modalOpen, resizing>>

\* The element is there: "shown" is triggered.
Shown(m) ==
  /\ "element in" \in pending[m] /\ m \in instance
  /\ isTransitioning' = isTransitioning \ {m}
  /\ pending' = [pending EXCEPT ![m] = @ \ {"element in"}]
  /\ UNCHANGED <<instance, isShown, displayed, backdrops, modalOpen, focusTrap, resizing>>

\* The element is gone: _hideModal.
HideModal(m) ==
  /\ "element out" \in pending[m] /\ m \in instance
  /\ displayed' = displayed \ {m}
  /\ isTransitioning' = isTransitioning \ {m}
  /\ pending' = [pending EXCEPT ![m] = (@ \ {"element out"}) \cup {"backdrop out"}]
  /\ UNCHANGED <<instance, isShown, backdrops, modalOpen, focusTrap, resizing>>

\* The end of the backdrop, the latest there is, up to the event "hidden".
RemoveBackdrop(m) ==
  /\ "backdrop out" \in pending[m] /\ m \in instance
  /\ backdrops' = [backdrops EXCEPT ![m] = @ - 1]
  /\ ResetScrollbar

\* dispose, called when "hidden" is triggered: the handlers are those of all.
Dispose(m) ==
  /\ instance' = instance \ {m}
  /\ isShown' = isShown \ {m}
  /\ isTransitioning' = isTransitioning \ {m}
  /\ focusTrap' = NoModal
  /\ resizing' = {}

=============================================================================
