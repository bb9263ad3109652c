--------------------------------- MODULE Dropdown --------------------------------
(***************************************************************************)
(* Bootstrap's dropdowns (dropdown.js) as the site has them: lists of the  *)
(* menu and the durations of the dashboard, opened by their toggle.        *)
(*                                                                         *)
(* The first click on a toggle is handled at the document, which makes the *)
(* Dropdown; the Dropdown handles the later ones itself and stops them on  *)
(* their way up.  Every other click, and the tab key, closes the menus.    *)
(***************************************************************************)
EXTENDS Integers, FiniteSets, Sequences

CONSTANTS
  Toggles,    \* the toggles, each with a menu, that can have the focus
  MenuItems   \* how many items a menu has

ASSUME DropdownAssumption == MenuItems \in Nat

VARIABLES
  dropdowns,  \* toggles that have a Dropdown
  open,       \* toggles whose menu and parent have the class "show"
  expanded,   \* toggles with aria-expanded
  focus,      \* <<toggle, 0>>, <<toggle, item>>, or <<>> for the page
  tabbing     \* whether the tab key is down

dropdownVars == <<dropdowns, open, expanded, focus, tabbing>>

DropdownInit == dropdowns = {} /\ open = {} /\ expanded = {} /\ focus = <<>> /\ tabbing = FALSE

\* _clearMenus, of all menus but those that are spared.
ClearMenus(spared) ==
  LET closed == (open \cap dropdowns) \ spared
  IN open' = open \ closed /\ expanded' = expanded \ closed

\* toggle: all menus are closed, then this one is opened if it was not open.
\* The toggle that was clicked has the focus.
ToggleMenu(t) ==
  /\ dropdowns' = dropdowns \cup {t}
  /\ focus' = <<t, 0>>
  /\ IF t \in open THEN ClearMenus({})
     ELSE /\ open' = (open \ dropdowns) \cup {t}
          /\ expanded' = (expanded \ dropdowns) \cup {t}
  /\ UNCHANGED tabbing

\* Either handler stops the click, so there is one toggle for each.
ClickToggle(t) == ToggleMenu(t)

\* An item, or anything else on the page: the focus is lost with the menu.
ClickPage ==
  /\ ClearMenus({})
  /\ focus' = <<>>
  /\ UNCHANGED <<dropdowns, tabbing>>

HasFocus(t) == focus # <<>> /\ focus[1] = t

\* _dataApiKeydownHandler for the arrows: a closed menu is opened, the focus
\* moves within an open one and stops at its ends.
ArrowKey(t, by) ==
  /\ HasFocus(t)
  /\ IF t \notin open THEN ClickToggle(t)
     ELSE /\ LET to == focus[2] + by
             IN focus' = IF MenuItems = 0 THEN focus
                         ELSE <<t, CASE to < 1 -> 1 [] to > MenuItems -> MenuItems [] OTHER -> to>>
          /\ UNCHANGED <<dropdowns, open, expanded, tabbing>>

\* The same for the escape key, which opens a closed menu as well.
EscapeKey(t) ==
  /\ HasFocus(t)
  /\ IF t \notin open THEN ClickToggle(t)
     ELSE /\ ClearMenus({})
          /\ focus' = <<t, 0>>
          /\ UNCHANGED <<dropdowns, tabbing>>

\* Mutant: the tab key closes nothing.
SparedAll(place) == open

\* The menu that has the focus stays open.
Spared(place) == IF place = <<>> THEN {} ELSE {place[1]}

\* The browser moves the focus when the tab key goes down, and again while it is
\* held.  No handler acts on it, so that a menu stays open behind the focus.
TabDown(place) ==
  /\ place # <<>> /\ place[2] > 0 => place[1] \in open
  /\ focus' = place
  /\ tabbing' = TRUE
  /\ UNCHANGED <<dropdowns, open, expanded>>

\* _clearMenus when a key goes up: tab is the only one it acts on.
TabUp ==
  /\ tabbing
  /\ ClearMenus(Spared(focus))
  /\ tabbing' = FALSE
  /\ UNCHANGED <<dropdowns, focus>>

FocusPlaces == {<<>>} \cup (Toggles \X (0..MenuItems))

DropdownNext ==
  \/ ClickPage
  \/ \E t \in Toggles : ClickToggle(t) \/ EscapeKey(t) \/ \E by \in {-1, 1} : ArrowKey(t, by)
  \/ \E place \in FocusPlaces : TabDown(place)

(***************************************************************************)
(* Whatever the user clicks and types, one menu at most is open; the focus *)
(* is in it, unless a dialog took it or the tab key is still down; it      *)
(* tells assistive technology that it is open; and the focus is never in a *)
(* closed menu.                                                            *)
(***************************************************************************)
MenusConsistent ==
  /\ Cardinality(open) <= 1 /\ open \subseteq dropdowns
  /\ \A t \in open : HasFocus(t) \/ focus = <<>> \/ tabbing
  /\ expanded = open
  /\ focus # <<>> /\ focus[2] > 0 => focus[1] \in open

=============================================================================
