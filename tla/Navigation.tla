------------------------------- MODULE Navigation -------------------------------
(***************************************************************************)
(* The menu, the sidebar and the pages of the site (nav.js, app.js).       *)
(*                                                                         *)
(* createNavViewModel makes one item per page and marks the one of the     *)
(* current address; choosing an item marks it, unmarks the others of its   *)
(* list and tells app.js, which shows the item's page.  "log in" is made   *)
(* with its arguments one place off: it becomes a header, which the menu   *)
(* shows as a list without entries, so it can never be chosen.             *)
(***************************************************************************)
EXTENDS Naturals, FiniteSets, Sequences

CONSTANTS
  Addresses,  \* addresses that serve the page, as sets of the parts below
  NoItem      \* no current item

VARIABLES
  current,  \* the item that the menu names as the current one
  active,   \* item -> whether it is marked
  page,     \* the page that is shown
  section   \* the section of the configuration page that is shown

navVars == <<current, active, page, section>>

Pages == {"dashboard", "config", "settings"}

\* itemsMasterList, whose items are the page's.
Listed == Pages

Items == Listed \cup {"log in"}

Sections == {"secrets", "services", "policies"}

ASSUME NavigationAssumption == NoItem \notin Items

-----------------------------------------------------------------------------
(* Where the browser is.                                                   *)

\* The parts of an address that getCurrentPath looks for, in its order.
Parts ==
  <<"/private/game", "/private", "/home/demo", "/home/about", "/home/tou", "/home/privacy">>

PathOfPart ==
  <<"game", "private", "demo", "about", "tou", "privacy">>

\* The path of the first part that the address has, "home" if it has none.
CurrentPath(address) ==
  LET found == {i \in DOMAIN Parts : Parts[i] \in address}
  IN IF found = {} THEN "home" ELSE PathOfPart[CHOOSE i \in found : \A j \in found : i <= j]

\* The container of the menu: paths without one of their own are at home.
MenuContainer(path) ==
  IF path \in {"home", "private", "game", "demo", "profile", "login", "signup", "about"}
  THEN path ELSE "home"

-----------------------------------------------------------------------------
(* Building the menu and the pages.                                        *)

\* The items that are marked from the start.
ActiveIn(container) ==
  [i \in Items |-> \/ i = "dashboard" /\ container = "home"
                   \/ i \in {"config", "settings"} /\ container = "demo"]

\* The last item marked is the current one.
CurrentIn(container) ==
  CASE container = "home" -> "dashboard"
    [] container = "demo" -> "settings"
    [] OTHER -> NoItem

\* Until the view model is made nothing is shown.
NavInit ==
  /\ current = NoItem
  /\ active = [i \in Items |-> FALSE]
  /\ page = "none"
  /\ section = "none"

\* createNavViewModel for an address, and the pages of createViewModel.
CreateNavigation(address) ==
  LET container == MenuContainer(CurrentPath(address))
  IN /\ active' = ActiveIn(container)
     /\ current' = CurrentIn(container)
     /\ page' = "dashboard"
     /\ section' = "secrets"

-----------------------------------------------------------------------------
(* Choosing.                                                               *)

\* The items that can be chosen: the sidebar shows those of the list.
Choosable == {i \in Items : page # "none" /\ i \in Listed}

\* The item is marked and no other of its list is.
Mark(item) == active' = [i \in Items |-> i = item \/ (active[i] /\ i \notin Listed)]

\* onMenuItemChanged: the page of the tag, if there is one.
ShowPageOf(item) == page' = IF item \in Pages THEN item ELSE page

Select(item) ==
  /\ item \in Choosable
  /\ current' = item
  /\ Mark(item)
  /\ ShowPageOf(item)
  /\ UNCHANGED section

SelectSection(s) ==
  /\ page = "config"
  /\ section' = s
  /\ UNCHANGED <<current, active, page>>

=============================================================================
