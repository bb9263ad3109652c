------------------------------ MODULE Dashboard ------------------------------
(***************************************************************************)
(* The lists of the management site: policies, services, secrets and       *)
(* transactions, as app.js loads, links and pages them.                    *)
(*                                                                         *)
(* Each list is a section.  A refresh empties it and asks the server; the  *)
(* answers of the four sections come back in any order.  An item comes     *)
(* with a shallow copy of its parent, of which only the id is right, and   *)
(* is linked to the parent of that id when there is one: on arrival, to    *)
(* what the parent's section holds, and later whenever a parent arrives.   *)
(* JavaScript runs an answer to its end, so each action is one turn of the *)
(* event loop.                                                             *)
(*                                                                         *)
(* An item is [id, parent, load]: its id, the id of its parent, and the    *)
(* number of the load that made it, which tells it from the object that    *)
(* another load made of the same record.                                   *)
(***************************************************************************)
EXTENDS Naturals, FiniteSets, FiniteSetsExt, SequencesExt

CONSTANTS
  Answers,   \* section -> answers it can get, sequences of [id, parent]
  NoParent,  \* an item that refers to no parent
  PageSize,  \* items on a page (the code has 10)
  MaxLoads   \* bound on the loads of all sections together

ListSections == {"policies", "services", "secrets", "transactions"}

\* The section an item of a section refers to.
Parent == [services |-> "policies", secrets |-> "services", transactions |-> "secrets"]

Children(s) == {c \in DOMAIN Parent : Parent[c] = s}

ASSUME BoundsAssumption == PageSize \in Nat \ {0} /\ MaxLoads \in Nat

\* The server sends a record once: ids are the keys of its store.
ASSUME AnswersAssumption ==
  \A s \in ListSections : \A a \in Answers[s] :
    a \in Seq(ToSet(a)) /\ \A i, j \in DOMAIN a : a[i].id = a[j].id => i = j

VARIABLES
  awaited,  \* section -> whether an answer is due
  loads,    \* section -> how many loads it has begun
  items,    \* section -> the items it holds
  link,     \* section -> item -> load of the parent instance, 0 for the copy
  pages,    \* section -> the pages of its table
  selected  \* section -> the page that is selected, 0 for none

listVars == <<awaited, loads, items, link, pages, selected>>

-----------------------------------------------------------------------------
(* Paging: paginatedCollection.                                            *)

\* Mutant: the last page has to be full.
FullPagesOnly(list) ==
  [p \in 1..(Len(list) \div PageSize) |-> SubSeq(list, (p - 1) * PageSize + 1, p * PageSize)]

\* The pages of a list: all full, except that the last one may be shorter.
Paginate(list) ==
  [p \in 1..((Len(list) + PageSize - 1) \div PageSize) |->
     SubSeq(list, (p - 1) * PageSize + 1, Min({p * PageSize, Len(list)}))]

SelectFirstPage(s) ==
  selected' = [selected EXCEPT ![s] = IF pages'[s] = <<>> THEN 0 ELSE 1]

-----------------------------------------------------------------------------
(* Linking.                                                                *)

\* The load of the item of the list that has the id, or 0.
InstanceIn(list, id) ==
  LET found == {o \in ToSet(list) : o.id = id}
  IN IF found = {} THEN 0 ELSE (CHOOSE o \in found : TRUE).load

\* Items that are on a page can still be seen when their section has others.
Alive(s) == ToSet(items[s]) \cup ToSet(FlattenSeq(pages[s]))

\* The arrivals of section s are linked to what the parent's section holds.
Extend(s, o) == IF s \in DOMAIN Parent THEN InstanceIn(items[Parent[s]], o.parent) ELSE 0

\* Mutant: an item whose parent did not arrive loses its link.
RelinkAll(arrivals, o, linked) == InstanceIn(arrivals, o.parent)

\* An item is linked to its parent among the arrivals, if it is there.
Relink(arrivals, o, linked) ==
  LET load == InstanceIn(arrivals, o.parent) IN IF load = 0 THEN linked ELSE load

\* Mutant: the other sections do not hear of arrivals.
LinkArrivals(s) ==
  link' = [link EXCEPT ![s] = [o \in Alive(s)' |->
             IF o \in DOMAIN @ THEN @[o] ELSE Extend(s, o)]]

\* All links when the answer of section s has arrived.  Only what a section
\* holds is relinked: onPoliciesChanged, onServicesChanged, onSecretsChanged.
LinkItems(s) ==
  link' = [t \in ListSections |->
    IF t = s THEN [o \in Alive(s)' |-> Extend(s, o)]
    ELSE [o \in DOMAIN link[t] |->
            IF t \in Children(s) /\ o \in ToSet(items[t])
            THEN Relink(items'[s], o, link[t][o]) ELSE link[t][o]]]

-----------------------------------------------------------------------------
(* Turns of the event loop.                                                *)

\* When the page is built, it asks for all four lists.
DashboardInit ==
  /\ awaited = [s \in ListSections |-> TRUE]
  /\ loads = [s \in ListSections |-> 1]
  /\ items = [s \in ListSections |-> <<>>]
  /\ link = [s \in ListSections |-> [o \in {} |-> 0]]
  /\ pages = [s \in ListSections |-> <<>>]
  /\ selected = [s \in ListSections |-> 0]

\* The button of the section (and the choice of a duration): ignored while an
\* answer is due.  The pages stay as they are.
RefreshList(s) ==
  /\ ~awaited[s]
  /\ SumFunction(loads) < MaxLoads
  /\ awaited' = [awaited EXCEPT ![s] = TRUE]
  /\ loads' = [loads EXCEPT ![s] = @ + 1]
  /\ items' = [items EXCEPT ![s] = <<>>]
  /\ UNCHANGED <<link, pages, selected>>

Arrivals(s, answer) ==
  [i \in DOMAIN answer |-> [id |-> answer[i].id, parent |-> answer[i].parent, load |-> loads[s]]]

ListArrives(s, answer) ==
  /\ awaited[s]
  /\ items' = [items EXCEPT ![s] = Arrivals(s, answer)]
  /\ pages' = [pages EXCEPT ![s] = Paginate(items'[s])]
  /\ SelectFirstPage(s)
  /\ LinkItems(s)
  /\ awaited' = [awaited EXCEPT ![s] = FALSE]
  /\ UNCHANGED loads

\* The list stays empty, and the table shows what it showed.
ListFails(s) ==
  /\ awaited[s]
  /\ awaited' = [awaited EXCEPT ![s] = FALSE]
  /\ UNCHANGED <<loads, items, link, pages, selected>>

\* The pager is there when there is more than one page, and hidden while an
\* answer is due.
Paging(s) == ~awaited[s] /\ Len(pages[s]) > 1

GoTo(s, p) ==
  /\ selected' = [selected EXCEPT ![s] = p]
  /\ UNCHANGED <<awaited, loads, items, link, pages>>

FirstPage(s) == Paging(s) /\ GoTo(s, 1)

LastPage(s) == Paging(s) /\ GoTo(s, Len(pages[s]))

NextPage(s) == Paging(s) /\ selected[s] < Len(pages[s]) /\ GoTo(s, selected[s] + 1)

PreviousPage(s) == Paging(s) /\ selected[s] > 1 /\ GoTo(s, selected[s] - 1)

SelectPage(s) == Paging(s) /\ \E p \in DOMAIN pages[s] : GoTo(s, p)

Turn(s) ==
  \/ RefreshList(s)
  \/ \E answer \in Answers[s] : ListArrives(s, answer)
  \/ ListFails(s)
  \/ FirstPage(s)
  \/ LastPage(s)
  \/ NextPage(s)
  \/ PreviousPage(s)
  \/ SelectPage(s)

DashboardNext == \E s \in ListSections : Turn(s)

DashboardSpec == DashboardInit /\ [][DashboardNext]_listVars

-----------------------------------------------------------------------------
(* Properties.                                                             *)

TypeOK ==
  /\ awaited \in [ListSections -> BOOLEAN]
  /\ loads \in [ListSections -> 1..MaxLoads]
  /\ \A s \in ListSections :
       /\ \A o \in Alive(s) : o.load \in 1..loads[s]
       /\ Alive(s) \subseteq DOMAIN link[s]
       /\ \A o \in DOMAIN link[s] :
            link[s][o] \in 0..(IF s \in DOMAIN Parent THEN loads[Parent[s]] ELSE 0)
       /\ selected[s] \in 0..Len(pages[s])
       /\ selected[s] = 0 => pages[s] = <<>>

(***************************************************************************)
(* Whatever the order in which sections are refreshed and answered, an     *)
(* item refers to the very instance of its parent that is in the parent's  *)
(* list, if there is one of that id ("if services are refreshed after      *)
(* secrets are fetched, secrets that depend on the service(s) need to be   *)
(* updated to use refreshed service", app.js:399).                         *)
(***************************************************************************)
LinkedToLoaded ==
  \A s \in DOMAIN Parent : \A o \in ToSet(items[s]) :
    LET instance == InstanceIn(items[Parent[s]], o.parent)
    IN instance # 0 => link[s][o] = instance

(***************************************************************************)
(* Nor does the table ever go back: as long as an item can be seen, the    *)
(* instance of its parent is only replaced by one of a later load, and a   *)
(* refresh of the parents that fails, or that no longer has the parent,    *)
(* leaves the item the one it had.                                         *)
(***************************************************************************)
LinksOnlyRenewed ==
  [][\A s \in ListSections : \A o \in Alive(s) \cap Alive(s)' : link'[s][o] >= link[s][o]]_listVars

(***************************************************************************)
(* A list that was loaded can be paged through from its first item to its  *)
(* last, without one missing or repeated, no page is longer than it may    *)
(* be, and the page that is selected is one of them: also after a refresh  *)
(* that brought fewer.                                                     *)
(***************************************************************************)
PagesShowItems ==
  \A s \in ListSections :
    /\ items[s] # <<>> => FlattenSeq(pages[s]) = items[s]
    /\ \A p \in DOMAIN pages[s] : Len(pages[s][p]) \in 1..PageSize
    /\ pages[s] # <<>> => selected[s] \in DOMAIN pages[s]

=============================================================================
