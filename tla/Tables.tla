---------------------------------- MODULE Tables ----------------------------------
(***************************************************************************)
(* The configuration page as knockout shows it: the badge with the number  *)
(* of services, the tab of each section, marked on the one that is         *)
(* selected, the table of secrets while its section is selected, one       *)
(* row for each secret of the page of the list, and the editor of a        *)
(* service.  The text of a row is the name of the secret's service         *)
(* (serviceNameText, entities.js), a pure computed, so that it follows     *)
(* both which service the secret refers to and how that service is called. *)
(* A row also has its number, as the pager's rows have theirs ($index).    *)
(*                                                                         *)
(* The site changes the list of a page while it is not shown only; foreach *)
(* promises to follow at any time, and every operation of an observable    *)
(* array is an action here.                                                *)
(***************************************************************************)
EXTENDS Naturals, Sequences, SequencesExt, FiniteSets

CONSTANTS
  Secrets, Instances, \* instances of one service: what each load creates
  Texts, NotAvailable, Sections, SecretsSection, None, Nothing, Untracked, NoDiff

VARIABLE page \* the engine, and what the document shows

(***************************************************************************)
(* Sources and computeds.                                                  *)
(***************************************************************************)
Section == <<"section">>
Items == <<"items">>
Services == <<"services">>
Service(x) == <<"service", x>>
Name(i) == <<"name", i>>
Index(x) == <<"index", x>>
Text(x) == <<"text", x>>

With == <<"with">>
Badge == <<"badge">>
Tab(s) == <<"tab", s>>
Cell(x) == <<"cell", x>>
Number(x) == <<"number", x>>
Input(i) == <<"input", i>>

Pure == {Text(x) : x \in Secrets}
Cells == {Cell(x) : x \in Secrets} \cup {Number(x) : x \in Secrets}
Inputs == {Input(i) : i \in Instances}
Tabs == {Tab(s) : s \in Sections}
Computeds == Pure \cup Cells \cup Inputs \cup Tabs \cup {With, Badge}
Arrays == {Items, Services}
Sources == Arrays \cup Pure \cup {Section} \cup {Service(x) : x \in Secrets} \cup {Index(x) : x \in Secrets} \cup {Name(i) : i \in Instances}

\* The first read of a computed.
FirstRead(c) ==
  CASE c = With \/ c \in Tabs -> Section
    [] c = Badge -> Services
    [] c[1] = "text" -> Service(c[2])
    [] c[1] = "cell" -> Text(c[2])
    [] c[1] = "number" -> Index(c[2])
    [] c[1] = "input" -> Name(c[2])

\* serviceNameText goes on to read the name of the service it has read.
Reads(c, got) ==
  IF got = <<>> THEN FirstRead(c)
  ELSE IF c \in Pure /\ Len(got) = 1 /\ got[1] # None THEN Name(got[1])
  ELSE Nothing

Shows(c, got) ==
  IF c = Badge THEN Len(got[1])
  ELSE IF c \in Tabs THEN got[1] = c[2]
  ELSE IF c \in Pure /\ got[1] = None THEN NotAvailable
  ELSE Last(got)

Primitive(v) == v \notin Instances \cup Sections

INSTANCE ObservableArrays WITH Pures <- Pure, IsPrimitive <- Primitive, NextRead <- Reads, NoRead <- Nothing, Result <- Shows

(***************************************************************************)
(* The document.  page.rows are the rows that foreach knows of and         *)
(* page.dom their nodes in the document; page.live are the bindings that   *)
(* are not disposed of; page.editing, page.field and page.typed are the    *)
(* instance in the editor, the text in its field, and whether a key was    *)
(* pressed whose text is not written to it yet.                            *)
(***************************************************************************)
\* A binding of a node: its computed is evaluated at once.
Bind(e, c) == Computed([e EXCEPT !.live = @ \cup {c}], c)

\* cleanNode: the computeds of a node that is removed are disposed of.
CleanNode(e, c) == [Dispose([e EXCEPT !.live = @ \ {c}], c) EXCEPT !.value[c] = None]

BindRow(e, x) == Bind(Bind(e, Cell(x)), Number(x))

\* A new row has an index of its own.
RenderRow(e, x, i) == BindRow([e EXCEPT !.value[Index(x)] = i], x)
RemoveRow(e, x) == [CleanNode(CleanNode(e, Cell(x)), Number(x)) EXCEPT !.value[Index(x)] = None]

RenderRows(e, rows, chosen) ==
  FoldLeft(LAMBDA f, i : RenderRow(f, rows[i], i), e, SelectSeq([i \in DOMAIN rows |-> i], LAMBDA i : rows[i] \in chosen))

\* renderTemplateForEach: the rows first, then the subscription.
RenderForEach(e) ==
  LET rows == e.value[Items]
  IN SubscribeChanges(RenderRows([e EXCEPT !.rows = rows, !.dom = rows], rows, Secrets), "foreach", Items)

RemoveRows(e, rows) == FoldLeft(RemoveRow, e, rows)

\* The subscription is disposed of with the node of the table.
LeaveItems(e) ==
  IF Contains(e.listeners[Items], "foreach") THEN UnsubscribeChanges(e, "foreach", Items) ELSE e

EmptyTable(e) == LeaveItems(RemoveRows([e EXCEPT !.rows = <<>>, !.dom = <<>>], e.rows))

\* The template of the section; the others have no table that is followed.
RenderTemplate(e) == IF e.value[Section] = SecretsSection THEN RenderForEach(e) ELSE e

\* "with": the content is bound anew on every change, even to the same.
RenderWith(e) == RenderTemplate(EmptyTable(Evaluate(e, With).e))

Writing(x, v) == [do |-> "write", who |-> x, of |-> x, value |-> v]

\* itemMovedOrRetained: a row that stays is told its position.
WriteIndexes(rows, new) ==
  LET kept == SelectSeq([i \in DOMAIN rows |-> i], LAMBDA i : rows[i] \notin new)
  IN [k \in DOMAIN kept |-> Writing(Index(rows[kept[k]]), kept[k])]

\* setDomNodeChildrenFromArrayMapping, with what became of the script.
Follow(e, result, rows, new) ==
  RenderRows(RemoveRows([e EXCEPT !.turn = WriteIndexes(rows, new) \o @,
                                  !.rows = rows,
                                  !.dom = Rearranged(@, result, [x \in Secrets |-> x])],
                        SetToSeq(result.gone)),
             rows, new)

FollowResult(e, result) ==
  Follow(e, result, [i \in DOMAIN result.rows |-> result.rows[i].row],
         {result.rows[i].row : i \in {j \in DOMAIN result.rows : result.rows[j].new}})

FollowChanges(e, script) == FollowResult(e, ApplyScript(e.rows, script, Len(e.value[Items])))

\* onServicesChanged (app.js): secrets that have the service get the new
\* instance of it.
Relink(e, script) ==
  LET added == SelectSeq(script, LAMBDA entry : entry.status = "added")
      having == SetToSeq({x \in Secrets : e.value[Service(x)] # None})
      writes(entry) == [k \in DOMAIN having |-> Writing(Service(having[k]), entry.value)]
  IN [e EXCEPT !.turn = FoldLeft(LAMBDA acc, entry : acc \o writes(entry), <<>>, added) \o @]

\* updateFromModel of the value binding.
ShowField(e, c) == [e EXCEPT !.field = e.value[c]]

UpdateField(e, c) == ShowField(Respond(e, c), c)

(***************************************************************************)
(* A turn: one call at a time, until none is left.                         *)
(***************************************************************************)
MakeCall(e, call) ==
  CASE call.do = "done" -> e
    [] call.do = "write" -> Write(e, call.of, call.value)
    [] call.do = "changes" -> IF call.who = "foreach" THEN FollowChanges(e, call.changes) ELSE Relink(e, call.changes)
    [] call.do = "call" /\ call.who = With -> RenderWith(e)
    [] call.do = "call" /\ call.who = Tracker(call.of) -> NotifyChanges(e, call.of)
    [] call.do = "call" /\ call.who \in Inputs -> UpdateField(e, call.who)
    [] OTHER -> Respond(e, call.who)

RECURSIVE Turn(_)
Turn(e) == IF e.turn = <<>> THEN e ELSE Turn(MakeCall([e EXCEPT !.turn = Tail(@)], Head(e.turn)))

(***************************************************************************)
(* Init: the page is bound, with whatever secrets and services it has.     *)
(***************************************************************************)
Unbound(service, name) ==
  [value |-> [x \in Sources \cup Computeds |->
                CASE x \in Arrays -> <<>>
                  [] x = Section -> SecretsSection
                  [] x[1] = "service" -> service[x[2]]
                  [] x[1] = "name" -> name[x[2]]
                  [] OTHER -> None],
   deps |-> [c \in Computeds |-> <<>>],
   subs |-> [x \in Sources \cup Computeds |-> <<>>],
   outdated |-> {}, stale |-> Pure, asleep |-> Pure, turn |-> <<>>,
   listeners |-> [a \in Arrays |-> <<>>],
   previous |-> [a \in Arrays |-> Untracked],
   pending |-> [a \in Arrays |-> 0],
   diff |-> [a \in Arrays |-> NoDiff],
   live |-> {}, rows |-> <<>>, dom |-> <<>>,
   editing |-> None, field |-> None, typed |-> FALSE]

\* startListening, then applyBindings.
Bound(e) ==
  LET f == FoldLeft(Bind, SubscribeChanges(e, "relink", Services), SetToSeq(Tabs))
  IN RenderWith(Bind(Bind(f, Badge), With))

Init == \E service \in [Secrets -> Instances \cup {None}], name \in [Instances -> Texts] :
          page = Turn(Bound(Unbound(service, name)))

(***************************************************************************)
(* Actions: each is one event, with the whole turn that follows from it.   *)
(***************************************************************************)

\* The click binding: the handler, and what follows from it.
Click(e) == page' = Turn(e)

SelectSection(s) == Click(Write(page, Section, s))

Listed == page.value[Items]

\* The list of the page changes, in each of the ways an array has.
ListOperations ==
  LET absent == Secrets \ ToSet(Listed)
      places == 1 .. Len(Listed) + 1
  IN {Push(page, Items, x) : x \in absent}
     \cup {Unshift(page, Items, x) : x \in absent}
     \cup {Splice(page, Items, i, count, <<x>>) : x \in absent, i \in places, count \in 0 .. 1}
     \cup {ReplaceItem(page, Items, y, x) : x \in absent, y \in ToSet(Listed)}
     \cup {RemoveItem(page, Items, x) : x \in Secrets}
     \cup {WriteArray(page, Items, s) : s \in SetToAllKPermutations(Secrets)}
     \cup {Pop(page, Items), Shift(page, Items), ReverseArray(page, Items), RemoveAll(page, Items)}

ListChanges == \E e \in ListOperations : page' = Turn(e)

\* A refresh of the services empties their list, and the answer fills it.
RefreshServices == page' = Turn(RemoveAll(page, Services))

ServiceArrives(i) ==
  /\ page.value[Services] = <<>>
  /\ page' = Turn(Push(page, Services, i))

\* A secret that arrives refers to the instance that is listed (extend).
ExtendSecret(x) ==
  /\ page.value[Service(x)] # None
  /\ page.value[Services] # <<>>
  /\ page' = Turn(Write(page, Service(x), Head(page.value[Services])))

\* The button is in the table of services.
OpenEditor(i) ==
  /\ page.editing = None
  /\ page.value[Section] # SecretsSection
  /\ Contains(page.value[Services], i)
  /\ LET e == Bind(page, Input(i)) IN Click([e EXCEPT !.editing = i, !.field = e.value[Input(i)]])

\* valueUpdate "afterkeydown": the text is written when the key is done.
KeyDown(t) ==
  /\ page.editing # None
  /\ page' = [page EXCEPT !.field = t, !.typed = TRUE]

AfterKeyDown ==
  /\ page.typed
  /\ page' = Turn(Write([page EXCEPT !.typed = FALSE], Name(page.editing), page.field))

CloseEditor ==
  /\ page.editing # None /\ ~page.typed
  /\ Click([CleanNode(page, Input(page.editing)) EXCEPT !.editing = None, !.field = None])

Next ==
  \/ \E s \in Sections : SelectSection(s)
  \/ ListChanges
  \/ RefreshServices
  \/ \E i \in Instances : ServiceArrives(i) \/ OpenEditor(i)
  \/ \E x \in Secrets : ExtendSecret(x)
  \/ \E t \in Texts : KeyDown(t)
  \/ AfterKeyDown
  \/ CloseEditor

Spec == Init /\ [][Next]_page

(***************************************************************************)
(* What the document shows is what the view models say: the rows are those *)
(* of the list, in its order and numbered, each has the name its secret's  *)
(* service has now, and the badge, the tabs and the editor agree with them *)
(* -- however often rows, instances and names were changed while nobody    *)
(* looked, and the computeds in between slept.                             *)
(***************************************************************************)
TextOf(x) == LET s == page.value[Service(x)] IN IF s = None THEN NotAvailable ELSE page.value[Name(s)]

RowsShown == IF page.value[Section] = SecretsSection THEN Listed ELSE <<>>

ViewCurrent ==
  /\ page.rows = RowsShown
  /\ page.dom = RowsShown
  /\ \A i \in DOMAIN RowsShown : /\ page.value[Cell(RowsShown[i])] = TextOf(RowsShown[i])
                                 /\ page.value[Number(RowsShown[i])] = i
  /\ page.value[Badge] = Len(page.value[Services])
  /\ \A s \in Sections : page.value[Tab(s)] = (s = page.value[Section])
  /\ page.editing # None /\ ~page.typed => page.field = page.value[Name(page.editing)]

(***************************************************************************)
(* Nothing subscribes that need not: the bindings that live are those of   *)
(* what is shown, they and the pure computeds that are awake subscribe     *)
(* once to each thing they read and to nothing else, and a pure computed   *)
(* sleeps as soon as nobody subscribes to it.                              *)
(***************************************************************************)
NothingLeftOver ==
  /\ page.live = {With, Badge} \cup Tabs \cup {Cell(x) : x \in ToSet(RowsShown)} \cup {Number(x) : x \in ToSet(RowsShown)}
                 \cup (IF page.editing = None THEN {} ELSE {Input(page.editing)})
  /\ SubscriptionsExact(page, page.live)
  /\ \A a \in Arrays : TrackingExact(page, a)

=============================================================================
