---------------------------------- MODULE Site ----------------------------------
(***************************************************************************)
(* The page of the management site, from the loading of its templates to   *)
(* the lists, the chart and the menu that a user sees: common.js and       *)
(* Index.cshtml start it, app.js puts it together.  Loaders and Navigation *)
(* are its parts; each action is one turn of the browser's event loop.     *)
(*                                                                         *)
(* The templates arrive in any order, and one that cannot be had counts    *)
(* as arrived.  When all have arrived the view model is made, all lists    *)
(* are asked for, and the view model is bound to the page.  From then on   *)
(* answers, refreshes and choices of the user follow in any order.  The    *)
(* chart is drawn into the dashboard when transactions arrive, and is gone *)
(* as soon as the page is rendered again, which any choice of an item of   *)
(* the menu does, even of the one that is chosen.                          *)
(***************************************************************************)
EXTENDS Loaders, Navigation

CONSTANTS
  Templates,     \* the templates that the page names
  Placeholders,  \* those with a placeholder on the page
  Roots,         \* those to which the view model is bound
  Durations,     \* the durations of the dashboard
  DefaultDuration,
  NoDuration     \* no transactions were asked for, or came, yet

ASSUME SiteAssumption ==
  /\ IsFiniteSet(Templates) /\ Templates # {}
  /\ Roots \subseteq Placeholders /\ Placeholders \subseteq Templates
  /\ "tracking" \in Kinds /\ DefaultDuration \in Durations /\ NoDuration \notin Durations

\* Home/Index is the only action that serves the page, and its addresses have at
\* most three parts (Startup.cs:66): none of them has /home/demo.
ASSUME AddressAssumption == \A address \in Addresses : CurrentPath(address) # "demo"

VARIABLES
  started,    \* the requests for the templates have been sent
  listening,  \* the page waits for the templates
  arrived,    \* templates that arrived
  placed,     \* placeholders that gave way to an element of their template
  bound,      \* root -> what the view model was bound to
  chosen,     \* the duration that is chosen
  asked,      \* the duration of the last load of transactions
  range,      \* the duration of the transactions that are shown
  missed,     \* whether the choice was not acted on, or in vain
  drawn       \* the version that the chart shows, 0 where there is no chart

startVars == <<started, listening, arrived, placed, bound>>
dashboardVars == <<chosen, asked, range, missed, drawn>>
vars == <<loaderVars, navVars, startVars, dashboardVars>>

-----------------------------------------------------------------------------
(* Starting.                                                               *)

Init ==
  /\ LoadersInit
  /\ NavInit
  /\ started = FALSE
  /\ listening = FALSE
  /\ arrived = {}
  /\ placed = {}
  /\ bound = [r \in Roots |-> "nothing"]
  /\ chosen = DefaultDuration
  /\ asked = NoDuration
  /\ range = NoDuration
  /\ missed = FALSE
  /\ drawn = 0

\* createViewModel asks for all lists.
AskForLists ==
  /\ requests' = {ListRequest(0, k) : k \in Kinds}
  /\ made' = Cardinality(Kinds)
  /\ loading' = [k \in Kinds |-> TRUE]
  /\ asked' = chosen
  /\ UNCHANGED <<stored, shown, told, chosen, range, missed, drawn>>

\* applyBindings takes the whole document where it is given no element.
BindRoots ==
  bound' = [r \in Roots |-> IF r \in placed' THEN "element" ELSE "document"]

\* The templates are all there, and the page waits for them.
CreateViewModel ==
  /\ \E address \in Addresses : CreateNavigation(address)
  /\ AskForLists
  /\ BindRoots

StayWithoutViewModel == UNCHANGED <<loaderVars, navVars, dashboardVars, bound>>

\* common.js asks for every template.
LoadTemplates ==
  /\ ~started
  /\ started' = TRUE
  /\ UNCHANGED <<listening, arrived, placed>>
  /\ StayWithoutViewModel

\* Index.cshtml waits for the templates, which may all be there already.
Listen ==
  /\ started /\ ~listening
  /\ listening' = TRUE
  /\ UNCHANGED <<started, arrived, placed>>
  /\ IF arrived = Templates THEN CreateViewModel ELSE StayWithoutViewModel

\* Mutant: the first template completes the loader.
AnyArrived == arrived' # {}

\* expecting === loaded
AllArrived == Cardinality(arrived') = Cardinality(Templates)

\* A template arrives, or cannot be had: its element is empty then.
TemplateArrives(t) ==
  /\ started /\ t \notin arrived
  /\ arrived' = arrived \cup {t}
  /\ placed' = placed \cup ({t} \cap Placeholders)
  /\ UNCHANGED <<started, listening>>
  /\ IF AllArrived /\ listening /\ page = "none" THEN CreateViewModel ELSE StayWithoutViewModel

-----------------------------------------------------------------------------
(* The user.                                                               *)

\* Rendering the page again leaves the chart's element empty.
SelectItem(i) ==
  /\ Select(i)
  /\ drawn' = 0
  /\ UNCHANGED <<loaderVars, startVars, chosen, asked, range, missed>>

SelectSectionOfConfig(s) ==
  /\ SelectSection(s)
  /\ UNCHANGED <<loaderVars, startVars, dashboardVars>>

\* The section's button, which is on the section's page.
Refresh(k) ==
  /\ page # "none"
  /\ page = (IF k = "tracking" THEN "dashboard" ELSE "config")
  /\ RefreshSection(k)
  /\ asked' = IF k = "tracking" THEN chosen ELSE asked
  /\ missed' = IF k = "tracking" THEN FALSE ELSE missed
  /\ UNCHANGED <<navVars, startVars, chosen, range, drawn>>

\* A duration is chosen while no answer is due: the transactions are asked for.
SelectDuration(d) ==
  /\ page = "dashboard"
  /\ chosen' = d
  /\ RefreshSection("tracking")
  /\ asked' = d
  /\ missed' = FALSE
  /\ UNCHANGED <<navVars, startVars, range, drawn>>

\* A duration is chosen while an answer is due: nothing is asked for.
SelectDurationTooSoon(d) ==
  /\ page = "dashboard" /\ loading["tracking"]
  /\ chosen' = d
  /\ missed' = TRUE
  /\ UNCHANGED <<loaderVars, navVars, startVars, asked, range, drawn>>

\* What the modules offer to scripts beyond the page: no template or script calls
\* it today, and nothing but its misplaced callbacks keeps the answer for an item
\* from replacing a newer list.
UseItem(k) ==
  /\ RefreshItem(k) \/ ChangeItem(k) \/ GetTransaction(k)
  /\ UNCHANGED <<navVars, startVars, dashboardVars>>

-----------------------------------------------------------------------------
(* The server.                                                             *)

\* Mutant: the chart is drawn whichever page is shown.
DrawAlways(r) ==
  drawn' = IF r.kind = "tracking" /\ r.op = "getAll" THEN r.version ELSE drawn

\* rebuildCharts finds the chart's element on the dashboard only.
DrawChart(r) ==
  drawn' = IF r.kind = "tracking" /\ r.op = "getAll" /\ page = "dashboard" THEN r.version ELSE drawn

CompleteRequest(r) ==
  /\ Complete(r)
  /\ DrawChart(r)
  /\ range' = IF r.kind = "tracking" /\ r.op = "getAll" THEN asked ELSE range
  /\ UNCHANGED <<navVars, startVars, chosen, asked, missed>>

\* Whatever the duration was, the table keeps showing what it showed.
FailRequest(r) ==
  /\ Fail(r)
  /\ missed' = (missed \/ (r.kind = "tracking" /\ asked # range))
  /\ UNCHANGED <<navVars, startVars, chosen, asked, range, drawn>>

ServerStep ==
  /\ \/ \E k \in Kinds : page # "none" /\ ChangeStored(k)
     \/ \E r \in requests : Serve(r)
  /\ UNCHANGED <<navVars, startVars, dashboardVars>>

UserStep ==
  \/ \E i \in Items : SelectItem(i)
  \/ \E s \in Sections : SelectSectionOfConfig(s)
  \/ \E k \in Kinds : Refresh(k)
  \/ \E d \in Durations : SelectDuration(d) \/ SelectDurationTooSoon(d)

ScriptStep == \E k \in Kinds : UseItem(k)

Next ==
  \/ LoadTemplates
  \/ Listen
  \/ \E t \in Templates : TemplateArrives(t)
  \/ UserStep
  \/ ScriptStep
  \/ ServerStep
  \/ \E r \in requests : CompleteRequest(r) \/ FailRequest(r)

\* The browser runs what is ready, and every request it sends is answered or
\* fails in the end.
Fairness ==
  /\ WF_vars(LoadTemplates)
  /\ WF_vars(Listen)
  /\ \A t \in Templates : WF_vars(TemplateArrives(t))
  /\ \A k \in Kinds : WF_vars(\E r \in requests : r.kind = k /\ (CompleteRequest(r) \/ FailRequest(r)))
  /\ WF_vars(\E r \in requests : Serve(r) /\ UNCHANGED <<navVars, startVars, dashboardVars>>)

Spec == Init /\ [][Next]_vars /\ Fairness

-----------------------------------------------------------------------------
(* Properties.                                                             *)

(***************************************************************************)
(* The page comes up although templates arrive in any order and some not   *)
(* at all, and no list waits for an answer for ever (its refresh button    *)
(* would be dead, app.js:33): a request that fails sets it free as well.   *)
(***************************************************************************)
ListsComeUp == \A k \in Kinds : []<>(page # "none" /\ ~loading[k])

(***************************************************************************)
(* What a table shows is never replaced by older data, in whatever order   *)
(* answers come: a section does not ask while it waits, and what a script  *)
(* asks for a single item meanwhile reaches no table (entities.js:737).    *)
(***************************************************************************)
NeverOlder == [][\A k \in Kinds : shown'[k] >= shown[k]]_vars

(***************************************************************************)
(* The parts of the page agree, at every moment between the loading of     *)
(* templates, late answers and the user's choices: the view model is bound *)
(* to the elements made for it; one item of the menu is marked, the        *)
(* current one, and its page is shown; the table shows the range that is   *)
(* chosen, unless a choice was missed; a chart that is there shows the     *)
(* same answer as the table.                                               *)
(***************************************************************************)
PageConsistent ==
  /\ page # "none" => \A r \in Roots : bound[r] = "element"
  /\ \A i \in Listed : active[i] <=> current = i
  /\ current # NoItem => page = current
  /\ loading["tracking"] \/ missed \/ range \in {chosen, NoDuration}
  /\ drawn # 0 => page = "dashboard" /\ drawn = shown["tracking"]

=============================================================================
