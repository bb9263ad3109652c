------------------------------- MODULE SiteProofs -------------------------------
(***************************************************************************)
(* Theorems about the management site.  About Site, for all sets of kinds, *)
(* templates, durations and addresses, and for any number of requests and  *)
(* versions: what the parts of the page show agrees, and answers never     *)
(* take it back.  About the lists of a page (Dashboard), for all answers   *)
(* of the server, lengths of pages and numbers of loads.  And about its    *)
(* editors and menus (Widgets), for all sets of dialogs and toggles.       *)
(***************************************************************************)
EXTENDS Site, Dashboard, Widgets, FiniteSetTheorems, SequenceTheorems, TLAPS

Types ==
  /\ stored \in [Kinds -> Nat] /\ shown \in [Kinds -> Nat]
  /\ loading \in [Kinds -> BOOLEAN]
  /\ told \in [Kinds -> {"nothing", "failed", "unauthenticated", "exception"}]
  /\ active \in [Items -> BOOLEAN] /\ current \in Listed \cup {NoItem}
  /\ page \in Pages \cup {"none"}
  /\ bound \in [Roots -> {"nothing", "element", "document"}]

-----------------------------------------------------------------------------
(* Requests.                                                               *)

\* A section's request names the section's callbacks.
Lists(r) == r.op = "getAll" /\ r.oncomplete = "fill" /\ r.onerror = "giveUp"

\* An item's request names, one place early, the callback that ignores.
Gets(r) == r.op = "get" /\ r.kind # "tracking" /\ r.oncomplete = "ignore" /\ r.onerror = "undefined"

WellMade(r) ==
  /\ {"kind", "op", "phase", "version", "oncomplete", "onerror"} \subseteq DOMAIN r
  /\ r.kind \in Kinds /\ r.version \in Nat /\ r.phase \in {"sent", "answered"}
  /\ Lists(r) \/ Gets(r)

\* A section waits exactly while one request of its own is under way.
OneListRequest ==
  /\ \A k \in Kinds : loading[k] <=> \E r \in requests : r.kind = k /\ r.op = "getAll"
  /\ \A r, s \in requests : r.op = "getAll" /\ s.op = "getAll" /\ r.kind = s.kind => r = s

\* An answer for a section is at least as new as what it shows.
Newer ==
  /\ \A k \in Kinds : shown[k] <= stored[k]
  /\ \A r \in requests :
       r.op = "getAll" /\ r.phase = "answered" => shown[r.kind] <= r.version /\ r.version <= stored[r.kind]

-----------------------------------------------------------------------------
(* The page.                                                               *)

\* Before the view model is made, nothing was asked for; it is made once.
Beginning ==
  /\ arrived \subseteq Templates /\ placed = arrived \cap Placeholders
  /\ page = "none" =>
       /\ requests = {} /\ \A k \in Kinds : shown[k] = 0
       /\ drawn = 0 /\ range = NoDuration /\ missed = FALSE
  /\ page # "none" => listening /\ missed \in BOOLEAN /\ \A r \in Roots : bound[r] = "element"

\* One item is marked, the current one, and its page is shown.
Marked ==
  /\ \A i \in Listed : active[i] <=> current = i
  /\ current # NoItem => page = current

\* The transactions that were last asked for are those of the chosen duration.
Ranges ==
  /\ page # "none" => missed \/ asked = chosen
  /\ loading["tracking"] \/ missed \/ range \in {chosen, NoDuration}

Chart == drawn # 0 => page = "dashboard" /\ drawn = shown["tracking"]

SiteInv == 
  /\ Types /\ (\A r \in requests : WellMade(r)) /\ OneListRequest /\ Newer
  /\ Beginning /\ Marked /\ Ranges /\ Chart

USE LoadersAssumption, NavigationAssumption, SiteAssumption, AddressAssumption

-----------------------------------------------------------------------------
(* The arguments that JavaScript binds to a loader's parameters.           *)

\* A section's request, whatever its kind, names the section's callbacks.
LEMMA ListRequestLists ==
  ASSUME NEW k \in Kinds, NEW id
  PROVE  /\ WellMade(ListRequest(id, k)) /\ Lists(ListRequest(id, k))
         /\ ListRequest(id, k).kind = k /\ ListRequest(id, k).phase = "sent"
         /\ ListRequest(id, k).id = id
<1> USE DEF Argument, Loader, PolicyLoader, SecretLoader, ServiceLoader, TrackingLoader, ListArguments
<1>1. /\ Argument(k, "getAll", ListArguments(k), "oncomplete") = "fill"
      /\ Argument(k, "getAll", ListArguments(k), "onerror") = "giveUp"
  <2>1. CASE k = "tracking"
    <3>1. DOMAIN ListArguments(k) = 1..4
      BY <2>1
    <3>2. {i \in DOMAIN ListArguments(k) : Loader[k]["getAll"][i] = "oncomplete"} = {3}
      BY <2>1, <3>1
    <3>3. {i \in DOMAIN ListArguments(k) : Loader[k]["getAll"][i] = "onerror"} = {4}
      BY <2>1, <3>1
    <3>4. QED
      BY <2>1, <3>2, <3>3
  <2>2. CASE k # "tracking"
    <3>1. DOMAIN ListArguments(k) = 1..3
      BY <2>2
    <3>2. Loader[k]["getAll"] = <<"shallow", "oncomplete", "onerror">>
      BY <2>2
    <3>3. {i \in DOMAIN ListArguments(k) : Loader[k]["getAll"][i] = "oncomplete"} = {2}
      BY <3>1, <3>2
    <3>4. {i \in DOMAIN ListArguments(k) : Loader[k]["getAll"][i] = "onerror"} = {3}
      BY <3>1, <3>2
    <3>5. QED
      BY <2>2, <3>3, <3>4
  <2>3. QED
    BY <2>1, <2>2
<1>2. QED
  BY <1>1 DEF ListRequest, Request, WellMade, Lists

\* An item's request leaves "ignore" where the callback for success belongs.
LEMMA ItemRequestGets ==
  ASSUME NEW k \in Kinds \ {"tracking"}, NEW id
  PROVE  LET r == Request(id, k, "get", ItemArguments)
         IN WellMade(r) /\ Gets(r) /\ r.kind = k /\ r.phase = "sent"
<1> USE DEF Argument, Loader, PolicyLoader, SecretLoader, ServiceLoader, TrackingLoader, ItemArguments
<1>1. DOMAIN ItemArguments = 1..3
  OBVIOUS
<1>2. \E name : Loader[k]["get"] = <<name, "shallow", "oncomplete", "onerror">> /\ name \in {"policyId", "secretId", "serviceId"}
  OBVIOUS
<1>3. {i \in DOMAIN ItemArguments : Loader[k]["get"][i] = "oncomplete"} = {3}
  BY <1>1, <1>2
<1>4. {i \in DOMAIN ItemArguments : Loader[k]["get"][i] = "onerror"} = {}
  BY <1>1, <1>2
<1>5. /\ Argument(k, "get", ItemArguments, "oncomplete") = "ignore"
      /\ Argument(k, "get", ItemArguments, "onerror") = "undefined"
  BY <1>3, <1>4
<1>6. QED
  BY <1>5 DEF Request, WellMade, Gets

-----------------------------------------------------------------------------
(* Starting.                                                               *)

LEMMA InitInv == Init => SiteInv
<1> SUFFICES ASSUME Init PROVE SiteInv
  OBVIOUS
<1> USE DEF Init, LoadersInit, NavInit
<1>1. Types
  BY DEF Types, Listed, Pages
<1>2. (\A r \in requests : WellMade(r)) /\ OneListRequest /\ Newer
  BY DEF OneListRequest, Newer
<1>3. Beginning /\ Ranges /\ Chart
  BY DEF Beginning, Ranges, Chart
<1>4. Marked
  BY DEF Marked, Items
<1>5. QED
  BY <1>1, <1>2, <1>3, <1>4 DEF SiteInv

\* The menu of any address marks the item that it names as the current one.
LEMMA MenuMarked ==
  ASSUME NEW address \in Addresses, CreateNavigation(address)
  PROVE  /\ active' \in [Items -> BOOLEAN] /\ current' \in Listed \cup {NoItem}
         /\ page' = "dashboard" /\ Marked'
<1> DEFINE container == MenuContainer(CurrentPath(address))
<1>1. container # "demo"
  BY DEF MenuContainer
<1>2. active' = ActiveIn(container) /\ current' = CurrentIn(container) /\ page' = "dashboard"
  BY DEF CreateNavigation
<1> HIDE DEF container
<1>3. CASE container = "home"
  BY <1>2, <1>3 DEF ActiveIn, CurrentIn, Marked, Listed, Items, Pages
<1>4. CASE container # "home"
  BY <1>1, <1>2, <1>4 DEF ActiveIn, CurrentIn, Marked, Listed, Items, Pages
<1>5. QED
  BY <1>3, <1>4

\* Making the view model asks for each list once, and binds to elements.
LEMMA ViewModelMade ==
  ASSUME SiteInv, page = "none", CreateViewModel, listening',
         arrived' \subseteq Templates, placed' = arrived' \cap Placeholders,
         \A r \in Roots : r \in placed'
  PROVE  SiteInv'
<1> USE DEF SiteInv
<1>0. PICK address \in Addresses : CreateNavigation(address)
  BY DEF CreateViewModel
<1>1. /\ requests' = {ListRequest(0, k) : k \in Kinds}
      /\ loading' = [k \in Kinds |-> TRUE]
      /\ asked' = chosen
      /\ UNCHANGED <<stored, shown, told, chosen, range, missed, drawn>>
      /\ bound' = [r \in Roots |-> "element"]
  BY DEF CreateViewModel, AskForLists, BindRoots
<1>2. \A r \in requests' : WellMade(r) /\ r.op = "getAll" /\ r.phase = "sent" /\ r = ListRequest(0, r.kind)
  BY <1>1, ListRequestLists DEF Lists
<1>3. \A k \in Kinds : ListRequest(0, k) \in requests' /\ ListRequest(0, k).kind = k /\ ListRequest(0, k).op = "getAll"
  BY <1>1, ListRequestLists DEF Lists
<1>4. Types'
  BY <1>0, <1>1, MenuMarked DEF Types, Pages
<1>5. \A r \in requests' : WellMade(r)
  BY <1>2
<1>6. OneListRequest'
  BY <1>1, <1>2, <1>3 DEF OneListRequest
<1>7. Newer'
  BY <1>1, <1>2 DEF Newer
<1>8. Beginning'
  <2>1. missed = FALSE
    BY DEF Beginning
  <2>2. page' = "dashboard"
    BY <1>0, MenuMarked
  <2>3. QED
    BY <1>1, <2>1, <2>2 DEF Beginning
<1>9. Marked'
  BY <1>0, MenuMarked
<1>10. Ranges' /\ Chart'
  BY <1>0, <1>1, MenuMarked DEF Ranges, Chart, Beginning
<1>11. QED
  BY <1>4, <1>5, <1>6, <1>7, <1>8, <1>9, <1>10

LEMMA StillWithout ==
  ASSUME SiteInv, page = "none" \/ listening', StayWithoutViewModel,
         arrived' \subseteq Templates, placed' = arrived' \cap Placeholders
  PROVE  SiteInv'
<1> USE DEF StayWithoutViewModel, loaderVars, navVars, dashboardVars, SiteInv
<1>1. Types' /\ (\A r \in requests' : WellMade(r))
  BY DEF Types
<1>2. OneListRequest' /\ Newer'
  BY DEF OneListRequest, Newer
<1>3. Beginning' /\ Marked' /\ Ranges' /\ Chart'
  BY DEF Beginning, Marked, Ranges, Chart
<1>4. QED
  BY <1>1, <1>2, <1>3

LEMMA LoadTemplatesInv ==
  ASSUME SiteInv, LoadTemplates
  PROVE  SiteInv'
BY StillWithout DEF LoadTemplates, SiteInv, Beginning

LEMMA ListenInv ==
  ASSUME SiteInv, Listen
  PROVE  SiteInv'
<1>1. page = "none" /\ listening' /\ arrived' = arrived /\ placed' = placed
  BY DEF Listen, SiteInv, Beginning
<1>2. arrived \subseteq Templates /\ placed = arrived \cap Placeholders
  BY DEF SiteInv, Beginning
<1>3. CASE arrived = Templates
  <2>1. CreateViewModel
    BY <1>3 DEF Listen
  <2>2. \A r \in Roots : r \in placed'
    BY <1>1, <1>2, <1>3
  <2>3. QED
    BY <1>1, <1>2, <2>1, <2>2, ViewModelMade
<1>4. CASE arrived # Templates
  BY <1>1, <1>2, <1>4, StillWithout DEF Listen
<1>5. QED
  BY <1>3, <1>4

LEMMA TemplateArrivesInv ==
  ASSUME SiteInv, NEW t \in Templates, TemplateArrives(t)
  PROVE  SiteInv'
<1>1. arrived' \subseteq Templates /\ placed' = arrived' \cap Placeholders /\ listening' = listening
  BY DEF TemplateArrives, SiteInv, Beginning
<1>2. CASE AllArrived /\ listening /\ page = "none"
  <2>1. arrived' = Templates
    BY <1>1, <1>2, FS_Subset DEF AllArrived
  <2>2. \A r \in Roots : r \in placed'
    BY <1>1, <2>1
  <2>3. CreateViewModel
    BY <1>2 DEF TemplateArrives
  <2>4. QED
    BY <1>1, <1>2, <2>2, <2>3, ViewModelMade
<1>3. CASE ~(AllArrived /\ listening /\ page = "none")
  <2>1. StayWithoutViewModel
    BY <1>3 DEF TemplateArrives
  <2>2. page = "none" \/ listening'
    BY <1>1 DEF SiteInv, Beginning
  <2>3. QED
    BY <1>1, <2>1, <2>2, StillWithout
<1>4. QED
  BY <1>2, <1>3

-----------------------------------------------------------------------------
(* The user.                                                               *)

LEMMA SelectItemInv ==
  ASSUME SiteInv, NEW i \in Items, SelectItem(i)
  PROVE  SiteInv'
<1> USE DEF SelectItem, Select, Choosable, Mark, ShowPageOf, loaderVars, startVars, SiteInv, Listed
<1>1. i \in Pages /\ page # "none" /\ page' = i /\ current' = i
  OBVIOUS
<1>2. \A j \in Pages : j \in Items
  BY DEF Items
<1>3. Types'
  BY <1>1, <1>2 DEF Types
<1>4. (\A r \in requests' : WellMade(r)) /\ OneListRequest' /\ Newer'
  BY DEF OneListRequest, Newer
<1>5. Marked'
  BY <1>1, <1>2 DEF Marked
<1>6. Beginning' /\ Ranges' /\ Chart'
  BY <1>1 DEF Beginning, Ranges, Chart, Pages
<1>7. QED
  BY <1>3, <1>4, <1>5, <1>6

LEMMA SelectSectionInv ==
  ASSUME SiteInv, NEW s \in Sections, SelectSectionOfConfig(s)
  PROVE  SiteInv'
<1> USE DEF SelectSectionOfConfig, SelectSection, loaderVars, startVars, dashboardVars, SiteInv
<1>1. Types' /\ (\A r \in requests' : WellMade(r))
  BY DEF Types
<1>2. OneListRequest' /\ Newer'
  BY DEF OneListRequest, Newer
<1>3. Beginning' /\ Marked' /\ Ranges' /\ Chart'
  BY DEF Beginning, Marked, Ranges, Chart
<1>4. QED
  BY <1>1, <1>2, <1>3

\* A section that asks again has no answer due, so its request is the only one.
LEMMA RefreshSectionKeeps ==
  ASSUME SiteInv, NEW k \in Kinds, RefreshSection(k)
  PROVE  /\ \A r \in requests' : WellMade(r)
         /\ OneListRequest' /\ Newer'
         /\ loading' \in [Kinds -> BOOLEAN] /\ loading'[k]
         /\ \A j \in Kinds \ {k} : loading'[j] = loading[j]
<1> DEFINE new == ListRequest(NextId, k)
<1>1. WellMade(new) /\ Lists(new) /\ new.kind = k /\ new.phase = "sent"
  BY ListRequestLists
<1> HIDE DEF new
<1>2. /\ requests' = requests \cup {new}
      /\ loading' = [loading EXCEPT ![k] = TRUE] /\ ~loading[k]
      /\ UNCHANGED <<stored, shown>>
  BY DEF RefreshSection, Refreshable, new
<1>3. \A r \in requests : r.op = "getAll" => r.kind # k
  BY <1>2 DEF SiteInv, OneListRequest
<1>4. loading \in [Kinds -> BOOLEAN]
  BY DEF SiteInv, Types
<1>5. OneListRequest'
  BY <1>1, <1>2, <1>3, <1>4 DEF SiteInv, OneListRequest, Lists
<1>6. QED
  BY <1>1, <1>2, <1>4, <1>5 DEF SiteInv, Newer

LEMMA RefreshInv ==
  ASSUME SiteInv, NEW k \in Kinds, Refresh(k)
  PROVE  SiteInv'
<1> USE DEF Refresh, navVars, startVars, SiteInv
<1>1. RefreshSection(k) /\ page # "none" /\ UNCHANGED <<stored, shown, told>>
  BY DEF RefreshSection
<1>2. Types'
  BY <1>1, RefreshSectionKeeps DEF Types
<1>3. Beginning' /\ Marked' /\ Chart'
  BY <1>1 DEF Beginning, Marked, Chart
<1>4. Ranges'
  BY <1>1, RefreshSectionKeeps DEF Ranges
<1>5. QED
  BY <1>1, <1>2, <1>3, <1>4, RefreshSectionKeeps

LEMMA SelectDurationInv ==
  ASSUME SiteInv, NEW d \in Durations, SelectDuration(d)
  PROVE  SiteInv'
<1> USE DEF SelectDuration, navVars, startVars, SiteInv
<1>1. RefreshSection("tracking") /\ page # "none" /\ UNCHANGED <<stored, shown, told>>
  BY DEF RefreshSection
<1>2. Types'
  BY <1>1, RefreshSectionKeeps DEF Types
<1>3. Beginning' /\ Marked' /\ Chart'
  BY <1>1 DEF Beginning, Marked, Chart
<1>4. Ranges'
  BY <1>1, RefreshSectionKeeps DEF Ranges
<1>5. QED
  BY <1>1, <1>2, <1>3, <1>4, RefreshSectionKeeps

LEMMA SelectDurationTooSoonInv ==
  ASSUME SiteInv, NEW d \in Durations, SelectDurationTooSoon(d)
  PROVE  SiteInv'
<1> USE DEF SelectDurationTooSoon, loaderVars, navVars, startVars, SiteInv
<1>1. Types' /\ (\A r \in requests' : WellMade(r))
  BY DEF Types
<1>2. OneListRequest' /\ Newer'
  BY DEF OneListRequest, Newer
<1>3. Beginning' /\ Marked' /\ Ranges' /\ Chart'
  BY DEF Beginning, Marked, Ranges, Chart
<1>4. QED
  BY <1>1, <1>2, <1>3

\* What an item does leaves the sections and the page alone.
LEMMA UseItemInv ==
  ASSUME SiteInv, NEW k \in Kinds, UseItem(k)
  PROVE  SiteInv'
<1> USE DEF UseItem, navVars, startVars, dashboardVars, SiteInv
<1>0. page # "none"
  BY DEF RefreshItem, ChangeItem, GetTransaction, Types, Beginning
<1>1. CASE RefreshItem(k)
  <2> DEFINE new == Request(NextId, k, "get", ItemArguments)
  <2>1. WellMade(new) /\ Gets(new)
    BY <1>1, ItemRequestGets DEF RefreshItem
  <2> HIDE DEF new
  <2>2. requests' = requests \cup {new} /\ UNCHANGED <<stored, shown, loading, told>>
    BY <1>1 DEF RefreshItem, new
  <2>3. Types' /\ (\A r \in requests' : WellMade(r))
    BY <2>1, <2>2 DEF Types
  <2>4. OneListRequest' /\ Newer'
    BY <2>1, <2>2 DEF OneListRequest, Newer, Gets
  <2>5. Beginning' /\ Marked' /\ Ranges' /\ Chart'
    BY <1>0, <2>2 DEF Beginning, Marked, Ranges, Chart
  <2>6. QED
    BY <2>3, <2>4, <2>5
<1>2. CASE ChangeItem(k) \/ GetTransaction(k)
  <2>1. UNCHANGED <<requests, stored, shown, loading>>
    BY <1>2 DEF ChangeItem, GetTransaction
  <2>2. told' = [told EXCEPT ![k] = "unauthenticated"] \/ told' = [told EXCEPT ![k] = "exception"]
    BY <1>2 DEF ChangeItem, GetTransaction
  <2>3. Types' /\ (\A r \in requests' : WellMade(r))
    BY <2>1, <2>2 DEF Types
  <2>4. OneListRequest' /\ Newer'
    BY <2>1 DEF OneListRequest, Newer
  <2>5. Beginning' /\ Marked' /\ Ranges' /\ Chart'
    BY <2>1 DEF Beginning, Marked, Ranges, Chart
  <2>6. QED
    BY <2>3, <2>4, <2>5
<1>3. QED
  BY <1>1, <1>2

-----------------------------------------------------------------------------
(* The server.                                                             *)

LEMMA ChangeStoredInv ==
  ASSUME SiteInv, NEW k \in Kinds, page # "none", ChangeStored(k),
         UNCHANGED <<navVars, startVars, dashboardVars>>
  PROVE  SiteInv'
<1> USE DEF ChangeStored, navVars, startVars, dashboardVars, SiteInv
<1>1. Types' /\ (\A r \in requests' : WellMade(r))
  BY DEF Types
<1>2. \A j \in Kinds : stored[j] <= stored'[j]
  BY DEF Types
<1>3. OneListRequest'
  BY DEF OneListRequest
<1>4. Newer'
  <2>1. \A j \in Kinds : stored[j] \in Nat /\ stored'[j] \in Nat /\ shown[j] \in Nat
    BY <1>1 DEF Types
  <2>2. \A r \in requests : r.kind \in Kinds /\ r.version \in Nat
    BY DEF WellMade
  <2>3. QED
    BY <1>2, <2>1, <2>2 DEF Newer
<1>5. Beginning' /\ Marked' /\ Ranges' /\ Chart'
  BY DEF Beginning, Marked, Ranges, Chart
<1>6. QED
  BY <1>1, <1>3, <1>4, <1>5

\* What is stored when the server reads is at least what is shown.
LEMMA ServeInv ==
  ASSUME SiteInv, NEW q \in requests, Serve(q),
         UNCHANGED <<navVars, startVars, dashboardVars>>
  PROVE  SiteInv'
<1> USE DEF navVars, startVars, dashboardVars, SiteInv
<1> DEFINE answer == [q EXCEPT !.phase = "answered", !.version = stored[q.kind]]
<1>1. /\ requests' = (requests \ {q}) \cup {answer}
      /\ UNCHANGED <<stored, shown, loading, told>>
  BY DEF Serve
<1>2. /\ answer.kind = q.kind /\ answer.op = q.op /\ answer.phase = "answered"
      /\ answer.version = stored[q.kind] /\ WellMade(answer)
  <2>1. WellMade(q)
    OBVIOUS
  <2>2. stored[q.kind] \in Nat
    BY <2>1 DEF WellMade, Types
  <2>3. /\ answer.kind = q.kind /\ answer.op = q.op /\ answer.phase = "answered"
        /\ answer.version = stored[q.kind] /\ DOMAIN answer = DOMAIN q
        /\ answer.oncomplete = q.oncomplete /\ answer.onerror = q.onerror
    BY <2>1 DEF WellMade
  <2>4. QED
    BY <2>1, <2>2, <2>3 DEF WellMade, Lists, Gets
<1> HIDE DEF answer
<1>3. q.kind \in Kinds
  BY DEF WellMade
<1>4. Types' /\ (\A r \in requests' : WellMade(r))
  BY <1>1, <1>2 DEF Types
<1>5. OneListRequest'
  BY <1>1, <1>2, <1>3 DEF OneListRequest
<1>6. Newer'
  <2>1. shown[q.kind] <= stored[q.kind] /\ stored[q.kind] \in Nat
    BY <1>3 DEF Newer, Types
  <2>2. QED
    BY <1>1, <1>2, <2>1 DEF Newer
<1>7. page # "none"
  BY DEF Beginning
<1>8. Beginning' /\ Marked' /\ Ranges' /\ Chart'
  BY <1>1, <1>7 DEF Beginning, Marked, Ranges, Chart
<1>9. QED
  BY <1>4, <1>5, <1>6, <1>8

-----------------------------------------------------------------------------
(* Answers.                                                                *)

\* When the request of a section ends, the section waits no longer, and one of
\* the two callbacks has been called; the others are as they were.
LEMMA ListRequestEnds ==
  ASSUME SiteInv, NEW q \in requests, q.op = "getAll",
         requests' = requests \ {q}, UNCHANGED stored,
         \/ Invoke(q.oncomplete, q.kind, q.version) /\ q.phase = "answered"
         \/ Invoke(q.onerror, q.kind, q.version)
  PROVE  /\ \A r \in requests' : WellMade(r)
         /\ OneListRequest' /\ Newer' /\ UNCHANGED told
         /\ shown' \in [Kinds -> Nat] /\ loading' \in [Kinds -> BOOLEAN]
         /\ ~loading'[q.kind] /\ \A k \in Kinds \ {q.kind} : loading'[k] = loading[k] /\ shown'[k] = shown[k]
<1> USE DEF SiteInv
<1>1. WellMade(q) /\ q.kind \in Kinds /\ q.oncomplete = "fill" /\ q.onerror = "giveUp" /\ q.version \in Nat
  BY DEF WellMade, Lists, Gets
<1>2. /\ loading' = [loading EXCEPT ![q.kind] = FALSE]
      /\ UNCHANGED told
      /\ \/ shown' = [shown EXCEPT ![q.kind] = q.version] /\ q.phase = "answered"
         \/ shown' = shown
  BY <1>1 DEF Invoke
<1>3. shown' \in [Kinds -> Nat] /\ loading' \in [Kinds -> BOOLEAN]
  BY <1>1, <1>2 DEF Types
<1>4. \A r \in requests' : r \in requests /\ r # q /\ r.kind \in Kinds /\ (r.op = "getAll" => r.kind # q.kind)
  BY DEF OneListRequest, WellMade
<1>5. OneListRequest'
  BY <1>1, <1>2, <1>4 DEF OneListRequest, Types
<1>6. Newer'
  <2>1. q.phase = "answered" => q.version <= stored[q.kind]
    BY DEF Newer
  <2>2. \A k \in Kinds : shown'[k] <= stored'[k]
    BY <1>1, <1>2, <2>1 DEF Newer, Types
  <2>3. \A r \in requests' : r.op = "getAll" => shown'[r.kind] = shown[r.kind]
    BY <1>1, <1>2, <1>4 DEF Types
  <2>4. QED
    BY <1>4, <2>2, <2>3 DEF Newer
<1>7. QED
  BY <1>1, <1>2, <1>3, <1>4, <1>5, <1>6 DEF Types

\* When the request of an item ends, the item is told that it failed, or nothing.
LEMMA ItemRequestEnds ==
  ASSUME SiteInv, NEW q \in requests, q.op = "get",
         requests' = requests \ {q}, UNCHANGED stored,
         Invoke(q.oncomplete, q.kind, q.version) \/ Invoke(q.onerror, q.kind, q.version)
  PROVE  /\ \A r \in requests' : WellMade(r)
         /\ OneListRequest' /\ Newer'
         /\ UNCHANGED <<shown, loading>>
         /\ told' \in [Kinds -> {"nothing", "failed", "unauthenticated", "exception"}]
<1> USE DEF SiteInv
<1>1. q.kind \in Kinds /\ q.oncomplete = "ignore" /\ q.onerror = "undefined"
  BY DEF WellMade, Lists, Gets
<1>2. UNCHANGED <<shown, loading>> /\ (told' = [told EXCEPT ![q.kind] = "failed"] \/ told' = told)
  BY <1>1 DEF Invoke
<1>3. OneListRequest' /\ Newer'
  BY <1>2 DEF OneListRequest, Newer
<1>4. QED
  BY <1>2, <1>3 DEF Types

LEMMA CompleteInv ==
  ASSUME SiteInv, NEW q \in requests, CompleteRequest(q)
  PROVE  SiteInv'
<1> USE DEF SiteInv, navVars, startVars
<1>0. /\ Invoke(q.oncomplete, q.kind, q.version) /\ q.phase = "answered"
      /\ requests' = requests \ {q} /\ UNCHANGED stored
      /\ DrawChart(q)
      /\ range' = IF q.kind = "tracking" /\ q.op = "getAll" THEN asked ELSE range
      /\ UNCHANGED <<navVars, startVars, chosen, asked, missed>>
  BY DEF CompleteRequest, Complete
<1>1. page # "none" /\ WellMade(q)
  BY DEF Beginning
<1>2. Marked' /\ Beginning'
  BY <1>0, <1>1 DEF Marked, Beginning
<1>3. CASE q.op = "getAll"
  <2>1. Types' /\ (\A r \in requests' : WellMade(r)) /\ OneListRequest' /\ Newer'
    BY <1>0, <1>3, ListRequestEnds DEF Types
  <2>2. Ranges'
    BY <1>0, <1>1, <1>3, ListRequestEnds DEF Ranges
  <2>3. shown'[q.kind] = q.version
    BY <1>0, <1>1, <1>3 DEF Invoke, WellMade, Lists, Gets, Types
  <2>4. Chart'
    <3>1. CASE q.kind = "tracking"
      BY <1>0, <1>3, <2>3, <3>1 DEF DrawChart, Chart
    <3>2. CASE q.kind # "tracking"
      BY <1>0, <1>3, <3>2, ListRequestEnds DEF DrawChart, Chart
    <3>3. QED
      BY <3>1, <3>2
  <2>5. QED
    BY <1>2, <2>1, <2>2, <2>4
<1>4. CASE q.op = "get"
  <2>1. Types' /\ (\A r \in requests' : WellMade(r)) /\ OneListRequest' /\ Newer'
    BY <1>0, <1>4, ItemRequestEnds DEF Types
  <2>2. Ranges' /\ Chart'
    BY <1>0, <1>4, ItemRequestEnds DEF Ranges, Chart, DrawChart
  <2>3. QED
    BY <1>2, <2>1, <2>2
<1>5. QED
  BY <1>1, <1>3, <1>4 DEF WellMade, Lists, Gets

LEMMA FailInv ==
  ASSUME SiteInv, NEW q \in requests, FailRequest(q)
  PROVE  SiteInv'
<1> USE DEF SiteInv, navVars, startVars
<1>0. /\ Invoke(q.onerror, q.kind, q.version)
      /\ requests' = requests \ {q} /\ UNCHANGED stored
      /\ missed' = (missed \/ (q.kind = "tracking" /\ asked # range))
      /\ UNCHANGED <<navVars, startVars, chosen, asked, range, drawn>>
  BY DEF FailRequest, Fail
<1>1. page # "none" /\ WellMade(q) /\ missed \in BOOLEAN
  BY DEF Beginning
<1>2. Marked' /\ Beginning'
  BY <1>0, <1>1 DEF Marked, Beginning
<1>3. CASE q.op = "getAll"
  <2>1. Types' /\ (\A r \in requests' : WellMade(r)) /\ OneListRequest' /\ Newer'
    BY <1>0, <1>3, ListRequestEnds DEF Types
  <2>2. UNCHANGED shown
    BY <1>0, <1>1, <1>3 DEF Invoke, WellMade, Lists, Gets
  <2>3. Ranges'
    <3>1. CASE q.kind = "tracking"
      BY <1>0, <1>1, <3>1 DEF Ranges
    <3>2. CASE q.kind # "tracking"
      BY <1>0, <1>1, <1>3, <3>2, ListRequestEnds DEF Ranges
    <3>3. QED
      BY <3>1, <3>2
  <2>4. Chart'
    BY <1>0, <2>2 DEF Chart
  <2>5. QED
    BY <1>2, <2>1, <2>3, <2>4
<1>4. CASE q.op = "get"
  <2>1. Types' /\ (\A r \in requests' : WellMade(r)) /\ OneListRequest' /\ Newer'
    BY <1>0, <1>4, ItemRequestEnds DEF Types
  <2>2. q.kind # "tracking"
    BY <1>1, <1>4 DEF WellMade, Lists, Gets
  <2>3. Ranges' /\ Chart'
    BY <1>0, <1>1, <1>4, <2>2, ItemRequestEnds DEF Ranges, Chart
  <2>4. QED
    BY <1>2, <2>1, <2>3
<1>5. QED
  BY <1>1, <1>3, <1>4 DEF WellMade, Lists, Gets

-----------------------------------------------------------------------------
LEMMA NextInv == SiteInv /\ [Next]_vars => SiteInv'
<1> SUFFICES ASSUME SiteInv, [Next]_vars PROVE SiteInv'
  OBVIOUS
<1>1. CASE LoadTemplates
  BY <1>1, LoadTemplatesInv
<1>2. CASE Listen
  BY <1>2, ListenInv
<1>3. ASSUME NEW t \in Templates, TemplateArrives(t) PROVE SiteInv'
  BY <1>3, TemplateArrivesInv
<1>4. CASE UserStep
  BY <1>4, SelectItemInv, SelectSectionInv, RefreshInv,
     SelectDurationInv, SelectDurationTooSoonInv DEF UserStep
<1>4a. CASE ScriptStep
  BY <1>4a, UseItemInv DEF ScriptStep
<1>5. CASE ServerStep
  BY <1>5, ChangeStoredInv, ServeInv DEF ServerStep
<1>6. ASSUME NEW q \in requests, CompleteRequest(q) \/ FailRequest(q) PROVE SiteInv'
  BY <1>6, CompleteInv, FailInv
<1>7. CASE UNCHANGED vars
  <2> USE <1>7 DEF vars, loaderVars, navVars, startVars, dashboardVars, SiteInv
  <2>1. Types' /\ (\A r \in requests' : WellMade(r))
    BY DEF Types
  <2>2. OneListRequest' /\ Newer'
    BY DEF OneListRequest, Newer
  <2>3. Beginning' /\ Marked' /\ Ranges' /\ Chart'
    BY DEF Beginning, Marked, Ranges, Chart
  <2>4. QED
    BY <2>1, <2>2, <2>3
<1>8. QED
  BY <1>1, <1>2, <1>3, <1>4, <1>4a, <1>5, <1>6, <1>7 DEF Next

LEMMA SiteInvariant == Spec => []SiteInv
BY InitInv, NextInv, PTL DEF Spec

(***************************************************************************)
(* Whatever templates, answers and choices arrive in whatever order, the   *)
(* parts of the page agree: what it is bound to, the marked item and the   *)
(* page, the range of the table and the chosen one, the chart and the      *)
(* table.                                                                  *)
(***************************************************************************)
THEOREM PageAlwaysConsistent == Spec => []PageConsistent
<1>1. SiteInv => PageConsistent
  BY DEF SiteInv, Beginning, Marked, Ranges, Chart, PageConsistent
<1>2. QED
  BY <1>1, SiteInvariant, PTL

(***************************************************************************)
(* A section waits exactly while a request of its own is under way, and    *)
(* never for two: its button is neither dead for ever nor answered twice.  *)
(***************************************************************************)
THEOREM SectionsWaitForOneAnswer == Spec => []OneListRequest
<1>1. SiteInv => OneListRequest
  BY DEF SiteInv
<1>2. QED
  BY <1>1, SiteInvariant, PTL

\* A step never takes a table back to older data.
LEMMA StepNeverOlder ==
  ASSUME SiteInv, [Next]_vars, NEW k \in Kinds
  PROVE  shown'[k] >= shown[k]
<1>1. shown[k] \in Nat
  BY DEF SiteInv, Types
<1>2. CASE UNCHANGED shown
  BY <1>1, <1>2
<1>3. ASSUME NEW q \in requests, CompleteRequest(q) PROVE shown'[k] >= shown[k]
  <2>1. WellMade(q) /\ q.phase = "answered" /\ Invoke(q.oncomplete, q.kind, q.version)
    BY <1>3 DEF CompleteRequest, Complete, SiteInv
  <2>2. q.op = "getAll" => q.version >= shown[q.kind]
    BY <2>1 DEF SiteInv, Newer, WellMade, Types
  <2>3. QED
    BY <1>1, <2>1, <2>2 DEF Invoke, WellMade, Lists, Gets, SiteInv, Types
<1>4. ASSUME NEW q \in requests, FailRequest(q) PROVE UNCHANGED shown
  <2>1. WellMade(q) /\ Invoke(q.onerror, q.kind, q.version)
    BY <1>4 DEF FailRequest, Fail, SiteInv
  <2>2. QED
    BY <2>1 DEF Invoke, WellMade, Lists, Gets
<1>5. CASE LoadTemplates \/ Listen \/ \E t \in Templates : TemplateArrives(t)
  BY <1>2, <1>5 DEF LoadTemplates, Listen, TemplateArrives, CreateViewModel, AskForLists,
       StayWithoutViewModel, loaderVars
<1>6. CASE UserStep \/ ScriptStep
  BY <1>2, <1>6 DEF UserStep, ScriptStep, SelectItem, SelectSectionOfConfig, Refresh, UseItem, SelectDuration,
       SelectDurationTooSoon, RefreshSection, RefreshItem, ChangeItem, GetTransaction, loaderVars
<1>7. CASE ServerStep
  BY <1>2, <1>7 DEF ServerStep, ChangeStored, Serve
<1>8. CASE UNCHANGED vars
  BY <1>2, <1>8 DEF vars, loaderVars
<1>9. QED
  BY <1>2, <1>3, <1>4, <1>5, <1>6, <1>7, <1>8 DEF Next

(***************************************************************************)
(* In whatever order answers come, a table never goes back to older data.  *)
(***************************************************************************)
THEOREM TablesNeverOlder == Spec => NeverOlder
<1>1. SiteInv /\ [Next]_vars => [\A k \in Kinds : shown'[k] >= shown[k]]_vars
  BY StepNeverOlder
<1>2. QED
  BY <1>1, SiteInvariant, PTL DEF Spec, NeverOlder

-----------------------------------------------------------------------------
(* Induction, as a fact about sets of natural numbers.                     *)

LEMMA SmallestMember ==
  ASSUME NEW T \in SUBSET Nat, T # {}
  PROVE  \E n \in T : \A m \in T : n <= m
<1> DEFINE R == OpToRel(<, Nat)
<1>1. IsWellFoundedOn(R, Nat)
  BY NatLessThanWellFounded
<1>2. R = {ss \in Nat \X Nat : ss[1] < ss[2]}
  BY DEF OpToRel
<1> HIDE DEF R
<1>3. PICK n \in T : \A m \in T : ~ (<<m, n>> \in R)
  BY <1>1, WFMin
<1>4. ASSUME NEW m \in T PROVE n <= m
  <2>1. <<m, n>> \in Nat \X Nat /\ <<m, n>> \notin R
    BY <1>3
  <2>2. ~ (<<m, n>>[1] < <<m, n>>[2])
    BY <1>2, <2>1
  <2>3. QED
    BY <2>2
<1>5. QED
  BY <1>4

\* A set that has 0, and with n also n + 1, has every natural number.
LEMMA SetInduction ==
  ASSUME NEW S, 0 \in S, \A n \in Nat : n \in S => n + 1 \in S
  PROVE  Nat \subseteq S
<1> SUFFICES ASSUME Nat \ S # {} PROVE FALSE
  OBVIOUS
<1>1. PICK n \in Nat \ S : \A m \in Nat \ S : n <= m
  BY SmallestMember
<1>2. n - 1 \in Nat /\ n - 1 \in S
  BY <1>1
<1>3. QED
  BY <1>1, <1>2

-----------------------------------------------------------------------------
(* Pages.                                                                  *)

HIDE LoadersAssumption
HIDE NavigationAssumption
HIDE SiteAssumption
HIDE AddressAssumption
USE BoundsAssumption, AnswersAssumption, DropdownAssumption

IsList(list) == list \in Seq(ToSet(list))

\* How many pages it takes.
LEMMA PageCount ==
  ASSUME NEW n \in Nat
  PROVE  LET count == (n + PageSize - 1) \div PageSize
         IN count \in Nat /\ (count - 1) * PageSize < n /\ n <= count * PageSize
<1> DEFINE count == (n + PageSize - 1) \div PageSize
           rest == (n + PageSize - 1) % PageSize
<1>1. n + PageSize - 1 \in Nat /\ PageSize \in Nat /\ PageSize > 0
  OBVIOUS
<1>2. count \in Nat /\ rest \in 0..(PageSize - 1) /\ n + PageSize - 1 = PageSize * count + rest
  BY <1>1
<1> HIDE DEF count, rest
<1>3. (count - 1) * PageSize = count * PageSize - PageSize /\ PageSize * count = count * PageSize
  BY <1>1, <1>2
<1>4. (count - 1) * PageSize < n /\ n <= count * PageSize
  BY <1>1, <1>2, <1>3
<1>5. QED
  BY <1>2, <1>4 DEF count

LEMMA MinOfTwo ==
  ASSUME NEW x \in Int, NEW y \in Int
  PROVE  Min({x, y}) = IF x <= y THEN x ELSE y
<1>1. \E z \in {x, y} : \A w \in {x, y} : z <= w
  OBVIOUS
<1>2. Min({x, y}) \in {x, y} /\ \A w \in {x, y} : Min({x, y}) <= w
  BY <1>1 DEF Min
<1> QED
  BY <1>2

LEMMA PrefixAndNext ==
  ASSUME NEW S, NEW seq \in Seq(S), NEW a \in 0..Len(seq), NEW b \in a..Len(seq)
  PROVE  SubSeq(seq, 1, a) \o SubSeq(seq, a + 1, b) = SubSeq(seq, 1, b)
<1>1. 1 \in 1..(Len(seq) + 1) /\ a \in (1 - 1)..Len(seq)
  OBVIOUS
<1> QED
  BY <1>1, ConcatAdjacentSubSeq

\* The pages, read one after the other, are the list; none is empty or too long.
THEOREM PagesOfList ==
  ASSUME NEW list, IsList(list)
  PROVE  /\ FlattenSeq(Paginate(list)) = list
         /\ \A p \in DOMAIN Paginate(list) : Len(Paginate(list)[p]) \in 1..PageSize
         /\ Paginate(list) = <<>> <=> list = <<>>
         /\ Paginate(list) = <<>> <=> Len(Paginate(list)) = 0
         /\ DOMAIN Paginate(list) = 1..Len(Paginate(list)) /\ Len(Paginate(list)) \in Nat
<1> DEFINE S == ToSet(list)
           n == Len(list)
           count == (n + PageSize - 1) \div PageSize
           end(i) == Min({i * PageSize, n})
           seqs == [p \in 1..count |-> SubSeq(list, (p - 1) * PageSize + 1, end(p))]
<1>1. list \in Seq(S) /\ n \in Nat /\ PageSize \in Nat /\ PageSize > 0
  BY DEF IsList
<1>2. count \in Nat /\ (count - 1) * PageSize < n /\ n <= count * PageSize
  BY <1>1, PageCount
<1>3. Paginate(list) = seqs
  BY DEF Paginate
<1> HIDE DEF S, n, count
<1>4. ASSUME NEW i \in 1..count
      PROVE  /\ end(i) \in 1..n
             /\ (i - 1) * PageSize \in 0..(end(i) - 1)
             /\ end(i) - (i - 1) * PageSize \in 1..PageSize
             /\ i < count => end(i) = i * PageSize
             /\ i = count => end(i) = n
  <2>1. i \in Nat /\ i - 1 \in Nat /\ i * PageSize = (i - 1) * PageSize + PageSize
    BY <1>1, <1>2
  <2>2. (i - 1) * PageSize \in Nat /\ i * PageSize \in Nat
    BY <1>1, <2>1
  <2>3. end(i) = IF i * PageSize <= n THEN i * PageSize ELSE n
    BY <1>1, <2>2, MinOfTwo
  <2>4. (i - 1) * PageSize <= (count - 1) * PageSize
    BY <1>1, <1>2, <2>1
  <2>5. i < count => i * PageSize <= (count - 1) * PageSize
    BY <1>1, <1>2, <2>1
  <2>6. (count - 1) * PageSize \in Int /\ count * PageSize \in Int
    BY <1>1, <1>2
  <2> QED
    BY <1>1, <1>2, <2>1, <2>2, <2>3, <2>4, <2>5, <2>6
<1>5. DOMAIN seqs = 1..count /\ Len(seqs) = count
  BY <1>2
<1>6. \A p \in 1..count : Len(seqs[p]) \in 1..PageSize
  <2> TAKE p \in 1..count
  <2>1. Len(SubSeq(list, (p - 1) * PageSize + 1, end(p)))
          = end(p) - ((p - 1) * PageSize + 1) + 1
    BY <1>1, <1>4, SubSeqProperties DEF n
  <2> QED
    BY <1>4, <2>1
<1>7. (seqs = <<>> <=> list = <<>>) /\ (seqs = <<>> <=> Len(seqs) = 0)
  <2>1. seqs = <<>> <=> count = 0
    BY <1>2, <1>5, SMTT(40)
  <2>2. list = <<>> <=> n = 0
    BY <1>1, EmptySeq DEF n
  <2>3. count = 0 <=> n = 0
    BY <1>1, <1>2, <1>4
  <2> QED
    BY <1>5, <2>1, <2>2, <2>3
<1>8. FlattenSeq(seqs) = list
  <2>1. CASE count = 0
    BY <1>5, <1>7, <2>1 DEF FlattenSeq
  <2>2. CASE count # 0
    <3> DEFINE Unroll(f) == [i \in 1..Len(seqs) |-> IF i = 1 THEN seqs[i] ELSE f[i - 1] \o seqs[i]]
               upto == [i \in 1..count |-> SubSeq(list, 1, end(i))]
    <3>1. upto = Unroll(upto)
      <4>1. ASSUME NEW i \in 1..count, i # 1 PROVE upto[i - 1] \o seqs[i] = upto[i]
        <5>1. i - 1 \in 1..count /\ i - 1 < count
          BY <1>2, <4>1
        <5>2. end(i - 1) = (i - 1) * PageSize /\ end(i - 1) \in 1..n
          BY <1>4, <5>1
        <5>3. end(i - 1) \in 0..Len(list) /\ end(i) \in end(i - 1)..Len(list)
          BY <1>1, <1>4, <5>2 DEF n
        <5> HIDE DEF end
        <5>4. SubSeq(list, 1, end(i - 1)) \o SubSeq(list, end(i - 1) + 1, end(i))
                = SubSeq(list, 1, end(i))
          BY <1>1, <5>3, PrefixAndNext
        <5>5. upto[i - 1] = SubSeq(list, 1, end(i - 1)) /\ upto[i] = SubSeq(list, 1, end(i))
          BY <5>1
        <5>6. seqs[i] = SubSeq(list, end(i - 1) + 1, end(i))
          BY <5>2
        <5> QED
          BY <5>4, <5>5, <5>6
      <4>2. 1 \in 1..count => seqs[1] = upto[1]
        <5>1. (1 - 1) * PageSize + 1 = 1
          BY <1>1
        <5> QED
          BY <5>1
      <4> QED
        BY <1>5, <4>1, <4>2
    <3>2. ASSUME NEW f, f = Unroll(f) PROVE f = upto
      <4> DEFINE Same == {k \in Nat : k + 1 \in 1..count => f[k + 1] = upto[k + 1]}
      <4> HIDE DEF seqs, upto
      <4>1. 0 \in Same
        BY <1>5, <3>1, <3>2
      <4>2. ASSUME NEW k \in Nat, k \in Same PROVE k + 1 \in Same
        <5> SUFFICES ASSUME k + 2 \in 1..count PROVE f[k + 2] = upto[k + 2]
          BY <4>2
        <5>1. f[k + 1] = upto[k + 1] /\ k + 2 # 1 /\ (k + 2) - 1 = k + 1
          BY <4>2, <1>2
        <5>2. f[k + 2] = f[k + 1] \o seqs[k + 2] /\ upto[k + 2] = upto[k + 1] \o seqs[k + 2]
          BY <1>5, <3>1, <3>2, <5>1
        <5> QED
          BY <5>1, <5>2
      <4>3. Nat \subseteq Same
        <5> HIDE DEF Same
        <5> QED
          BY <4>1, <4>2, SetInduction
      <4>4. ASSUME NEW i \in 1..count PROVE f[i] = upto[i]
        <5>1. i - 1 \in Nat /\ (i - 1) + 1 = i
          BY <1>2
        <5>2. i - 1 \in Same
          BY <4>3, <5>1
        <5> QED
          BY <5>1, <5>2
      <4> QED
        BY <1>5, <3>1, <3>2, <4>4
    <3>3. (CHOOSE f : f = Unroll(f)) = upto
      <4> HIDE DEF Unroll, upto
      <4> QED
        BY <3>1, <3>2
    <3>4. FlattenSeq(seqs) = upto[count]
      BY <1>2, <1>5, <2>2, <3>3 DEF FlattenSeq
    <3>5. upto[count] = list
      BY <1>1, <1>2, <1>4, <2>2, SubSeqFull DEF n
    <3> QED
      BY <3>4, <3>5
  <2> QED
    BY <2>1, <2>2
<1> QED
  BY <1>2, <1>3, <1>5, <1>6, <1>7, <1>8

-----------------------------------------------------------------------------
(* The lists of the dashboard.                                             *)

\* The items that the table of a section shows, page after page.
Rows(s) == FlattenSeq(pages[s])

\* No item is linked to a later load of its parent's section than this.
Latest(s) == IF s \in DOMAIN Parent THEN loads[Parent[s]] ELSE 0

SectionInv(s) ==
  /\ IsList(Rows(s)) /\ pages[s] = Paginate(Rows(s))
  /\ items[s] \in {<<>>, Rows(s)} /\ (awaited[s] => items[s] = <<>>)
  /\ \A o \in ToSet(Rows(s)) :
       /\ o \in DOMAIN link[s] /\ o.load \in Nat /\ o.load <= loads[s]
       /\ awaited[s] => o.load < loads[s]
  /\ \A o \in DOMAIN link[s] : link[s][o] \in 0..Latest(s)
  /\ selected[s] \in 0..Len(pages[s]) /\ (selected[s] = 0 <=> pages[s] = <<>>)

Shapes ==
  /\ awaited \in [ListSections -> BOOLEAN] /\ loads \in [ListSections -> Nat]
  /\ items = [s \in ListSections |-> items[s]] /\ link = [s \in ListSections |-> link[s]]
  /\ pages = [s \in ListSections |-> pages[s]] /\ selected = [s \in ListSections |-> selected[s]]

\* Together with LinkedToLoaded, this is inductive.
DashboardInv == Shapes /\ (\A s \in ListSections : SectionInv(s)) /\ LinkedToLoaded

LEMMA FunctionIsList ==
  ASSUME NEW n \in Nat, NEW f, f = [i \in 1..n |-> f[i]]
  PROVE  IsList(f)
<1>1. f \in [1..n -> ToSet(f)]
  BY DEF ToSet
<1> QED
  BY <1>1 DEF IsList

LEMMA EmptyList ==
  /\ IsList(<<>>) /\ ToSet(<<>>) = {} /\ FlattenSeq(<<>>) = <<>> /\ Paginate(<<>>) = <<>>
  /\ \A id : InstanceIn(<<>>, id) = 0
<1>1. IsList(<<>>) /\ ToSet(<<>>) = {}
  BY DEF IsList, ToSet
<1>2. Paginate(<<>>) = <<>>
  BY <1>1, PagesOfList
<1>3. FlattenSeq(<<>>) = <<>>
  BY <1>1, <1>2, PagesOfList
<1>4. \A id : InstanceIn(<<>>, id) = 0
  BY <1>1 DEF InstanceIn
<1> QED
  BY <1>1, <1>2, <1>3, <1>4

LEMMA ParentOfSection ==
  /\ DOMAIN Parent = {"services", "secrets", "transactions"}
  /\ \A s \in DOMAIN Parent : s \in ListSections /\ Parent[s] \in ListSections /\ Parent[s] # s
  /\ \A s, c \in ListSections : c \in Children(s) <=> c \in DOMAIN Parent /\ Parent[c] = s
BY DEF Parent, ListSections, Children

LEMMA InstanceOfList ==
  ASSUME NEW list, NEW id
  PROVE  InstanceIn(list, id) = 0 \/ \E o \in ToSet(list) : InstanceIn(list, id) = o.load
BY DEF InstanceIn

\* What can be seen is what the table shows.
LEMMA AliveIsShown ==
  ASSUME NEW s \in ListSections, SectionInv(s)
  PROVE  Alive(s) = ToSet(Rows(s))
<1>1. ToSet(items[s]) \subseteq ToSet(Rows(s))
  BY EmptyList DEF SectionInv
<1> QED
  BY <1>1 DEF Alive, Rows

LEMMA InitDashboardInv == DashboardInit => DashboardInv
<1> SUFFICES ASSUME DashboardInit PROVE DashboardInv
  OBVIOUS
<1>1. Shapes
  BY DEF DashboardInit, Shapes
<1>2. ASSUME NEW s \in ListSections PROVE SectionInv(s)
  <2>1. /\ pages[s] = <<>> /\ items[s] = <<>> /\ selected[s] = 0 /\ DOMAIN link[s] = {}
    BY DEF DashboardInit
  <2> QED
    BY <2>1, EmptyList DEF SectionInv, Rows
<1>3. LinkedToLoaded
  BY EmptyList, ParentOfSection DEF DashboardInit, LinkedToLoaded
<1> QED
  BY <1>1, <1>2, <1>3 DEF DashboardInv

\* An answer, as the section that gets it holds and shows it.
LEMMA AnswerArrives ==
  ASSUME DashboardInv, NEW s \in ListSections, NEW answer \in Answers[s], ListArrives(s, answer)
  PROVE  LET new == Arrivals(s, answer) IN
         /\ IsList(new) /\ \A o \in ToSet(new) : o.load = loads[s]
         /\ items'[s] = new /\ Rows(s)' = new /\ Alive(s)' = ToSet(new)
         /\ pages'[s] = Paginate(new)
         /\ selected'[s] \in 0..Len(pages'[s]) /\ (selected'[s] = 0 <=> pages'[s] = <<>>)
<1> DEFINE new == Arrivals(s, answer)
<1>1. IsList(new) /\ \A o \in ToSet(new) : o.load = loads[s]
  <2>1. answer \in Seq(ToSet(answer))
    OBVIOUS
  <2>2. DOMAIN new = 1..Len(answer) /\ Len(answer) \in Nat
    BY <2>1 DEF Arrivals
  <2>3. IsList(new)
    BY <2>2, FunctionIsList DEF Arrivals
  <2>4. \A i \in DOMAIN new : new[i].load = loads[s]
    BY DEF Arrivals
  <2> QED
    BY <2>3, <2>4 DEF ToSet
<1> HIDE DEF new
<1>2. items'[s] = new /\ pages'[s] = Paginate(new)
  BY DEF ListArrives, DashboardInv, Shapes, new
<1>3. /\ FlattenSeq(Paginate(new)) = new /\ Len(Paginate(new)) \in Nat
      /\ DOMAIN Paginate(new) = 1..Len(Paginate(new))
  BY <1>1, PagesOfList
<1>4. selected'[s] = IF pages'[s] = <<>> THEN 0 ELSE 1
  BY DEF ListArrives, SelectFirstPage, DashboardInv, Shapes
<1>5. Paginate(new) = <<>> <=> Len(Paginate(new)) = 0
  BY <1>1, PagesOfList
<1> QED
  BY <1>1, <1>2, <1>3, <1>4, <1>5 DEF Rows, Alive, new

LEMMA NextDashboardInv == DashboardInv /\ [DashboardNext]_listVars => DashboardInv'
<1> SUFFICES ASSUME DashboardInv, [DashboardNext]_listVars PROVE DashboardInv'
  OBVIOUS
<1> USE DEF DashboardInv
<1>1. ASSUME NEW s \in ListSections, RefreshList(s) PROVE DashboardInv'
  <2>1. /\ awaited' = [awaited EXCEPT ![s] = TRUE] /\ ~awaited[s]
        /\ loads' = [loads EXCEPT ![s] = @ + 1]
        /\ items' = [items EXCEPT ![s] = <<>>]
        /\ UNCHANGED <<link, pages, selected>>
    BY <1>1 DEF RefreshList
  <2>2. Shapes'
    <3>1. loads' \in [ListSections -> Nat]
      BY <2>1 DEF Shapes
    <3>2. items' = [t \in ListSections |-> items'[t]]
      BY <2>1 DEF Shapes
    <3> QED
      BY <2>1, <3>1, <3>2 DEF Shapes
  <2>3. ASSUME NEW t \in ListSections PROVE SectionInv(t)'
    <3>1. loads[t] \in Nat /\ loads'[t] \in Nat /\ loads[t] <= loads'[t]
          /\ Latest(t) \in Nat /\ Latest(t)' \in Nat /\ Latest(t) <= Latest(t)'
      BY <2>1, ParentOfSection DEF Shapes, Latest
    <3>2. Rows(t)' = Rows(t)
      BY <2>1 DEF Rows
    <3>3. items'[t] \in {<<>>, Rows(t)} /\ (awaited'[t] => items'[t] = <<>>)
      BY <2>1 DEF SectionInv, Shapes
    <3>4. \A o \in ToSet(Rows(t)) :
            o \in DOMAIN link[t] /\ o.load \in Nat /\ o.load <= loads'[t]
            /\ (awaited'[t] => o.load < loads'[t])
      BY <2>1, <3>1 DEF SectionInv, Shapes
    <3>5. \A o \in DOMAIN link[t] : link[t][o] \in 0..Latest(t)'
      BY <3>1 DEF SectionInv
    <3> QED
      BY <2>1, <3>2, <3>3, <3>4, <3>5 DEF SectionInv
  <2>4. LinkedToLoaded'
    <3>1. \A t \in ListSections : items'[t] = <<>> \/ items'[t] = items[t]
      BY <2>1 DEF Shapes
    <3> QED
      BY <2>1, <3>1, EmptyList, ParentOfSection, SMTT(40) DEF LinkedToLoaded
  <2> QED
    BY <2>2, <2>3, <2>4
<1>2. ASSUME NEW s \in ListSections, NEW answer \in Answers[s], ListArrives(s, answer)
      PROVE  DashboardInv'
  <2> DEFINE new == Arrivals(s, answer)
  <2>1. /\ awaited' = [awaited EXCEPT ![s] = FALSE] /\ awaited[s]
        /\ items' = [items EXCEPT ![s] = new]
        /\ pages' = [pages EXCEPT ![s] = Paginate(items'[s])]
        /\ selected' = [selected EXCEPT ![s] = IF pages'[s] = <<>> THEN 0 ELSE 1]
        /\ loads' = loads
    BY <1>2 DEF ListArrives, SelectFirstPage
  <2>2. link' = [t \in ListSections |->
          IF t = s THEN [o \in Alive(s)' |-> Extend(s, o)]
          ELSE [o \in DOMAIN link[t] |->
                  IF t \in Children(s) /\ o \in ToSet(items[t])
                  THEN Relink(items'[s], o, link[t][o]) ELSE link[t][o]]]
    BY <1>2 DEF ListArrives, LinkItems
  <2>3. /\ IsList(new) /\ \A o \in ToSet(new) : o.load = loads[s]
        /\ items'[s] = new /\ Rows(s)' = new /\ Alive(s)' = ToSet(new)
        /\ pages'[s] = Paginate(new)
        /\ selected'[s] \in 0..Len(pages'[s]) /\ (selected'[s] = 0 <=> pages'[s] = <<>>)
    BY <1>2, AnswerArrives
  <2> HIDE DEF new
  <2>4. Shapes'
    BY <2>1, <2>2 DEF Shapes
  <2>5. loads[s] \in Nat /\ ~awaited'[s]
    BY <2>1 DEF Shapes
  <2>6. SectionInv(s)'
    <3>1. link'[s] = [o \in ToSet(new) |-> Extend(s, o)]
      BY <2>2, <2>3
    <3>2. ASSUME NEW o PROVE Extend(s, o) \in 0..Latest(s)
      <4>1. CASE s \notin DOMAIN Parent
        BY <4>1 DEF Extend, Latest
      <4>2. CASE s \in DOMAIN Parent
        <5> DEFINE t == Parent[s]
        <5>1. t \in ListSections /\ SectionInv(t) /\ loads[t] \in Nat
          BY <4>2, ParentOfSection DEF Shapes
        <5>2. \A i \in ToSet(items[t]) : i.load \in Nat /\ i.load <= loads[t]
          BY <5>1, EmptyList DEF SectionInv
        <5>3. InstanceIn(items[t], o.parent) \in 0..loads[t]
          BY <5>1, <5>2, InstanceOfList
        <5> QED
          BY <4>2, <5>3 DEF Extend, Latest
      <4> QED
        BY <4>1, <4>2
    <3>3. Latest(s)' = Latest(s)
      BY <2>1 DEF Latest
    <3> QED
      BY <2>1, <2>3, <2>5, <3>1, <3>2, <3>3 DEF SectionInv
  <2>7. ASSUME NEW t \in ListSections, t # s
        PROVE  /\ SectionInv(t)' /\ items'[t] = items[t]
               /\ \A o \in ToSet(items[t]) : o \in DOMAIN link[t]
               /\ t \notin Children(s) => \A o \in DOMAIN link[t] : link'[t][o] = link[t][o]
               /\ t \in Children(s) =>
                    \A o \in ToSet(items[t]) : link'[t][o] = Relink(new, o, link[t][o])
    <3>1. /\ awaited'[t] = awaited[t] /\ items'[t] = items[t] /\ pages'[t] = pages[t]
          /\ selected'[t] = selected[t]
      BY <2>1, <2>7 DEF Shapes
    <3>2. Rows(t)' = Rows(t) /\ Latest(t)' = Latest(t)
      BY <2>1, <3>1 DEF Rows, Latest
    <3>3. link'[t] = [o \in DOMAIN link[t] |->
                    IF t \in Children(s) /\ o \in ToSet(items[t])
                    THEN Relink(new, o, link[t][o]) ELSE link[t][o]]
      BY <2>2, <2>3, <2>7
    <3>4. ASSUME NEW o \in DOMAIN link[t] PROVE link'[t][o] \in 0..Latest(t)
      <4>1. link[t][o] \in 0..Latest(t)
        BY DEF SectionInv
      <4>2. CASE t \in Children(s)
        <5>1. Latest(t) = loads[s]
          BY <4>2, ParentOfSection DEF Latest
        <5>2. InstanceIn(new, o.parent) \in {0, loads[s]}
          BY <2>3, InstanceOfList
        <5>3. Relink(new, o, link[t][o]) \in {link[t][o], loads[s]}
          BY <5>2 DEF Relink
        <5> QED
          BY <2>5, <3>3, <4>1, <5>1, <5>3
      <4> QED
        BY <3>3, <4>1, <4>2
    <3>5. SectionInv(t)'
      <4>1. /\ IsList(Rows(t)) /\ pages'[t] = Paginate(Rows(t))
            /\ items'[t] \in {<<>>, Rows(t)} /\ (awaited'[t] => items'[t] = <<>>)
            /\ selected'[t] \in 0..Len(pages'[t]) /\ (selected'[t] = 0 <=> pages'[t] = <<>>)
        BY <3>1 DEF SectionInv
      <4>2. DOMAIN link'[t] = DOMAIN link[t]
        BY <3>3
      <4>3. \A o \in ToSet(Rows(t)) :
              /\ o \in DOMAIN link'[t] /\ o.load \in Nat /\ o.load <= loads'[t]
              /\ awaited'[t] => o.load < loads'[t]
        BY <2>1, <3>1, <4>2 DEF SectionInv
      <4>4. \A o \in DOMAIN link'[t] : link'[t][o] \in 0..Latest(t)
        BY <3>4, <4>2
      <4> QED
        BY <3>2, <4>1, <4>3, <4>4 DEF SectionInv
    <3>6. ToSet(items[t]) \subseteq DOMAIN link[t]
      BY EmptyList DEF SectionInv
    <3>7. t \notin Children(s) => \A o \in DOMAIN link[t] : link'[t][o] = link[t][o]
      BY <3>3
    <3>8. t \in Children(s) => \A o \in ToSet(items[t]) : link'[t][o] = Relink(new, o, link[t][o])
      BY <3>3, <3>6
    <3> QED
      BY <3>1, <3>5, <3>6, <3>7, <3>8
  <2>8. LinkedToLoaded'
    <3> SUFFICES ASSUME NEW t \in DOMAIN Parent, NEW o \in ToSet(items'[t]),
                        InstanceIn(items'[Parent[t]], o.parent) # 0
                 PROVE  link'[t][o] = InstanceIn(items'[Parent[t]], o.parent)
      BY DEF LinkedToLoaded
    <3>1. t \in ListSections /\ Parent[t] \in ListSections /\ Parent[t] # t
      BY ParentOfSection
    <3>2. CASE t = s
      <4>1. items'[Parent[t]] = items[Parent[t]]
        BY <2>7, <3>1, <3>2
      <4> QED
        BY <2>2, <2>3, <3>2, <4>1 DEF Extend
    <3>3. CASE t # s /\ Parent[t] = s
      <4>1. t \in Children(s)
        BY <3>1, <3>3, ParentOfSection
      <4>2. o \in ToSet(items[t]) /\ o \in DOMAIN link[t]
        BY <2>7, <3>1, <3>3
      <4>3. link'[t][o] = Relink(new, o, link[t][o])
        BY <2>7, <3>1, <3>3, <4>1, <4>2
      <4> QED
        BY <2>3, <3>3, <4>3 DEF Relink
    <3>4. CASE t # s /\ Parent[t] # s
      <4>1. t \notin Children(s) /\ items'[Parent[t]] = items[Parent[t]]
        BY <2>7, <3>1, <3>4, ParentOfSection
      <4>2. o \in ToSet(items[t]) /\ o \in DOMAIN link[t] /\ link'[t][o] = link[t][o]
        <5>1. items'[t] = items[t] /\ \A i \in ToSet(items[t]) : i \in DOMAIN link[t]
          BY <2>7, <3>1, <3>4
        <5>2. \A i \in DOMAIN link[t] : link'[t][i] = link[t][i]
          BY <2>7, <3>1, <3>4, <4>1
        <5> QED
          BY <5>1, <5>2
      <4>3. InstanceIn(items[Parent[t]], o.parent) # 0
              => link[t][o] = InstanceIn(items[Parent[t]], o.parent)
        BY <4>2 DEF LinkedToLoaded
      <4> QED
        BY <4>1, <4>2, <4>3
    <3> QED
      BY <3>2, <3>3, <3>4
  <2> QED
    BY <2>4, <2>6, <2>7, <2>8
<1>3. ASSUME NEW s \in ListSections, ListFails(s) PROVE DashboardInv'
  <2>1. /\ awaited' = [awaited EXCEPT ![s] = FALSE]
        /\ UNCHANGED <<loads, items, link, pages, selected>>
    BY <1>3 DEF ListFails
  <2>2. Shapes' /\ \A t \in ListSections : awaited'[t] => awaited[t]
    BY <2>1 DEF Shapes
  <2>3. ASSUME NEW t \in ListSections PROVE SectionInv(t)'
    BY <2>1, <2>2 DEF SectionInv, Rows, Latest
  <2>4. LinkedToLoaded'
    BY <2>1 DEF LinkedToLoaded
  <2> QED
    BY <2>2, <2>3, <2>4
<1>4. ASSUME NEW s \in ListSections,
             FirstPage(s) \/ LastPage(s) \/ NextPage(s) \/ PreviousPage(s) \/ SelectPage(s)
      PROVE  DashboardInv'
  <2>1. pages[s] = Paginate(Rows(s)) /\ IsList(Rows(s)) /\ selected[s] \in 0..Len(pages[s])
    BY DEF SectionInv
  <2>2. Len(pages[s]) \in Nat /\ DOMAIN pages[s] = 1..Len(pages[s])
    BY <2>1, PagesOfList
  <2>3. Len(pages[s]) > 1
    BY <1>4 DEF FirstPage, LastPage, NextPage, PreviousPage, SelectPage, Paging
  <2>4. PICK p \in 1..Len(pages[s]) : GoTo(s, p)
    BY <1>4, <2>1, <2>2, <2>3 DEF FirstPage, LastPage, NextPage, PreviousPage, SelectPage, Paging
  <2>5. selected' = [selected EXCEPT ![s] = p] /\ UNCHANGED <<awaited, loads, items, link, pages>>
    BY <2>4 DEF GoTo
  <2>6. Shapes'
    BY <2>5 DEF Shapes
  <2>7. pages[s] # <<>>
    BY <2>3, EmptySeq
  <2>8. ASSUME NEW t \in ListSections PROVE SectionInv(t)'
    <3>1. selected'[t] \in 0..Len(pages[t]) /\ (selected'[t] = 0 <=> pages[t] = <<>>)
      BY <2>2, <2>5, <2>7 DEF Shapes, SectionInv
    <3> QED
      BY <2>5, <3>1 DEF SectionInv, Rows, Latest
  <2>9. LinkedToLoaded'
    BY <2>5 DEF LinkedToLoaded
  <2> QED
    BY <2>6, <2>8, <2>9
<1>5. CASE UNCHANGED listVars
  BY <1>5 DEF listVars, Shapes, SectionInv, Rows, Latest, LinkedToLoaded
<1> QED
  BY <1>1, <1>2, <1>3, <1>4, <1>5 DEF DashboardNext, Turn

(***************************************************************************)
(* In whatever order the sections are refreshed and answered, an item is   *)
(* linked to the instance of its parent that is in the parent's list       *)
(* (app.js:399).                                                           *)
(***************************************************************************)
THEOREM ItemsLinkedToLoaded == DashboardSpec => []LinkedToLoaded
<1>1. DashboardInv => LinkedToLoaded
  BY DEF DashboardInv
<1> QED
  BY <1>1, InitDashboardInv, NextDashboardInv, PTL DEF DashboardSpec

(***************************************************************************)
(* The pages of a table are the list it got, and the page that is selected *)
(* is one of them (paginatedCollection).                                   *)
(***************************************************************************)
THEOREM PagesAreTheList == DashboardSpec => []PagesShowItems
<1>1. DashboardInv => PagesShowItems
  <2> SUFFICES ASSUME DashboardInv, NEW s \in ListSections
               PROVE  /\ items[s] # <<>> => FlattenSeq(pages[s]) = items[s]
                      /\ \A p \in DOMAIN pages[s] : Len(pages[s][p]) \in 1..PageSize
                      /\ pages[s] # <<>> => selected[s] \in DOMAIN pages[s]
    BY DEF PagesShowItems
  <2>1. SectionInv(s)
    BY DEF DashboardInv
  <2>2. \A p \in DOMAIN pages[s] : Len(pages[s][p]) \in 1..PageSize
    BY <2>1, PagesOfList DEF SectionInv
  <2>3. DOMAIN pages[s] = 1..Len(pages[s]) /\ Len(pages[s]) \in Nat
    BY <2>1, PagesOfList DEF SectionInv
  <2> QED
    BY <2>1, <2>2, <2>3 DEF SectionInv, Rows
<1> QED
  BY <1>1, InitDashboardInv, NextDashboardInv, PTL DEF DashboardSpec

\* A relinked item gets a later load of its parent, or keeps what it has.
LEMMA LinksRenewed ==
  ASSUME DashboardInv, [DashboardNext]_listVars, NEW s \in ListSections, NEW o \in Alive(s), o \in Alive(s)'
  PROVE  link'[s][o] >= link[s][o]
<1>1. SectionInv(s) /\ o \in ToSet(Rows(s)) /\ o \in DOMAIN link[s]
  BY AliveIsShown DEF DashboardInv, SectionInv
<1>2. link[s][o] \in Nat /\ link[s][o] <= Latest(s)
  <2>1. Latest(s) \in Nat
    BY ParentOfSection DEF DashboardInv, Shapes, Latest
  <2> QED
    BY <1>1, <2>1 DEF SectionInv
<1>3. ASSUME NEW t \in ListSections, NEW answer \in Answers[t], ListArrives(t, answer)
      PROVE  link'[s][o] >= link[s][o]
  <2> DEFINE new == Arrivals(t, answer)
  <2>1. (\A i \in ToSet(new) : i.load = loads[t]) /\ items'[t] = new /\ Alive(t)' = ToSet(new)
    BY <1>3, AnswerArrives
  <2>2. awaited[t] /\ loads[t] \in Nat
    BY <1>3 DEF ListArrives, DashboardInv, Shapes
  <2> HIDE DEF new
  <2>3. s # t
    <3>1. o \in ToSet(new) => o.load = loads[t]
      BY <2>1
    <3> QED
      BY <1>1, <2>1, <2>2, <3>1 DEF SectionInv
  <2>4. link'[s][o] = IF s \in Children(t) /\ o \in ToSet(items[s])
                      THEN Relink(new, o, link[s][o]) ELSE link[s][o]
    BY <1>1, <1>3, <2>1, <2>3 DEF ListArrives, LinkItems
  <2>5. InstanceIn(new, o.parent) \in {0, loads[t]}
    BY <2>1, InstanceOfList
  <2>6. s \in Children(t) => Latest(s) = loads[t]
    BY ParentOfSection DEF Latest
  <2> QED
    BY <1>2, <2>2, <2>4, <2>5, <2>6 DEF Relink
<1>4. CASE UNCHANGED link
  BY <1>2, <1>4
<1> QED
  BY <1>3, <1>4 DEF DashboardNext, Turn, RefreshList, ListFails, FirstPage, LastPage, NextPage, PreviousPage,
    SelectPage, GoTo, listVars

(***************************************************************************)
(* As long as an item can be seen, its parent is only replaced by one of a *)
(* later load.                                                             *)
(***************************************************************************)
THEOREM LinksNeverOlder == DashboardSpec => LinksOnlyRenewed
<1>1. DashboardInv /\ [DashboardNext]_listVars
        => [\A s \in ListSections : \A o \in Alive(s) \cap Alive(s)' : link'[s][o] >= link[s][o]]_listVars
  BY LinksRenewed
<1> QED
  BY <1>1, InitDashboardInv, NextDashboardInv, PTL DEF DashboardSpec, LinksOnlyRenewed

-----------------------------------------------------------------------------
(* The editors.                                                            *)

Closed(m) ==
  /\ m \notin instance /\ m \notin isShown /\ m \notin isTransitioning /\ m \notin displayed
  /\ backdrops[m] = 0 /\ boundTo[m] = 0

\* A stage in the life of a dialog that is not closed.
Stage(m, up, deaf, visible) ==
  /\ m \in instance /\ (m \in isShown <=> up)
  /\ (m \in isTransitioning <=> deaf) /\ (m \in displayed <=> visible)
  /\ backdrops[m] = 1 /\ boundTo[m] # 0

\* Whether there is a transition whose end a dialog waits for, and which.
Rests(m) == \A x : x \notin pending[m]
Waits(m, transition) == \A x : x \in pending[m] <=> x = transition

\* The stages follow one another, and the last is followed by Closed.
DialogInv(m) ==
  \/ Closed(m) /\ Rests(m)
  \/ Stage(m, TRUE, TRUE, FALSE) /\ Waits(m, "backdrop in")
  \/ Stage(m, TRUE, TRUE, TRUE) /\ Waits(m, "element in")
  \/ Stage(m, TRUE, FALSE, TRUE) /\ Rests(m)
  \/ Stage(m, FALSE, TRUE, TRUE) /\ Waits(m, "element out")
  \/ Stage(m, FALSE, FALSE, FALSE) /\ Waits(m, "backdrop out")

EditorsTypes ==
  /\ instance \subseteq Modals
  /\ DOMAIN backdrops = Modals /\ DOMAIN pending = Modals /\ DOMAIN boundTo = Modals
  /\ listed \in [Modals -> Nat \ {0}]

\* The items that are edited are those that are bound.
OpenedAreBound ==
  /\ \A m \in Modals : boundTo[m] # 0 => <<m, boundTo[m]>> \in opened
  /\ \A i \in opened : \E m \in Modals : i = <<m, boundTo[m]>> /\ boundTo[m] # 0

\* A page without a dialog is as it was.
NothingLeft ==
  (\A m \in Modals : boundTo[m] = 0) => ~modalOpen /\ focusTrap = NoModal /\ resizing = {}

EditorsInv ==
  EditorsTypes /\ OpenedAreBound /\ NothingLeft /\ \A m \in Modals : DialogInv(m)

\* Nothing of the dialog changes.
Same(m) ==
  /\ m \in instance' <=> m \in instance
  /\ m \in isShown' <=> m \in isShown
  /\ m \in isTransitioning' <=> m \in isTransitioning
  /\ m \in displayed' <=> m \in displayed
  /\ backdrops'[m] = backdrops[m] /\ pending'[m] = pending[m] /\ boundTo'[m] = boundTo[m]

LEMMA SameStage == ASSUME NEW m, DialogInv(m), Same(m) PROVE DialogInv(m)'
<1>1. ASSUME NEW a \in BOOLEAN, NEW b \in BOOLEAN, NEW c \in BOOLEAN, Stage(m, a, b, c)
      PROVE  Stage(m, a, b, c)'
  BY <1>1 DEF Stage, Same
<1>2. Closed(m) => Closed(m)'
  BY DEF Closed, Same
<1>3. (Rests(m) => Rests(m)') /\ \A w : Waits(m, w) => Waits(m, w)'
  BY DEF Rests, Waits, Same
<1> QED
  BY <1>1, <1>2, <1>3 DEF DialogInv

\* What a dialog waits for tells its stage.
LEMMA WaitingStage ==
  ASSUME NEW m, DialogInv(m)
  PROVE  /\ "backdrop in" \in pending[m] => Stage(m, TRUE, TRUE, FALSE) /\ Waits(m, "backdrop in")
         /\ "element in" \in pending[m] => Stage(m, TRUE, TRUE, TRUE) /\ Waits(m, "element in")
         /\ "element out" \in pending[m] => Stage(m, FALSE, TRUE, TRUE) /\ Waits(m, "element out")
         /\ "backdrop out" \in pending[m] => Stage(m, FALSE, FALSE, FALSE) /\ Waits(m, "backdrop out")
<1>1. /\ Rests(m) => \A t : t \notin pending[m]
      /\ \A t : t \in pending[m] => \A w : Waits(m, w) => w = t
  BY DEF Rests, Waits
<1>2. /\ "backdrop in" # "element in" /\ "backdrop in" # "element out"
      /\ "backdrop in" # "backdrop out" /\ "element in" # "element out"
      /\ "element in" # "backdrop out" /\ "element out" # "backdrop out"
  OBVIOUS
<1>3. ASSUME "backdrop in" \in pending[m]
      PROVE  Stage(m, TRUE, TRUE, FALSE) /\ Waits(m, "backdrop in")
  <2>1. ~Rests(m) /\ \A w : Waits(m, w) => w = "backdrop in"
    BY <1>1, <1>3
  <2> QED
    BY <1>2, <2>1, Zenon DEF DialogInv
<1>4. ASSUME "element in" \in pending[m]
      PROVE  Stage(m, TRUE, TRUE, TRUE) /\ Waits(m, "element in")
  <2>1. ~Rests(m) /\ \A w : Waits(m, w) => w = "element in"
    BY <1>1, <1>4
  <2> QED
    BY <1>2, <2>1, Zenon DEF DialogInv
<1>5. ASSUME "element out" \in pending[m]
      PROVE  Stage(m, FALSE, TRUE, TRUE) /\ Waits(m, "element out")
  <2>1. ~Rests(m) /\ \A w : Waits(m, w) => w = "element out"
    BY <1>1, <1>5
  <2> QED
    BY <1>2, <2>1, Zenon DEF DialogInv
<1>6. ASSUME "backdrop out" \in pending[m]
      PROVE  Stage(m, FALSE, FALSE, FALSE) /\ Waits(m, "backdrop out")
  <2>1. ~Rests(m) /\ \A w : Waits(m, w) => w = "backdrop out"
    BY <1>1, <1>6
  <2> QED
    BY <1>2, <2>1, Zenon DEF DialogInv
<1> QED
  BY <1>3, <1>4, <1>5, <1>6

LEMMA InitEditorsInv == DialogsInit => EditorsInv
BY DEF DialogsInit, ModalInit, EditorsInv, EditorsTypes, OpenedAreBound, NothingLeft,
  DialogInv, Closed, Rests

LEMMA SameEditors ==
  ASSUME EditorsInv,
         UNCHANGED <<instance, isShown, isTransitioning, displayed, backdrops, pending, boundTo,
                     opened, modalOpen, focusTrap, resizing>>,
         listed' \in [Modals -> Nat \ {0}]
  PROVE  EditorsInv'
<1>1. EditorsTypes' /\ OpenedAreBound' /\ NothingLeft'
  BY DEF EditorsInv, EditorsTypes, OpenedAreBound, NothingLeft
<1>2. ASSUME NEW m \in Modals PROVE DialogInv(m)'
  BY SameStage DEF EditorsInv, Same
<1> QED
  BY <1>1, <1>2 DEF EditorsInv

\* A dialog that opens was closed.
LEMMA OpenEditor ==
  ASSUME EditorsInv, NEW m \in Modals, EditBegin(m)
  PROVE  EditorsInv'
<1>1. CASE ~Bindable(m)
  BY <1>1, SameEditors DEF EditBegin, Bind, modalVars, EditorsInv, EditorsTypes
<1>2. CASE Bindable(m)
  <2>1. boundTo[m] = 0 /\ Closed(m) /\ Rests(m)
    BY <1>2 DEF Bindable, EditorsInv, DialogInv, Stage
  <2>2. /\ boundTo' = [boundTo EXCEPT ![m] = listed[m]]
        /\ opened' = opened \cup {<<m, listed[m]>>}
        /\ listed' = listed
        /\ instance' = instance \cup {m}
        /\ isTransitioning' = isTransitioning \cup {m}
        /\ isShown' = isShown \cup {m}
        /\ backdrops' = [backdrops EXCEPT ![m] = @ + 1]
        /\ pending' = [pending EXCEPT ![m] = @ \cup {"backdrop in"}]
        /\ displayed' = displayed
    BY <1>2, <2>1 DEF EditBegin, Bind, Show, LayBackdrop, Closed
  <2>3. EditorsTypes'
    BY <2>2 DEF EditorsInv, EditorsTypes
  <2>4. /\ boundTo'[m] = listed[m] /\ listed[m] # 0
        /\ backdrops'[m] = backdrops[m] + 1
        /\ pending'[m] = pending[m] \cup {"backdrop in"}
    BY <2>2 DEF EditorsInv, EditorsTypes
  <2>5. \A d \in Modals \ {m} : boundTo'[d] = boundTo[d] /\ Same(d)
    BY <2>2 DEF EditorsInv, EditorsTypes, Same
  <2>6. Stage(m, TRUE, TRUE, FALSE)' /\ Waits(m, "backdrop in")'
    <3>1. backdrops'[m] = 1
      <4>1. backdrops[m] = 0
        BY <2>1 DEF Closed
      <4>2. backdrops'[m] = backdrops[m] + 1
        BY <2>4
      <4> QED
        BY <4>1, <4>2
    <3> QED
      BY <2>1, <2>2, <2>4, <3>1 DEF Stage, Waits, Rests, Closed
  <2>7. \A d \in Modals \ {m} : DialogInv(d)'
    BY <2>5, SameStage DEF EditorsInv
  <2>8. OpenedAreBound'
    <3>1. <<m, boundTo'[m]>> \in opened' /\ boundTo'[m] # 0 /\ opened \subseteq opened'
      <4>1. opened' = opened \cup {<<m, listed[m]>>}
        BY <2>2
      <4> QED
        BY <2>4, <4>1
    <3>2. \A d \in Modals \ {m} : boundTo'[d] # 0 => <<d, boundTo'[d]>> \in opened'
      BY <2>5, <3>1 DEF EditorsInv, OpenedAreBound
    <3>3. ASSUME NEW i \in opened'
          PROVE  \E d \in Modals : i = <<d, boundTo'[d]>> /\ boundTo'[d] # 0
      <4>1. CASE i \in opened
        <5>1. PICK d \in Modals : i = <<d, boundTo[d]>> /\ boundTo[d] # 0
          BY <4>1 DEF EditorsInv, OpenedAreBound
        <5>2. d # m /\ boundTo'[d] = boundTo[d]
          BY <2>1, <2>5, <5>1
        <5> QED
          BY <5>1, <5>2
      <4>2. CASE i = <<m, listed[m]>>
        BY <2>4, <4>2
      <4> QED
        BY <2>2, <4>1, <4>2
    <3> QED
      BY <3>1, <3>2, <3>3 DEF OpenedAreBound
  <2>9. NothingLeft'
    BY <2>4 DEF NothingLeft
  <2> QED
    BY <2>3, <2>6, <2>7, <2>8, <2>9 DEF EditorsInv, DialogInv
<1> QED
  BY <1>1, <1>2

\* A step of a dialog that stays bound: only its stage changes.
LEMMA NextStage ==
  ASSUME EditorsInv, NEW m \in Modals, DialogInv(m)', boundTo[m] # 0,
         \A d \in Modals \ {m} : Same(d), EditorsTypes', UNCHANGED <<boundTo, opened>>
  PROVE  EditorsInv'
<1>1. \A d \in Modals \ {m} : DialogInv(d)'
  BY SameStage DEF EditorsInv
<1>2. OpenedAreBound' /\ NothingLeft'
  BY DEF EditorsInv, OpenedAreBound, NothingLeft
<1> QED
  BY <1>1, <1>2 DEF EditorsInv

\* What is closed by the user was open, and at rest.
LEMMA HideEditor ==
  ASSUME EditorsInv, NEW m \in Modals, EditEnd(m) \/ Dismiss(m)
  PROVE  EditorsInv'
<1>0. Hide(m) /\ UNCHANGED editorVars
  BY DEF EditEnd, Dismiss
<1>1. CASE ~Hidable(m)
  BY <1>0, <1>1, SameEditors DEF Hide, editorVars, modalVars, EditorsInv, EditorsTypes
<1>2. CASE Hidable(m)
  <2>1. Stage(m, TRUE, FALSE, TRUE) /\ Rests(m)
    BY <1>2 DEF Hidable, EditorsInv, DialogInv, Closed, Stage
  <2>2. /\ isShown' = isShown \ {m}
        /\ isTransitioning' = isTransitioning \cup {m}
        /\ pending' = [pending EXCEPT ![m] = @ \cup {"element out"}]
        /\ UNCHANGED <<instance, displayed, backdrops, boundTo, listed, opened>>
    BY <1>0, <1>2 DEF Hide, editorVars
  <2>3. EditorsTypes' /\ pending'[m] = pending[m] \cup {"element out"} /\ boundTo[m] # 0
    BY <2>1, <2>2 DEF EditorsInv, EditorsTypes, Stage
  <2>4. \A d \in Modals \ {m} : Same(d)
    BY <2>2 DEF EditorsInv, EditorsTypes, Same
  <2>5. Stage(m, FALSE, TRUE, TRUE)' /\ Waits(m, "element out")'
    BY <2>1, <2>2, <2>3 DEF Stage, Rests, Waits
  <2> QED
    BY <2>2, <2>3, <2>4, <2>5, NextStage DEF DialogInv
<1> QED
  BY <1>1, <1>2

\* The end of a transition leads from a stage to the next.
LEMMA EndTransition ==
  ASSUME EditorsInv, NEW m \in Modals, TransitionEnd(m)
  PROVE  EditorsInv'
<1>1. DialogInv(m) /\ m \in DOMAIN pending /\ m \in DOMAIN backdrops /\ m \in DOMAIN boundTo
  BY DEF EditorsInv, EditorsTypes
<1>2. CASE ShowElement(m) /\ UNCHANGED editorVars
  <2>1. Stage(m, TRUE, TRUE, FALSE) /\ Waits(m, "backdrop in")
    BY <1>1, <1>2, WaitingStage DEF ShowElement
  <2>2. /\ displayed' = displayed \cup {m}
        /\ pending' = [pending EXCEPT ![m] = (@ \ {"backdrop in"}) \cup {"element in"}]
        /\ UNCHANGED <<instance, isShown, isTransitioning, backdrops, boundTo, listed, opened>>
    BY <1>2 DEF ShowElement, editorVars
  <2>3. pending'[m] = (pending[m] \ {"backdrop in"}) \cup {"element in"}
    BY <1>1, <2>2
  <2>4. Stage(m, TRUE, TRUE, TRUE)' /\ Waits(m, "element in")'
    BY <2>1, <2>2, <2>3 DEF Stage, Waits, Rests
  <2>5. EditorsTypes' /\ \A d \in Modals \ {m} : Same(d)
    BY <2>2 DEF EditorsInv, EditorsTypes, Same
  <2> QED
    BY <2>1, <2>2, <2>4, <2>5, NextStage DEF DialogInv, Stage
<1>3. CASE Shown(m) /\ UNCHANGED editorVars
  <2>1. Stage(m, TRUE, TRUE, TRUE) /\ Waits(m, "element in")
    BY <1>1, <1>3, WaitingStage DEF Shown
  <2>2. /\ isTransitioning' = isTransitioning \ {m}
        /\ pending' = [pending EXCEPT ![m] = @ \ {"element in"}]
        /\ UNCHANGED <<instance, isShown, displayed, backdrops, boundTo, listed, opened>>
    BY <1>3 DEF Shown, editorVars
  <2>3. pending'[m] = pending[m] \ {"element in"}
    BY <1>1, <2>2
  <2>4. Stage(m, TRUE, FALSE, TRUE)' /\ Rests(m)'
    BY <2>1, <2>2, <2>3 DEF Stage, Waits, Rests
  <2>5. EditorsTypes' /\ \A d \in Modals \ {m} : Same(d)
    BY <2>2 DEF EditorsInv, EditorsTypes, Same
  <2> QED
    BY <2>1, <2>2, <2>4, <2>5, NextStage DEF DialogInv, Stage
<1>4. CASE HideModal(m) /\ UNCHANGED editorVars
  <2>1. Stage(m, FALSE, TRUE, TRUE) /\ Waits(m, "element out")
    BY <1>1, <1>4, WaitingStage DEF HideModal
  <2>2. /\ displayed' = displayed \ {m}
        /\ isTransitioning' = isTransitioning \ {m}
        /\ pending' = [pending EXCEPT ![m] = (@ \ {"element out"}) \cup {"backdrop out"}]
        /\ UNCHANGED <<instance, isShown, backdrops, boundTo, listed, opened>>
    BY <1>4 DEF HideModal, editorVars
  <2>3. pending'[m] = (pending[m] \ {"element out"}) \cup {"backdrop out"}
    BY <1>1, <2>2
  <2>4. Stage(m, FALSE, FALSE, FALSE)' /\ Waits(m, "backdrop out")'
    BY <2>1, <2>2, <2>3 DEF Stage, Waits, Rests
  <2>5. EditorsTypes' /\ \A d \in Modals \ {m} : Same(d)
    BY <2>2 DEF EditorsInv, EditorsTypes, Same
  <2> QED
    BY <2>1, <2>2, <2>4, <2>5, NextStage DEF DialogInv, Stage
<1>5. CASE Hidden(m)
  <2>1. Stage(m, FALSE, FALSE, FALSE) /\ Waits(m, "backdrop out")
    BY <1>1, <1>5, WaitingStage DEF Hidden, RemoveBackdrop
  <2>2. /\ instance' = instance \ {m}
        /\ isShown' = isShown \ {m}
        /\ isTransitioning' = isTransitioning \ {m}
        /\ backdrops' = [backdrops EXCEPT ![m] = @ - 1]
        /\ pending' = [pending EXCEPT ![m] = @ \ {"backdrop out"}]
        /\ boundTo' = [boundTo EXCEPT ![m] = 0]
        /\ opened' = opened \ {<<m, boundTo[m]>>}
        /\ UNCHANGED <<displayed, listed>>
        /\ ~modalOpen' /\ focusTrap' = NoModal /\ resizing' = {}
    BY <1>5 DEF Hidden, RemoveBackdrop, ResetScrollbar, Dispose
  <2>3. /\ pending'[m] = pending[m] \ {"backdrop out"}
        /\ backdrops'[m] = backdrops[m] - 1 /\ boundTo'[m] = 0
    BY <1>1, <2>2
  <2>4. Closed(m)' /\ Rests(m)'
    <3>1. Rests(m)'
      BY <2>1, <2>3 DEF Waits, Rests
    <3>2. backdrops'[m] = 0
      <4>1. backdrops[m] = 1
        BY <2>1 DEF Stage
      <4>2. backdrops'[m] = backdrops[m] - 1
        BY <2>3
      <4> QED
        BY <4>1, <4>2
    <3> QED
      BY <2>1, <2>2, <2>3, <3>1, <3>2 DEF Stage, Closed
  <2>5. EditorsTypes' /\ \A d \in Modals \ {m} : boundTo'[d] = boundTo[d] /\ Same(d)
    BY <2>2 DEF EditorsInv, EditorsTypes, Same
  <2>6. \A d \in Modals \ {m} : DialogInv(d)'
    BY <2>5, SameStage DEF EditorsInv
  <2>7. OpenedAreBound'
    <3>1. ASSUME NEW d \in Modals, boundTo'[d] # 0 PROVE <<d, boundTo'[d]>> \in opened'
      <4>1. d # m /\ boundTo'[d] = boundTo[d]
        BY <2>3, <2>5, <3>1
      <4>2. <<d, boundTo[d]>> \in opened /\ <<d, boundTo[d]>> # <<m, boundTo[m]>>
        BY <3>1, <4>1 DEF EditorsInv, OpenedAreBound
      <4>3. opened' = opened \ {<<m, boundTo[m]>>}
        BY <2>2
      <4> QED
        BY <4>1, <4>2, <4>3
    <3>2. ASSUME NEW i \in opened'
          PROVE  \E d \in Modals : i = <<d, boundTo'[d]>> /\ boundTo'[d] # 0
      <4>1. PICK d \in Modals : i = <<d, boundTo[d]>> /\ boundTo[d] # 0
        BY <2>2 DEF EditorsInv, OpenedAreBound
      <4>2. d # m
        BY <2>2, <4>1
      <4> QED
        BY <2>5, <4>1, <4>2
    <3> QED
      BY <3>1, <3>2 DEF OpenedAreBound
  <2>8. NothingLeft'
    BY <2>2 DEF NothingLeft
  <2> QED
    BY <2>4, <2>5, <2>6, <2>7, <2>8 DEF EditorsInv, DialogInv
<1> QED
  BY <1>2, <1>3, <1>4, <1>5 DEF TransitionEnd

LEMMA NextEditorsInv == EditorsInv /\ [WidgetsNext]_widgetVars => EditorsInv'
<1> SUFFICES ASSUME EditorsInv, [WidgetsNext]_widgetVars PROVE EditorsInv'
  OBVIOUS
<1>1. CASE UNCHANGED dialogVars
  BY <1>1, SameEditors DEF dialogVars, modalVars, editorVars, EditorsInv, EditorsTypes
<1>2. ASSUME NEW m \in Modals, ListReplaced(m) PROVE EditorsInv'
  <2>1. listed' \in [Modals -> Nat \ {0}]
    BY <1>2 DEF ListReplaced, EditorsInv, EditorsTypes
  <2> QED
    BY <1>2, <2>1, SameEditors DEF ListReplaced, modalVars
<1> QED
  BY <1>1, <1>2, OpenEditor, HideEditor, EndTransition
    DEF WidgetsNext, WidgetsUserStep, EndOfTransition, widgetVars

(***************************************************************************)
(* Whatever is pressed and answered while dialogs come and go: the dialog  *)
(* that is open is bound to the item that can close it, and the last one   *)
(* leaves the page as it was (modal.js, entities.js).                      *)
(***************************************************************************)
THEOREM EditorsConsistent == WidgetsSpec => []DialogsConsistent
<1>1. EditorsInv => DialogsConsistent
  <2> SUFFICES ASSUME EditorsInv PROVE DialogsConsistent
    OBVIOUS
  <2>1. ASSUME NEW m \in Modals
        PROVE  /\ m \in displayed => boundTo[m] # 0
               /\ backdrops[m] <= 1
               /\ DialogAtRest(m) => /\ m \in isShown <=> m \in displayed
                                     /\ m \in isShown <=> backdrops[m] = 1
                                     /\ m \in isShown <=> boundTo[m] # 0
                                     /\ m \notin isTransitioning
               /\ DialogAtRest(m) /\ m \notin isShown => m \notin instance /\ boundTo[m] = 0
    <3>1. DialogInv(m) /\ (DialogAtRest(m) => Rests(m))
      BY DEF EditorsInv, DialogAtRest, Rests
    <3>2. Waits(m, "backdrop in") \/ Waits(m, "element in") \/ Waits(m, "element out")
            \/ Waits(m, "backdrop out") => ~Rests(m)
      BY DEF Waits, Rests
    <3>3. CASE Closed(m) /\ Rests(m)
      BY <3>3 DEF Closed
    <3>4. CASE Stage(m, TRUE, FALSE, TRUE)
      BY <3>4 DEF Stage
    <3>5. CASE ~Rests(m) /\ boundTo[m] # 0 /\ backdrops[m] = 1
      BY <3>1, <3>5
    <3> QED
      BY <3>1, <3>2, <3>3, <3>4, <3>5 DEF DialogInv, Stage
  <2>2. ASSUME NEW m \in Modals, m \in displayed PROVE <<m, boundTo[m]>> \in opened
    BY <2>1, <2>2 DEF EditorsInv, OpenedAreBound
  <2>3. ASSUME \A m \in Modals : DialogAtRest(m) /\ m \notin isShown
        PROVE  ~modalOpen /\ focusTrap = NoModal /\ resizing = {} /\ instance = {} /\ opened = {}
    <3>1. \A m \in Modals : boundTo[m] = 0 /\ m \notin instance
      BY <2>1, <2>3
    <3> QED
      BY <3>1 DEF EditorsInv, EditorsTypes, OpenedAreBound, NothingLeft
  <2> QED
    BY <2>1, <2>2, <2>3 DEF DialogsConsistent
<1>2. WidgetsInit => EditorsInv
  BY InitEditorsInv DEF WidgetsInit
<1> QED
  BY <1>1, <1>2, NextEditorsInv, PTL DEF WidgetsSpec

-----------------------------------------------------------------------------
(* The menus.                                                              *)

\* At most one menu is open, the one that has the focus.
MenusInv ==
  /\ focus \in FocusPlaces /\ dropdowns \subseteq Toggles
  /\ open \subseteq dropdowns /\ expanded = open
  /\ \A t, u \in open : t = u
  /\ \A t \in open : HasFocus(t) \/ focus = <<>> \/ tabbing
  /\ focus # <<>> /\ focus[2] > 0 => focus[1] \in open

LEMMA InitMenusInv == DropdownInit => MenusInv
BY DEF DropdownInit, MenusInv, FocusPlaces

\* All open menus belong to a Dropdown, so all that are not spared close.
LEMMA MenusCleared ==
  ASSUME MenusInv, NEW spared, ClearMenus(spared)
  PROVE  open' = open \cap spared /\ expanded' = open'
BY DEF ClearMenus, MenusInv

LEMMA MenuToggled ==
  ASSUME MenusInv, NEW t \in Toggles, ToggleMenu(t)
  PROVE  MenusInv'
<1>1. /\ dropdowns' = dropdowns \cup {t} /\ focus' = <<t, 0>>
  BY DEF ToggleMenu
<1>2. open' = (IF t \in open THEN {} ELSE {t}) /\ expanded' = open'
  <2>1. CASE t \in open
    <3>1. ClearMenus({})
      BY <2>1 DEF ToggleMenu
    <3> QED
      BY <2>1, <3>1, MenusCleared
  <2>2. CASE t \notin open
    <3>1. open' = (open \ dropdowns) \cup {t} /\ expanded' = (expanded \ dropdowns) \cup {t}
      BY <2>2 DEF ToggleMenu
    <3> QED
      BY <2>2, <3>1 DEF MenusInv
  <2> QED
    BY <2>1, <2>2
<1>3. <<t, 0>> \in FocusPlaces /\ <<t, 0>> # <<>>
  BY DEF FocusPlaces
<1>4. focus'[1] = t /\ focus'[2] = 0 /\ focus' \in FocusPlaces
  BY <1>1, <1>3
<1>5. open' \subseteq {t}
  BY <1>2
<1>6. \A u \in open' : HasFocus(u)'
  BY <1>1, <1>3, <1>4, <1>5 DEF HasFocus
<1> QED
  BY <1>1, <1>2, <1>4, <1>5, <1>6 DEF MenusInv

LEMMA MenusClosed ==
  ASSUME MenusInv, ClearMenus({}), UNCHANGED dropdowns,
         focus' \in FocusPlaces, focus' = <<>> \/ focus'[2] = 0
  PROVE  MenusInv'
<1>1. open' = {} /\ expanded' = {}
  BY MenusCleared
<1> QED
  BY <1>1 DEF MenusInv

\* The focus moves within the menu that is open.
LEMMA FocusMoved ==
  ASSUME MenusInv, NEW t \in open, HasFocus(t), NEW i \in 0..MenuItems,
         UNCHANGED <<dropdowns, open, expanded>>, focus' = <<t, i>>
  PROVE  MenusInv'
<1>1. <<t, i>> \in FocusPlaces
  BY DEF MenusInv, FocusPlaces
<1>2. focus'[1] = t /\ focus' # <<>>
  OBVIOUS
<1> QED
  BY <1>1, <1>2 DEF MenusInv, HasFocus

LEMMA NextMenusInv == MenusInv /\ [WidgetsNext]_widgetVars => MenusInv'
<1> SUFFICES ASSUME MenusInv, [WidgetsNext]_widgetVars PROVE MenusInv'
  OBVIOUS
<1>0. <<>> \in FocusPlaces
  BY DEF FocusPlaces
<1>1. ASSUME ClickPage PROVE MenusInv'
  BY <1>0, <1>1, MenusClosed DEF ClickPage
<1>2. CASE UNCHANGED dropdownVars
  BY <1>2 DEF dropdownVars, MenusInv, HasFocus, FocusPlaces
<1>3. ASSUME NEW m \in Modals, EndOfTransition(m) PROVE MenusInv'
  <2>1. (focus' = <<>> \/ focus' = focus) /\ UNCHANGED <<dropdowns, open, expanded, tabbing>>
    BY <1>3 DEF EndOfTransition, FocusDialog
  <2> QED
    BY <1>0, <2>1 DEF MenusInv, HasFocus, FocusPlaces
<1>4. ASSUME NEW t \in Toggles, EscapeKey(t) PROVE MenusInv'
  <2>1. CASE t \notin open
    BY <1>4, <2>1, MenuToggled DEF EscapeKey, ClickToggle
  <2>2. CASE t \in open
    <3>1. ClearMenus({}) /\ focus' = <<t, 0>> /\ UNCHANGED dropdowns
      BY <1>4, <2>2 DEF EscapeKey
    <3>2. <<t, 0>> \in FocusPlaces /\ <<t, 0>>[2] = 0
      BY DEF FocusPlaces
    <3> QED
      BY <3>1, <3>2, MenusClosed
  <2> QED
    BY <2>1, <2>2
<1>5. ASSUME NEW t \in Toggles, NEW by \in {-1, 1}, ArrowKey(t, by) PROVE MenusInv'
  <2>1. CASE t \notin open
    BY <1>5, <2>1, MenuToggled DEF ArrowKey, ClickToggle
  <2>2. CASE t \in open
    <3>1. HasFocus(t) /\ UNCHANGED <<dropdowns, open, expanded>>
      BY <1>5, <2>2 DEF ArrowKey
    <3>2. focus = <<t, focus[2]>> /\ focus[2] \in 0..MenuItems
      BY <3>1 DEF MenusInv, FocusPlaces, HasFocus
    <3>3. \E i \in 0..MenuItems : focus' = <<t, i>>
      <4>1. CASE MenuItems = 0
        <5>1. focus' = focus
          BY <1>5, <2>2, <4>1 DEF ArrowKey
        <5> QED
          BY <3>2, <5>1
      <4>2. CASE MenuItems # 0
        <5> DEFINE to == focus[2] + by
                   i == CASE to < 1 -> 1 [] to > MenuItems -> MenuItems [] OTHER -> to
        <5>1. focus' = <<t, i>>
          BY <1>5, <2>2, <4>2 DEF ArrowKey
        <5>2. to \in Int /\ MenuItems \in Nat \ {0}
          BY <3>2, <4>2
        <5> HIDE DEF to
        <5>3. i \in 0..MenuItems
          BY <5>2
        <5> QED
          BY <5>1, <5>3
      <4> QED
        BY <4>1, <4>2
    <3> QED
      BY <2>2, <3>1, <3>3, FocusMoved
  <2> QED
    BY <2>1, <2>2
<1>6. ASSUME NEW place \in FocusPlaces, TabDown(place) PROVE MenusInv'
  BY <1>6, Zenon DEF TabDown, MenusInv
<1>7. CASE TabUp
  <2>1. ClearMenus(Spared(focus)) /\ UNCHANGED <<dropdowns, focus>>
    BY <1>7 DEF TabUp
  <2>2. CASE focus = <<>>
    BY <1>0, <2>1, <2>2, MenusClosed DEF Spared
  <2>3. CASE focus # <<>>
    <3>1. open' = open \cap {focus[1]} /\ expanded' = open'
      BY <2>1, <2>3, MenusCleared DEF Spared
    <3>2. \A u \in open' : HasFocus(u)'
      BY <2>1, <2>3, <3>1 DEF HasFocus
    <3> QED
      BY <2>1, <2>3, <3>1, <3>2 DEF MenusInv, FocusPlaces
  <2> QED
    BY <2>2, <2>3
<1> QED
  BY <1>1, <1>2, <1>3, <1>4, <1>5, <1>6, <1>7, MenuToggled
    DEF WidgetsNext, WidgetsUserStep, DropdownNext, ClickToggle, widgetVars

(***************************************************************************)
(* Whatever is clicked and typed: one menu at most is open; the focus is   *)
(* in it, or was taken by a dialog, or moves with the tab key that is      *)
(* still down; and it is in no closed one (dropdown.js).                   *)
(***************************************************************************)
THEOREM MenusAlwaysConsistent == WidgetsSpec => []MenusConsistent
<1>1. MenusInv => MenusConsistent
  <2> SUFFICES ASSUME MenusInv PROVE MenusConsistent
    OBVIOUS
  <2>1. Cardinality(open) <= 1
    <3>1. CASE open = {}
      BY <3>1, FS_EmptySet
    <3>2. ASSUME NEW t \in open PROVE Cardinality(open) <= 1
      <4>1. open = {t}
        BY DEF MenusInv
      <4>2. Cardinality({t}) = 1
        BY FS_Singleton
      <4> QED
        BY <4>1, <4>2
    <3> QED
      BY <3>1, <3>2
  <2> QED
    BY <2>1 DEF MenusInv, MenusConsistent
<1>2. WidgetsInit => MenusInv
  BY InitMenusInv DEF WidgetsInit
<1> QED
  BY <1>1, <1>2, NextMenusInv, PTL DEF WidgetsSpec

=============================================================================
