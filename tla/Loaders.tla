-------------------------------- MODULE Loaders --------------------------------
(***************************************************************************)
(* How the management site asks its server: the modules under js/api send  *)
(* a request and keep its outcome in a loader (a jQuery Deferred), those   *)
(* under js/loader turn the outcome into a call of one of two callbacks.   *)
(*                                                                         *)
(* A callback is named by what it does to the page:                        *)
(*   fill, giveUp    the two callbacks of a section's refresh (app.js:40)  *)
(*   store, ignore   the two callbacks of an item's refresh (entities.js)  *)
(* JavaScript passes arguments by position, so which of them a loader      *)
(* calls depends on the order of its parameters.                           *)
(*                                                                         *)
(* A version stands for the data of a kind: the server's data moves from   *)
(* one to the next, and the page shows the version of an answer.           *)
(***************************************************************************)
EXTENDS Naturals, FiniteSets, Sequences

CONSTANTS
  Kinds,       \* the kinds of data that the site asks for
  MaxCalls,    \* bound on the requests
  MaxVersion   \* bound on the changes of a kind on the server

ASSUME LoadersAssumption ==
  /\ Kinds \subseteq {"policy", "service", "secret", "tracking"}
  /\ MaxCalls \in Nat /\ MaxVersion \in Nat \ {0}

VARIABLES
  requests,  \* requests that are under way
  made,      \* how many were sent
  stored,    \* kind -> the version of the server
  shown,     \* kind -> the version that the page shows, 0 for none
  loading,   \* kind -> whether the section waits for an answer
  told       \* kind -> what the last call for an item led to

loaderVars == <<requests, made, stored, shown, loading, told>>

-----------------------------------------------------------------------------
(* What the functions of js/api do: "settles" when the loader they return  *)
(* is settled by any answer, "if any" when only by an answer with data     *)
(* (the server answers 404 where it has none), "nothing" when they build   *)
(* the loader and do not return it, "throws" for a name that is not there. *)

PolicyApi ==
  [getAll |-> "settles", get |-> "settles", save |-> "nothing", delete |-> "nothing"]

SecretApi ==
  [getAll |-> "if any", get |-> "if any", save |-> "nothing", delete |-> "nothing"]

ServiceApi ==
  [getAll |-> "if any", get |-> "if any", save |-> "nothing", delete |-> "nothing"]

TrackingApi == [getAll |-> "settles", get |-> "throws"]

Api == [policy |-> PolicyApi, secret |-> SecretApi, service |-> ServiceApi, tracking |-> TrackingApi]

(* The parameters of the functions of js/loader, in order.                 *)

PolicyLoader ==
  [getAll |-> <<"shallow", "oncomplete", "onerror">>,
   get    |-> <<"policyId", "shallow", "oncomplete", "onerror">>,
   save   |-> <<"policy", "oncomplete", "onerror">>,
   delete |-> <<"policyId", "oncomplete", "onerror">>]

SecretLoader ==
  [getAll |-> <<"shallow", "oncomplete", "onerror">>,
   get    |-> <<"secretId", "shallow", "oncomplete", "onerror">>,
   save   |-> <<"secret", "oncomplete", "onerror">>,
   delete |-> <<"secretId", "oncomplete", "onerror">>]

ServiceLoader ==
  [getAll |-> <<"shallow", "oncomplete", "onerror">>,
   get    |-> <<"serviceId", "shallow", "oncomplete", "onerror">>,
   save   |-> <<"service", "oncomplete", "onerror">>,
   delete |-> <<"serviceId", "oncomplete", "onerror">>]

TrackingLoader ==
  [getAll |-> <<"start", "end", "oncomplete", "onerror">>,
   get    |-> <<"id", "oncomplete", "onerror">>]

Loader ==
  [policy |-> PolicyLoader, secret |-> SecretLoader,
   service |-> ServiceLoader, tracking |-> TrackingLoader]

\* The argument that a call binds to a parameter.
Argument(kind, op, args, name) ==
  LET parameters == Loader[kind][op]
      at == {i \in DOMAIN args : parameters[i] = name}
  IN IF at = {} THEN "undefined" ELSE args[CHOOSE i \in at : TRUE]

\* The arguments with which a section asks for its list.
ListArguments(kind) ==
  IF kind = "tracking" THEN <<"start", "end", "fill", "giveUp">> ELSE <<"true", "fill", "giveUp">>

\* The arguments with which an item asks for itself.
ItemArguments == <<"id", "store", "ignore">>

-----------------------------------------------------------------------------
(* What a callback does.                                                   *)

Invoke(callback, kind, version) ==
  /\ shown' = IF callback \in {"fill", "store"} THEN [shown EXCEPT ![kind] = version] ELSE shown
  /\ loading' = IF callback \in {"fill", "giveUp"} THEN [loading EXCEPT ![kind] = FALSE] ELSE loading
  /\ told' = CASE callback = "store" -> [told EXCEPT ![kind] = "stored"]
               [] callback = "ignore" -> [told EXCEPT ![kind] = "failed"]
               [] OTHER -> told

\* The request that a function of js/api sends for a call of js/loader.
Request(id, kind, op, args) ==
  [id |-> id, kind |-> kind, op |-> op, phase |-> "sent", version |-> 0,
   oncomplete |-> Argument(kind, op, args, "oncomplete"),
   onerror |-> Argument(kind, op, args, "onerror")]

ListRequest(id, kind) == Request(id, kind, "getAll", ListArguments(kind))

\* A number that tells a request from those under way.
NextId == CHOOSE n \in 1..MaxCalls : \A r \in requests : r.id # n

LoadersInit ==
  /\ requests = {}
  /\ made = 0
  /\ stored = [k \in Kinds |-> 1]
  /\ shown = [k \in Kinds |-> 0]
  /\ loading = [k \in Kinds |-> FALSE]
  /\ told = [k \in Kinds |-> "nothing"]

-----------------------------------------------------------------------------
(* Calls.                                                                  *)

\* Mutant: a section that waits for an answer asks again.
AlwaysRefreshable(k) == TRUE

Refreshable(k) == ~loading[k]

\* A section that waits for an answer does not ask again.  The table keeps
\* showing the pages it has.
RefreshSection(k) ==
  /\ Refreshable(k)
  /\ made < MaxCalls
  /\ requests' = requests \cup {ListRequest(NextId, k)}
  /\ made' = made + 1
  /\ loading' = [loading EXCEPT ![k] = TRUE]
  /\ UNCHANGED <<stored, shown, told>>

\* actions.refresh of a policy, a service or a secret.
RefreshItem(k) ==
  /\ k # "tracking"
  /\ shown[k] > 0
  /\ made < MaxCalls
  /\ requests' = requests \cup {Request(NextId, k, "get", ItemArguments)}
  /\ made' = made + 1
  /\ UNCHANGED <<stored, shown, loading, told>>

\* Save and delete, whose loader is not there: the user is said not to be
\* authenticated, and nothing is sent.
ChangeItem(k) ==
  /\ shown[k] > 0
  /\ \E op \in {"save", "delete"} \cap DOMAIN Api[k] :
       /\ Api[k][op] = "nothing"
       /\ Argument(k, op, ItemArguments, "onerror") # "undefined"
  /\ told' = [told EXCEPT ![k] = "unauthenticated"]
  /\ UNCHANGED <<requests, made, stored, shown, loading>>

\* The transaction of an id cannot be asked for: the caller gets an exception.
GetTransaction(k) ==
  /\ Api[k].get = "throws"
  /\ shown[k] > 0
  /\ told' = [told EXCEPT ![k] = "exception"]
  /\ UNCHANGED <<requests, made, stored, shown, loading>>

-----------------------------------------------------------------------------
(* Answers.                                                                *)

ChangeStored(k) ==
  /\ stored[k] < MaxVersion
  /\ stored' = [stored EXCEPT ![k] = @ + 1]
  /\ UNCHANGED <<requests, made, shown, loading, told>>

\* The server reads its data; the answer is on its way.
Serve(r) ==
  /\ r.phase = "sent"
  /\ requests' = (requests \ {r}) \cup {[r EXCEPT !.phase = "answered", !.version = stored[r.kind]]}
  /\ UNCHANGED <<made, stored, shown, loading, told>>

\* ajax.done: the loader is completed, and its promise calls oncomplete.
Complete(r) ==
  /\ r.phase = "answered"
  /\ Api[r.kind][r.op] \in {"settles", "if any"}
  /\ Invoke(r.oncomplete, r.kind, r.version)
  /\ requests' = requests \ {r}
  /\ UNCHANGED <<made, stored>>

\* Mutant: the failure is logged and the loader not told.
LogFailure(r) ==
  /\ requests' = requests \ {r}
  /\ UNCHANGED <<made, stored, shown, loading, told>>

\* ajax.fail: the loader fails, and its promise calls onerror.
Fail(r) ==
  /\ Invoke(r.onerror, r.kind, r.version)
  /\ requests' = requests \ {r}
  /\ UNCHANGED <<made, stored>>

=============================================================================
