# Harpocrates: specifications, model checking and proofs

This directory holds TLA+ specifications of Harpocrates, the TLC instances that check them
and theorems that TLAPS proves about them. Paths below are relative to the repository
(`src/Src/...`); short names like `MessageHandler.cs` are unique in it.
`PROJECT.json` lists, for every definition, the lines it models, and the runs, hazards,
findings and theorems.

## 1. The system

Harpocrates rotates secrets. Azure Key Vault raises an event when a secret is about to
expire, has expired or has a new version. Event Grid puts the event on the *raw* queue; a host
turns it into a request on the *formatted* queue; a host carries the request out, which may
regenerate a key of the service behind the secret, store it in the vault, and schedule updates
of the secrets that are built from it (README.md of the repository).

| Component | State | Operations | Talks to |
|---|---|---|---|
| Host loop (`Host.cs`, `ProcessingHostBackgroundService.cs`) | the tasks of the round, a cancellation token | start drains, wait, pause, stop | two queue monitors |
| Queue monitor and message handler (`QueueMonitor.cs`, `MessageHandler.cs`) | the message in hand; everything else is on the queue: visibility, dequeue count, pop receipt | peek, receive, handle, archive on the dead-letter queue, delete | storage queues, request processors |
| Request processors (`RequestProcessorFactory.cs`, `Processors/`) | a status, a bit mask | format an event, rotate, schedule updates, update | formatted queue, secret management, tracker |
| Secret rotation (`SecretMetadataManager.cs`, `SecretManagerFactory.cs`, `SecretManager.cs`, `Azure/*SecretManager.cs`) | the record of the secret (current key name, version) | choose a key, regenerate, store, disable the old version, save the record | service, vault, metadata store |
| Dependent secrets (`AzureSecretManager.cs`, `ScheduleDependencyUpdatesRequestProcessor.cs`) | expressions and associations | evaluate an expression, store the result | vault, metadata store, formatted queue |
| Metadata store (`SecretMetadataStorageAccountDataAccessProvider.cs`) | one blob for each secret, policy, configuration and association | load, list, save | blob storage |
| Tracker (`TrackingContext.cs`, `SqlServerProcessingTrackerDataAccessProvider.cs`, `Ef/Entities`) | transactions, attempts; the unit of work of a drain | record a start, record an end, list | SQL server |
| API host and the server of the management site | none | forward a request | metadata store, tracker |
| Management site: lists (`app.js`, `entities.js`, `utils.js`) | four lists, their links and pages | refresh, link, page | API |
| Management site: start, requests, navigation (`common.js`, `nav.js`, `js/api`, `js/loader`) | templates, the current page and section, the duration, the chart | load templates, ask the server, choose, draw | API, knockout |
| Management site: dialogs and menus (`entities.js`, `modal.js`, `dropdown.js`) | what is open, bound, focused, in transition | open and close an editor, a menu; keys and clicks | document, Bootstrap |
| knockout as the site uses it (`knockout-debug.js`) | observables, computeds, subscriptions; what the document shows | write, change an array, evaluate, sleep and wake, render | view models, document |
| Client caches, configuration, Azure Functions host, console host, password generator | caches, settings | | |

The other 3348 files of the repository are libraries under `wwwroot/lib`. Three of them carry behaviour that
the site depends on turn by turn and are modelled as far as it uses them: knockout, and the dialogs and dropdown
menus of Bootstrap. There are no tests.

What is hard:

- **Concurrency.** Hosts are replicated and each runs the same monitors, so several workers drain
  one queue, rotate one secret and update one dependent secret at the same time. Within a host
  one drain runs in the background. In the site templates and loads are answered in any order, keys,
  clicks and the ends of transitions come between each other, and one write of an observable makes many
  computeds run, which read and write others in the same turn.
- **Failure.** Any call to the queue, vault, service, store or database can fail; a host can end
  between two calls, after the first took effect.
- **Timeouts.** A message that is handled for longer than its visibility timeout is received again
  while the first worker still has it; the pop receipt of that worker is then void.
- **Stale state.** A rotation works from a record it loaded four calls earlier, an update from
  tokens it read one after the other. An editor is open on an item whose list is replaced; a computed
  that nobody subscribes to sleeps through changes of what it read.
- **Statuses.** The fate of a message is a bit mask that five statements in a row rewrite.

What makes each component correct: no message is lost, given up early or retried for ever; a
rotation never disables the version that applications read nor regenerates the key they still
use; a dependent secret ends with the newest values and never goes back; the history tells what
happened to which delivery; the host drains a queue once at a time, does not starve the raw queue and stops; the
lists of the site are linked to what was loaded last; no reference of the store dangles, what is put
together from several blobs is whole, and a rotation loses nothing of a record it writes back; the site comes up,
its menu, table, duration and chart agree, and no list waits for ever; a dialog can be closed and leaves nothing on
the page; the document shows what the view models say, and no subscription outlives its use.

## 2. Modules

| Module | Models | Extends / used by |
|---|---|---|
| `ProcessingStatus` | the status mask and the decision about a message, as pure operators | `MessageProcessing` |
| `MessageDisposal` | abstract: what a queue promises to those who put messages on it | implemented by `MessageProcessing` |
| `MessageProcessing` | one queue, its dead-letter queue and the workers that drain it | `MCMessageProcessing` |
| `SecretRotation` | rotations of one secret with two keys | `MCSecretRotation` |
| `DependencyUpdates` | how a new value reaches the secrets built from it | `MCDependencyUpdates` |
| `Tracking` | the tracking database as drains write it and the dashboard shows it | `MCTracking` |
| `MetadataStore` | the blobs of secrets, services, policies and associations, written by the sample data set, the API and rotations, and read in pieces | `MCMetadataStore` |
| `HostLoop` | the rounds of the host over both queues | `MCHostLoop` |
| `Dashboard` | loading, linking and paging in the site | `MCDashboard` |
| `Loaders` | the requests of the site: what each API module and loader does with its arguments | `Site` |
| `Navigation` | the menu, the pages and the sections | `Site` |
| `Site` | the page: templates, lists, duration and chart, over both | `MCSite` |
| `SiteValues` | the pure functions of the site: codecs, names, conversions, time spans | `MCSite` |
| `Modal` | the dialogs of Bootstrap | `Dialogs` |
| `Dialogs` | the editors of the site, each over a dialog | `Widgets` |
| `Dropdown` | the dropdown menus of Bootstrap | `Widgets` |
| `Widgets` | editors and menus on one page, sharing its focus and its clicks | `MCWidgets` |
| `Observables` | the dependency engine of knockout | `ObservableArrays` |
| `ArrayChanges` | scripts between two arrays, and rows that follow them | `ObservableArrays` |
| `ObservableArrays` | arrays changed in place, and who is told what | `Tables` |
| `Tables` | the configuration page as knockout shows it | `MCTables` |
| `*Proofs` | the theorems about the module they extend; `SiteProofs` about `Site`, `Dashboard` and `Widgets`, `ArrayProofs` about `ArrayChanges` | |

The modules meet at the queue: `MessageProcessing` establishes that a message is settled at least
once, is retried a bounded number of times, and may be with two workers at once after a timeout.
`SecretRotation`, `DependencyUpdates`, `Tracking` and `HostLoop` take their messages from a queue of
that kind and do not model its settlement again.

### State and actions

**MessageProcessing.** `queue`, `dequeueCount`, `popReceipt` are the queue service; `pc`, `msg` and
`attempt` are a call of `ProcessPendingMessagesAsync` and of the handler in it. `StartDrain`, `Peek`,
`Receive`, `ReceiveNothing`, `ReceiveFails`, `AbandonDrain` are the statements of the monitor;
`Process`, `RejectUnreadable` and `PoisonThrows` the ways a text is handled, each ending with
`Settle`, which applies `ProcessingStatus!Disposition`; `SendDeadLetter` and `DeleteMessage` the
calls that carry the decision out, each of which can fail. `VisibilityTimeout` is the service.
*Poison* is a message whose handling throws past the handler (an action without a processor, a text
that fails in another way than `JsonReaderException`): nothing in the code ever settles it.

**SecretRotation.** `serviceKey` are the two keys, `vault` the versions of the secret, `metadata` the
saved record; `secret` and `rotated` the local variables of a rotation. `Load`, `RegenerateKey`,
`SetSecret`, `DisablePrevious`, `SaveSecret`, `Settle` follow `SecretManagerFactory.RotateSecretAsync`
call by call; `CallFails` and `Crash` end it anywhere.

**DependencyUpdates.** The content of a dependent secret is the version of each token that went into
it. `TakeCreated` and `SendUpdate` schedule, `TakeUpdate`, `LookupToken`, `LookupFails`, `SetSecret`
evaluate and store, `Settle` deletes the message, `Fails` and `VisibilityTimeout` bring it back.

**Tracking.** `transactions` and `attempts` are the database, `added` and `entries` the `DbContext` of a
drain, which keeps what a failed save left in it. `RecordStart`/`SaveStart`/`StartThrows` and
`RecordEnd`/`SaveEnd`/`SkipEnd`/`EndThrows` are the halves of `TrackingContext`.
`ToCommonTransaction` is what the dashboard gets.

**MetadataStore.** A policy is the number of its saves, a service whether it has a blob, a secret the
version and the service its record names. `StartSeed`, `NextStage`, `Seed*` and `SeedFails` are
`Host.CreateSampleDataSetAsync`, record by record; its three switches are chosen freely. `SavePolicy` is the
only save of the API that is implemented. A *loader* is a rotation or one of the tasks a listing starts and waits
for: `ReadSecret`, `ReadService` and `ReadPolicy` are the three reads of `OnGetConfiguredSecretAsync`, and anything
may be written in between. `Rotate` stands for the whole of `SecretRotation` and shows here only as the new version
in the copy of the record that `SaveSecret` writes.

**HostLoop.** `loop` is the position in `StartAsync`, `drain` that of each `ProcessPendingMessagesAsync`.
`StartDrains`, `AwaitFormatted`, `WaitAll`, `Delay` and `Stop` are the loop; `Peek`, `Receive`, `ReceiveFails`,
`Remove`, `GiveUp` and `Keep` a drain, with handlers reduced to their outcome and to the messages they send (`Sends`):
all of them, or a part when the handler fails. Messages that `ScheduleDependencyUpdates` sends go onto the formatted
queue while it is being drained; the event that the vault raises when a request writes to it goes onto the raw queue.
The queues are filled for ever, from outside and by circles of requests; the one bound is that equal messages in a
queue are one. What a handler sends and the removal of its message are one step here (`MessageProcessing` has a
step for each).

**Dashboard.** A section is one `structures.section` with its `paginatedCollection`. `RefreshList`,
`ListArrives`, `ListFails` and the actions of the pager are one turn each of the browser's event loop. An item
carries the number of the load that made it, which is what tells a fresh instance from an old one.

**Site**, over **Loaders** and **Navigation**. `LoadTemplates`, `Listen` and `TemplateArrives` are the start of
the page (`Index.cshtml`, `common.js`): when as many templates have arrived as the page names, the view model is made, the
lists are asked for and the view model is bound to its roots. A request in `requests` has the arguments that its
caller passes, by position, and two callbacks; `Serve`, `Complete` and `Fail` are the server and the two outcomes of the
jQuery Deferred, and `Invoke` calls what stands at the place of the callback. `SelectItem`,
`SelectSectionOfConfig`, `Refresh`, `SelectDuration` and `SelectDurationTooSoon` are what a user does. `UseItem`, in
`ScriptStep`, is what the modules offer to scripts besides: the refresh, save and delete of one item and the
transaction of an id, for which the page has no control. It is there because the answer for an item is meant for
the same table as the list's, so that `NeverOlder` has to hold in spite of it.
`version` stands for the data of an answer. `SiteValues` has the functions that compute and keep nothing.

**Widgets**, over **Dialogs**, **Modal** and **Dropdown**. `isShown`, `isTransitioning`, `backdrops` and `pending` are
the fields of a `Modal` and the transitions whose end it waits for; `TransitionEnd` runs what was left for that
end. `EditBegin` and `EditEnd` are the functions of an item that bind its view model to the element and dispose of
it, `Dismiss` a key or a click that closes the dialog past the item, `ListReplaced` the answer that replaces the items of
a table while one of them is being edited. `Dropdown` is the handler of clicks and of keys at the document and at
a toggle; the focus decides which of them a key reaches. The tab key moves the focus when it goes down (`TabDown`) and
closes menus when it goes up (`TabUp`), with anything in between.

**Tables**, over **ObservableArrays**, **Observables** and **ArrayChanges**. Everything knockout does happens inside
one turn, so the engine is one record, its operators take it and return the next one, and its field `turn` has the
calls still to be made: an action writes a source and `Turn` makes the calls until none is left, among them new ones. The
actions are the operations of observable arrays (`ListChanges`), a refresh of the services and the arrival of
one, the link of a secret to its service (`ExtendSecret`), the choice of a section, and the editor with its
keys (`OpenEditor`, `KeyDown`, `AfterKeyDown`, `CloseEditor`). Bindings are computeds: `with` renders the section, `foreach`
its rows, `text` a cell, `css` the tab, `click` and `value` the tab and the editor.

## 3. Runs

| Run | Shows | States |
|---|---|---|
| `queue` | two workers, a readable request and an unreadable text, three faults: `NeverLost`, `ArchivedOnlyWhenExhausted`, `AttemptsBounded`, `SettledOncePerFault`, `NoRemovalUnderway`, and the refinement `ImplementsDisposal` | 435,356 |
| `queue_liveness` | every message leaves the queue, next to a poison message that ends every drain it is received in | 129,096 |
| `rotation` | one rotator, three requests, three faults: `AgreedIsLive`, `NoOutageWithoutFault`, `GracePeriod`, `LatestEnabled`, and `OutageEnds` under fairness | 236,022 |
| `dependents` | one worker, a cascade of two dependent secrets, two faults: `NoLostUpdate`, `NoRegression`, `Converges`, `CascadeEnds` | 17,464 |
| `tracking` | two drains, two requests, three deliveries, two faults: `EndsAttributed`, `DamageConfined`, `OutcomeShown` | 684,041 |
| `dashboard` | four lists, seven loads: `LinkedToLoaded`, `LinksOnlyRenewed`, and `PagesShowItems`: the pages are the items, the selected page is one of them | 130,739 |
| `host` | two kinds of events that arrive again and again, a circle of requests without end, two deliveries of each message, a failed call, a cancellation: `OneDrainPerQueue`, `EventsNotStarved`, `StopsWhenCancelled` | 139,936 |
| `metadata` | a sample data set of one policy, one service, an attached and a dependent secret, written twice, with two rotations one after the other and a listing: `ReferencesResolve`, `LoadsResolve`, `ServiceKept`, `NewestPolicyApplied`, `VersionsKept` | 4,093,445 |
| `site` | three templates, two kinds of data, four requests that are answered, fail or come late, a user who chooses and a script that refreshes items: `PageConsistent`, `NeverOlder`, `ListsComeUp` | 303,664 |
| `widgets` | two editors and two menus under any keys and clicks, with lists replaced behind an open editor: `DialogsConsistent`, `MenusConsistent`, `DialogsSettle` | 37,608 |
| `tables` | two secrets, two instances of a service, two names, two sections, under every operation of an observable array: `ViewCurrent`, `NothingLeftOver` | 89,608 |
| `unreadable_copies` | a finding, see below | |

Assumptions of `MCSite` and `MCTables` also check, before these runs begin, the pure operators against what they are
for, on all inputs within bounds: that decoding undoes encoding, that names and counts are complete, that a time span
typed in any way stands for its seconds; that a script of an array leads from the old contents to the new
ones and to no others (`Tells`), that its marks are the moves (`MovesPair`, `NoMoveMissed`), and that rows that follow it
are in order, kept where their item stays: all arrays of three items or fewer here, of any length in `ArrayProofs`.

**Bounds.** Every bound is a constant. `MaxFaults` counts failed calls, crashes and premature timeouts;
three allow a failure of the retry of a retry, which is longer than any recovery path of the code
(call, retry, limit). `MaxNumberProcessingAttempts` is 1 or 2 (the hosts configure it): the
boundary between retry and archive is reached from both sides, and the theorems cover every
value. `DequeueCap` stops the count of deliveries: in `queue` above every count that a message can reach within the
faults, in `queue_liveness` at the first count beyond the limit, where a message that comes back for ever gets and
from which on the handler decides the same. Three requests make a rotation come back to its first key. `PageSize` is
2 with lists of 0 to 3 items, so that pages are empty, full and partial (the site uses 10). Seven loads are
the four initial ones and three more, which is enough for a child between two loads of its
parent. Three deliveries of two requests let the same request be tracked twice at once. Two runs of the
sample data set let the second meet a store that the first left incomplete, or one that rotations have
changed, and two saves of a policy tell what was read before a save from what was read after it; the second of two
rotations meets a record that has a version to lose.
In `host` the circle is the shortest the code can have: the update of a secret whose expression names the secret itself is a
new version, whose event schedules that update again.
In `site` one list of plain items and the one that draws the chart stand for all; four requests are the first load of both
and two more of either, one of them while another is under way, and two versions tell an old answer from a new one. Of
three templates one has no placeholder, as the loader's has none. Two editors overlap and two menus compete; more of
either meet in no new way, since each action touches one and clears all others. In `tables` two instances of one service and two
names let a name change behind a secret, a secret change its instance, and both; two secrets make a row move.

**Symmetry** is used in `tracking` only, which checks no liveness.

**Deadlock** is checked in the runs of the queue, where a drain can always begin again. So it is in `widgets` and `tables`, where a user can always go on. Everywhere else the system may rest: when all requests are settled, the host stopped, or the bound on loads reached
(`CHECK_DEADLOCK FALSE`).

**Fairness.** Workers, rotators, the loop and its tasks get weak fairness: their steps are continuations
of `await`s, which the runtime schedules when the call returns. So do visibility timeouts, which the
queue service lets pass, but not failures, crashes, arrivals or cancellations, which are never forced.
The receive of a message gets strong fairness (`SF`, one condition per message for all workers
together): the queue is received from over and over and serves in approximate order of insertion, so
that no visible message is passed over for ever. `HostLoop` needs none of that: `EventsNotStarved` says that the raw
queue gets its turn, not which of its messages, and holds under weak fairness of the loop, of the two drains and of
visibility timeouts. It does not hold because queues run dry, as in this instance they need not. It holds because
requests that lead to more requests come of raw events only: a circle of updates passes through the vault's
events and so through the raw queue, and while that one is not drained the formatted queue loses more than it
gets. If a handler that writes to the vault scheduled the next updates itself (`SentAtOnce`), the awaited drain
would not end and the raw queue would starve. In `site` the browser
runs what is ready, and every request is answered or fails (the browser times it out); in `widgets` every
transition ends, for which Bootstrap has a timer. No user has to do anything.

### Findings and observations

Where a comment of the repository says one thing and the code does another, and a run shows it:

`unreadable_copies` -- `MessageHandler.cs:45` means to force the removal of an unreadable text that was
already archived; the retry flag added at line 78 takes the removal away at line 92. Every
delivery archives one more copy.

What we met while modelling, and what the models therefore say. None of it is hidden: the properties of the
passing runs hold in spite of it, or name it.

*Host and rotation.*

- Two overlapping rotations of one secret choose the same key, and the vault can keep the value that the service
  has replaced (`StorageAccountSecretManager.cs:30`). Two overlapping updates of a dependent secret: the one that read
  older tokens may store last, and nothing updates it again (`AzureSecretManager.cs:159`). This is why `AgreedIsLive`,
  `NoOutageWithoutFault`, `GracePeriod`, `NoLostUpdate`, `NoRegression` and `Converges` are stated for one host;
  `LatestEnabled` holds for any number of them. Instances with two rotators or workers show the counterexamples.
- `Host.cs:42` says the loop waits for pending tasks; `Task.WaitAll` gets the token and does not when it is
  cancelled, so the loop can be over while a drain still handles a message. `StopsWhenCancelled` says that
  the drain ends too.
- `MessageHandler.cs:41` takes *Skipped* for a failure when it stands next to *Success*: an event nobody
  acts on is retried and ends on the dead-letter queue. `ProcessingStatus` says so (`NothingToDo` through
  `Disposition`), and `NeverLost` and `EventuallyRemoved` hold for such events as for any other.
- A read of the vault that fails puts an empty string in place of a token (`AzureSecretManager.cs:83`) and
  the update succeeds: `DependencyUpdates` models it as `Blank`, and `NoLostUpdate`, `NoRegression` and `Converges`
  except it by name.

*Management site.*

- The refresh of a single item passes its callbacks one place too early (`entities.js:579`, `637`, `737`), and
  `save` and `delete` of the API modules build a loader that they do not return: no answer for an item
  reaches a table. Nothing else keeps it in order with the refresh of the list: with the arguments of `get` put right,
  TLC finds an item's late answer that takes a table back behind a newer list (`NeverOlder`).
  `_getTransaction` of the tracking API reads a name, `shallow`, that
  is not declared, and throws before it asks.
- A duration chosen while the transactions load is not acted on (`app.js:33`), nor is one whose load fails made good: `missed`
  is the exception in `PageConsistent`. The chart goes when any item of the menu is chosen, even the
  current one, as the page is rendered again, and is not drawn while another page is shown.
- "log in" is made with its arguments one place off and can never be chosen (`nav.js`); the comment at `entities.js:61`
  is not true of the first of eleven pages. `applyBindings` with a root that is not there binds the whole body.
- `text: policy().name` (`service.html:34`) throws for a service without a policy; `attemptContractToVm` passes the
  times of an attempt as its statuses.
- Escape on a focused toggle whose menu is closed opens it (`dropdown.js:478`). Two editors can overlap by
  keyboard while the first one opens; a list that is replaced while an editor is open leaves an editor of an
  item that no list has. `DialogsConsistent` holds for both cases.

## 4. Theorems

TLAPS proves these for every value of the constants, from the `ASSUME`s of the module (bounds are natural
numbers, sets of workers finite where they are counted, `None` is no message or worker, `NoItem` no item of the menu,
answers of the server are lists).

| Theorem | States | Argument |
|---|---|---|
| `MessageProcessingProofs!DispositionSound` | the decision is right for every status a processor can leave and every attempt | case analysis of the mask, statement by statement |
| `MessageProcessingProofs!TypeCorrect`, `NoMessageLost`, `ArchiveAfterLimit`, `RetriesBounded`, `RemovalByReceiver`, `Implementation` | the safety properties of `queue` and its refinement of `MessageDisposal` | one invariant, `IInv` |
| `MessageProcessingProofs!SettledOnce` | `SettledOncePerFault` | an account: settlements and workers that may still settle never exceed faults, and one |
| `SecretRotationProofs!TypeCorrect`, `LatestNeverDisabled` | for any number of rotators | `SafeInv`: the version to disable is older than the one just stored |
| `SecretRotationProofs!RecordedValueIsLive`, `NoOutage`, `PreviousValueAccepted` | `AgreedIsLive`, `NoOutageWithoutFault` and `GracePeriod`, with one rotator | `LiveInv`: a rotation under way works from the saved record; for the last, `PreviousInv`: the version before the latest has the value of the key that the record does not name, or, while a rotation stores a new one, of the key that it does |
| `DependencyUpdatesProofs!UpdatesNotLost`, `NoOlderValue` | with one worker, any `Tokens`, circles included | what a worker read is no older than what it replaces; a token newer than it has an event waiting |
| `TrackingProofs!EndsAttributedCorrectly` | `EndsAttributed` | a context holds attempts of its own drain, the one under way last |
| `TrackingProofs!DamageStaysConfined` | `DamageConfined` | `HistoryInv`: no two contexts hold the same attempt (`Apart`), a drain without a failure has the attempt of its delivery and nothing unsaved from before (`Careful`), and no context can take the end from a clean delivery (`CleanInv`) |
| `TrackingProofs!OutcomeAlwaysShown` | `OutcomeShown`, for any number of attempts in any order | `EndsInv`: a delivery ends once; then by induction on the passes of the loop (`OnePassPerAttempt`, `AllPasses`): after each, the start is the first, the end the last and the status that of the end among the attempts read so far |
| `MetadataStoreProofs!TypeCorrect`, `ReferencesAlwaysResolve`, `LoadsAlwaysResolve`, `ServiceAlwaysKept`, `NewestPolicyAlwaysApplied` | the invariants of `metadata`, for any data set and any number of loaders | records are never deleted and are written referred-to first, so what a loader has read still exists; a complete seeding has saved all that its stage is past (`SavedBefore`) |
| `MetadataStoreProofs!VersionsAlwaysKept` | `VersionsKept`, with one rotator: of two overlapping rotations the older may save last. The one step excepted is the save of the very record by a seeding that was asked to save secrets | `VersionInv`: no record is ahead of the vault, and the copy about to be saved has its newest version; `AskedInv`: no other seeding has a secret to save |
| `HostLoopProofs!TypeCorrect`, `DrainedOnce` | types, and `OneDrainPerQueue`, whatever the handlers send | the awaited drain stays over; a message that is in no queue has no deliveries (`SentInv`) |
| `SiteProofs!PageAlwaysConsistent`, `SectionsWaitForOneAnswer`, `TablesNeverOlder` | `PageConsistent`, `OneListRequest`, `NeverOlder` | `SiteInv`: every request is one of the two that callers make (`WellMade`), a section waits exactly while one of its own is under way, and no answer under way is older than what is shown |
| `SiteProofs!PagesOfList` | the pages, one after the other, are the list | induction on the pages: up to each, they are a prefix of the list |
| `SiteProofs!ItemsLinkedToLoaded`, `PagesAreTheList`, `LinksNeverOlder` | `LinkedToLoaded`, `PagesShowItems` and the action property `LinksOnlyRenewed` | `DashboardInv`: no item is linked to a later load than the last, and a section that loads shows only older items |
| `SiteProofs!EditorsConsistent`, `MenusAlwaysConsistent` | `DialogsConsistent`, `MenusConsistent`, of `Widgets` as a whole | `EditorsInv`: what a dialog may be while each of its transitions is under way; `MenusInv`: one menu at most is open, and where the focus is, also while the tab key is down |
| `ArrayProofs!ScriptsTell` | `Tells` of `CompareArrays`, for arrays of any length: what the script deletes and adds are items of the old and of the new contents, in order; the others are the same on both sides, and no entry comes on the wrong side of one | the values in the band (`MatrixValues`), so the path never leaves it and goes along the diagonal only past equal items (`PathInBand`); by induction on the path, `PathTells`; what reads it back says the same of the contents (`ScriptOfPairs`) |
| `ArrayProofs!KnownScriptsTell` | `Tells` of the scripts of push, unshift, pop and shift | the kept items are one run, at one end of the longer array (`OneEnd`) |
| `ArrayProofs!MovesOfComparison` | `MovesPair` of the script of any comparison: a mark names a deletion and an addition of the same item, on both; `NoMoveMissed` when neither array has more than ten items, and a table of the site shows a page of ten (`app.js:23`; `PagesShowItems`) | by induction on the search: the pairs found are a matching (`IsMatching`), a maximal one unless the search gives up (`IsMaximal`), which takes more failures in a row than ten items can give (`FailedOnce`); marks read the pairs back (`MarksPair`) |
| `ArrayProofs!SpliceTells` | `Tells`, `MovesPair` and `NoMoveMissed` of the script of a splice | by induction on the positions: what the loop has written is what the splice did before each (`SplicedTo`) |
| `ArrayProofs!RowsFollowScript` | the document after `foreach` has followed any script that tells of two contents and whose moves are pairs: a node for each new item, in order, none twice (`Shows`); if no move was missed, new nodes only for new items (`NewOnes`) | by induction on the script: the rows made so far are the right ones up to the position reached on both sides (`Followed`); then on the rows: those that were put in place stand together (`Arranged`), in order in the end wherever they were (`RowsInOrder`) |
| `ArrayProofs!RowsFollowComparison`, `RowsFollowKnownScripts` | the same for each script that an observable array gives: of a comparison (`NewOnes` for ten items at most on either side), and of splice, push, unshift, pop and shift (of any length) | the theorems above |

Why the invariants are needed: `NeverLost` is not inductive, because whether a worker may delete a message
depends on what it did two steps earlier. `IInv` adds what each program counter implies
(`StageInv`: a worker about to delete has carried the request out or archived it), whose receive
is the latest (`BusyInv`, `FreshInv`) and how the count of an attempt relates to the queue's
(`AttemptInv`, `CountInv`). The same holds for the others: each conjunct is named and commented in its module.

Induction over natural numbers is not an operator that could be instantiated here; where a proof needs it, it is the
lemma `SetInduction` about sets of numbers, from the smallest member of what is left over. A fold takes an operator
too. `ArrayProofs` writes the six folds of `ArrayChanges` as one (`Step`, `Folded`), shows by induction on
sets of positions that it has a value at each of them that comes from the one before (`Iterates`, `FoldedInSteps`), and
gives each fold a lemma that says so (`MatchingSteps` to `PuttingSteps`).

A proof also found an error of the model: the position an arrow key moves to had two answers in a menu without
items (`ArrowKey` of `Dropdown`), which no instance has; there the key does nothing, as in the code. Two definitions of
`ArrayChanges` could not be reasoned about and now say what TLC took them to mean: the cases of `EditDistance`
overlapped, and the path was defined through cells outside its domain where it is outside the band. Stating what is
true of moves and rows brought out where the model said less than the code: it now has the limit on failed comparisons,
after which a moved item is missed on long arrays and rendered anew; and the first row, when it is not where it
belongs, is put behind the row that was moved last (`LastMoved`), as `lastNode` still names that one. `RowsInOrder`
says that this does no harm: however the rows lie and whichever the first is put behind, each of the others is put
behind the one before it, and in the end nothing stands before the first.

Only model-checked: `ViewCurrent` and `NothingLeftOver` of `Tables`, whose `Turn` is recursive over calls that make
calls, which is beyond the prover (the scripts and rows that it uses are proved about, in `ArrayProofs`); the pure
operators of `SiteValues`; and liveness (`EventuallyRemoved`, `OutageEnds`, `Converges`, `CascadeEnds`,
`EventsNotStarved`, `StopsWhenCancelled`, `ListsComeUp`, `DialogsSettle`), which needs fairness and ENABLED and is
beyond the proof system.

## 5. Not modelled

- The Azure Functions host: it calls the handler for a text and ignores the result, so nothing is retried.
- Keys of Cosmos DB and Redis; Event Grid keys and app registrations (unfinished in the code).
- Keys and certificates as vault objects: they yield no version, and the rotation throws.
- Of the metadata store: listings of a single kind and the removal of an association, which nothing calls.
- The client caches (a data race inside the class library has no outcomes the source tells), configuration,
  controllers, the password generator (no running code calls it).
- Which field of an event goes where (`RawProcessRequest.cs`), dates and expirations.
- Of the site: local time and the address of the server; `security.js` and `footer.js`, whose setters nothing
  calls; the dialogs of `entities.js` that no template uses.
- Of knockout: components, deferred and rate-limited updates, binding contexts that are observables, the parser of
  bindings, and evaluators that throw. The site replaces a list only while its table is hidden, so that `foreach` as `Tables`
  has it, changing rows that are shown, is what knockout promises rather than what the site asks today.
- Of Bootstrap: the position of a menu (Popper), scroll bars, options the site does not set, and every other
  widget, as no template of the site uses one.

## 6. Plan

Done: `MessageProcessing` first, as everything hangs on it, then rotation, dependents, tracking, the host
loop, the metadata store and the lists of the site; then the rest of the site: its start and requests, its
menu, dialogs and dropdowns, and knockout's observables, arrays and rows. Next, in this order:

1. `SecretRotation` for regenerate-then-list key pairs (Cosmos DB), and records without a key name.
2. Dangling associations and circular expressions in `DependencyUpdates`, so that a cascade that never ends is a behaviour
   there too (in `HostLoop` it is one).
3. Composition of `HostLoop` with `MessageProcessing` for both queues, and of the loads of
   `MetadataStore` with the rotations of `SecretRotation`.
4. Proofs: that the arrays of `Tables` hold no item twice, which `RowsFollowComparison` assumes of the new contents,
   and with it the rows of `ViewCurrent` for lists of any length; `Observables` would have to do without its
   recursive operators.
