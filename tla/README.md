# A TLA+ model of FormulaireQF

FormulaireQF lets a parent send its *quotient familial* (QF) to a collectivity
(a town, a school canteen...). The parent logs in with FranceConnect, the site
fetches the QF from API Particulier, and a click sends it as a folder to the
collectivity through HubEE, a file exchange of the State. This directory holds
TLA+ specifications of that program, the TLC configurations that check them on
small instances, and TLAPS proofs of what matters most.

The source is under `src/`. It is the only reference: an action is a handler,
an interactor or one remote call of it; `PROJECT.json` gives the lines behind
each definition.

```
tlc -workers 2 -config MCSending.cfg MCSending.tla     # check a run
tlapm HubEESending_proofs.tla                          # check the proofs
```

## 1. Inventory

### Components

| component | code | state | operations |
|---|---|---|---|
| Sending to HubEE | `app/organizers/{store_quotient_familial,upload_quotient_familial_to_hubee}.rb`, `app/interactors/{prepare_quotient_familial_hubee_folder,create_shipment}.rb`, `app/interactors/hubee/*` | the interactor context of one request (shipment, folder, attachments), temporary files, the `shipments` table, the folders on HubEE | prepare, create folder, upload attachments, mark complete, clean, save; rollback of each |
| HubEE API client | `lib/hubee/{base,api}.rb` | a token per instance | one method per remote call; every network error becomes `HubEE::Api::Error`, an HTTP status is left to the caller |
| HubEE notifications | `app/jobs/read_hubee_notifications_job.rb`, `app/interactors/process_hubee_notification.rb`, `app/models/hubee/*`, `Shipment` | HubEE's queue, events and cases; `shipments` rows; the jobs' attempts | fetch, process one notification, close, anonymise, acknowledge, delete, retry |
| Browser session | `app/controllers/{application,collectivities,sessions,shipments,errors,home}_controller.rb`, `app/interactors/setup_current_data.rb` | session records, the cookie, `Current` | arrive from a portal, log in, log out, show the QF, send it, confirm |
| API Particulier client | `lib/api_particulier/*`, `app/interactors/get_family_quotient.rb` | none | fetch the QF of an identity; an answer with a `detail` is a failure, any other answer is a QF |
| Collectivity onboarding | `app/controllers/api/{datapass_webhooks,collectivities}_controller.rb`, `app/jobs/setup_collectivity_job.rb`, `app/interactors/datapass_webhook/*`, `lib/hubee/admin_api.rb`, `lib/insee/*` | jobs, `collectivities` rows, HubEE's organizations and subscriptions | webhook, set-up job with its three interactors, creation by the API |
| SIRET validation | `app/validators/siret_validator.rb` | none | Luhn's formula |
| Webhook signature | `app/controllers/concerns/` | none | HMAC comparison |
| Data and formats | facades, mappers, serializers, `app/models/{shipment_data,pivot_identity}.rb` | none | formatting |
| Sandbox filler | `app/jobs/populate_hubee_sandbox_job.rb` | none of its own | sends fixed folders |
| Pages, configuration | views, `config/`, assets | none | |

### Who talks to whom

    browser --HTTP--> controllers --session record--> database
    SessionsController#create  --call--> API Particulier
    ShipmentsController#create --call--> StoreQuotientFamilial --HTTP--> HubEE
                                                              --INSERT--> shipments
    collectivity's SI --HTTP--> HubEE --queue--> ReadHubEENotificationsJob --UPDATE--> shipments
    DataPass --webhook--> SetupCollectivityJob --HTTP--> HubEE's referential, INSEE
                                               --UPSERT--> collectivities
    editor --POST /api/collectivites--> collectivities

A folder is announced to the collectivity *before* its row is inserted; the row is
what the notifications are later matched with.

Requests run in puma threads of several processes, jobs in GoodJob threads. They
share nothing but the database and the remote services. There are no locks: two
unique indexes (`shipments.reference`, `collectivities.siret`) are the only
synchronisation.

### Where it is hard, and what makes it correct

* **Sending.** Five to seven remote calls, any of which may be lost, refused, or
  executed with its answer lost or late, then a row. Correct when: a row leads to a
  complete folder of its own request; a folder visible to agents has all its
  attachments; what a failed request leaves behind is explained by a failure nobody
  could compensate; the page tells the truth; every request ends.
* **Notifications.** At-least-once processing of a shared queue, restarted from its
  first element by any network error, possibly by two jobs at once. Correct when:
  notifications of others stay; a case keeps its ids until it is closed; a final
  case ends anonymised; updates are applied in the SI's order and a final status
  stays; everything of ours is handled at last.
* **Session.** Whole-record, last-writer-wins sessions and slow requests. Correct
  when: a QF never meets another parent's identity; a portal's file number and
  return link go to that portal only; a logout and a login end what came before;
  an error that was stored in place of a QF is never shown or sent as one.
* **Sending and notifications together.** Correct when: each half may assume of the
  other what it does (a row saved is of an announced case, once); a parent who holds a
  reference misses no later update; an ended case is anonymised.
* **Onboarding.** Three steps in two systems, each swallowed on failure, racing
  with itself and with the API. Correct when: a collectivity made active has its
  organization and a subscription on HubEE; no approval disappears in silence; a 201 is the truth.

The hazards, each at its line with the properties that watch it, are in
`PROJECT.json` under "hazards".

## 2. Modules

| module | what it is |
|---|---|
| `HubEESending` | the requests that send, the network, HubEE's folders, the table |
| `HubEESending_proofs` | its inductive invariant and theorems |
| `HubEEDelivery_proofs` | further theorems about it: what a failure leaves behind, the refinement of `ShipmentDelivery` |
| `HubEENotifications` | HubEE's queue, the SI, the jobs, the rows' follow-up |
| `HubEENotifications_proofs` | its inductive invariant and theorems |
| `HubEEOrder_proofs` | further theorems about it: the order of updates, what one job at a time keeps, the refinement of `ShipmentLifecycle` |
| `ShipmentDelivery` | abstract: what agents see, what the parent is told, which rows exist; implemented by `HubEESending` |
| `ShipmentLifecycle` | abstract: the life of a row as statistics read it; implemented by `HubEENotifications` |
| `SendAndFollow` | `HubEESending` and `HubEENotifications` composed around the table and the folders |
| `SendAndFollow_proofs` | its inductive invariant and theorems: each half keeps its own specification, the halves agree |
| `QfSession` | the browser's session and the requests that use it |
| `QfSession_proofs` | its inductive invariant and theorems |
| `CollectivityOnboarding` | set-up jobs, API calls, HubEE's referential, the rows |
| `CollectivityOnboarding_proofs` | its inductive invariant and theorems |
| `Siret` | the validator of a siret, and typing mistakes |
| `Siret_proofs` | sums over finite sets, the validator's checksum, its theorems |
| `MCSending`, `MCNotifications`, `MCFollow`, `MCSession`, `MCOnboarding`, `MCSiret` | instances and symmetry sets for TLC |

Definitions whose comment starts with "Mutant" are plausible bugs used in place of
the definition that follows them to see that a property notices; they are not
reachable from `Next`.

### HubEESending

One element of `Requests` is one POST. `pc` is the interactor the request stands
in; `reference`, `folder`, `sent`, `openFiles` are the parts of the interactor
context that later steps read. A remote call is three things in the model:
`Send` puts it in `net` and blocks the request (`creating`, `uploading`,
`marking`, `deleting`); a `HubEE...` action executes, refuses or drops it, now or
after the client has given up; the request goes on with the `reply` it got,
"none" standing for the time-out or network error that
`HubEE::Api#request` turns into `HubEE::Api::Error`. `Answer` reaches the request only if
it still waits on that connection.

`Net::HTTP` repeats a DELETE that got no answer, which the model sees as one DELETE
executed and answered by an error (404); the PUT of an attachment is repeated without its
body, since the stream was read, and stores nothing. POST and PATCH are not repeated.

The page of a request is its `outcome`: a failed context is the error page
(`UploadQuotientFamilialToHubEE` rescues `HubEE::Api::Error` into one), any other
exception a 500. `StartRollback` ... `EndRollback` is what the interactor gem does
with the interactors *called before* the failing one, in reverse: `DeleteFolder`,
then the files. Failing in `PrepareAttachments` or `CreateFolder` does not roll
back that interactor itself; the model follows that, and so two leftovers exist by
design of the code: temporary files of a failed preparation, and a folder whose
creation was answered too late.

`shipments`' unique index is `ReferenceTaken` in `InsertShipment`; `ValidateShipment`
is the earlier `SELECT` of the uniqueness validation. `CommitAcknowledgementLost`
is an INSERT that commits while its connection drops, and `CrashAfterCommit` a process
that dies between the commit and the page.

`RequestAuthTokenFails` ends in the error page (network error, HTTP error) or in a 500:
a token answer that is a 2xx without the expected JSON raises `NoMethodError`.

`PrepareFolderRaises` is the conversion of the QF by `ShipmentData`, or the query
for a free reference, raising before anything was called: the page is a 500 and nothing
is left behind.

`Delivery` maps the state to `ShipmentDelivery`: a folder is *visible* once complete, *withdrawn*
once deleted; the parent was *told* nothing, success or failure. `ImplementsDelivery` says that the row and the page that
announces it appear together, on a visible folder (or the row alone, when the
commit's acknowledgement is lost or the process dies between the commit and the page); that a page is never taken back; that a
folder goes only after a failure and never comes back.

History variables: `withdrawn` (did HubEE confirm the deletion?), `commitLost`; a
folder's `owner` is a ghost too. No guard of the code's part reads them.

### HubEENotifications

`Jobs` are slots for executions of `ReadHubEENotificationsJob` that may overlap.
A job fetches the first `ItemsCount` notifications, processes them in order, and
enqueues another job when the batch was full. `Continue` is the rule for every
call: a network error goes to `Retry` (`retry_on HubEE::Api::Error`: from the
fetch, up to `MaxAttempts`); an HTTP status is ignored, which is why most calls
carry `executed` and `answered` separately. `LoadShipment` and
`WriteShipmentStatus` are two steps: the row is memoised in `@shipment`, written
later, and ActiveRecord writes only an attribute that differs from what was
loaded. The `after` hook is `DeleteNotification`. `Dies` is an exception outside
`HubEE::Api::Error`, which no retry follows: an answer that is not what is read (also the
token's, which each notification's own session asks for), or the database. `Interrupted` is a
killed worker.

A call without an answer may still be under way: `GiveUp` puts it in `late` and
`HubEEIsLate` executes it at any later time, in the middle of the replay or of
another job. Answers to such calls are gone with their connection.

`Lifecycle` maps the rows to `ShipmentLifecycle`: with one job at a time and a
HubEE that answers or is silent, a row only goes up, through statuses its case has had,
ends with the case's final status, and forgets its ids last, after the three
closing calls were answered.

The SI's side (`SIUpdatesCase`, `SIDepositsAttachment`) and the other
consumers of the queue are external. Statuses only move up by `Rank`; the two final
ones exclude each other. That is an assumption about the collectivities' software: the code
checks neither, and writes whatever processable status an event brings. The properties about
order (`LastUpdateIsApplied`, `FinalStatusIsStable`, `ImplementsLifecycle`) rest on it.

`FinalIsAnonymised` excepts the updates whose row was not found and those whose event could
not be read: their rows keep the HubEE ids for good. The FAQ promises more
(`app/views/home/faq.html.erb:108`: such information is withdrawn when the collectivity
receives the data, and automatically after 30 days at most). The code withdraws the ids only
when a final status is processed, and has no scheduled deletion (the cron of `config/initializers/good_job.rb`
reads the notifications and fills the sandbox): the promise is not kept for these rows, nor for a case that
never ends. No run claims it.

### SendAndFollow

An INSTANCE of each of the two modules, on one set of variables. What each leaves
to its environment the other does: `HubEECompletesFolder` is `FolderCompleted` (HubEE announces the case),
an insertion is `CreateShipment`, and the SI moves on only a folder it can see. No other step
touches both halves. `row` and `shipments` are two views of one table;
`RowsFollowCompletion` says that they agree, and that what `CreateShipment`
requires of its environment holds whenever a request is about to insert: otherwise the
composition would silently block the request. The instances are of the halves' proof modules
(`HubEEDelivery_proofs`, `HubEEOrder_proofs`), which extend the components and add no
behaviour: so the lemmas about each half can be cited in the proofs about both.

### QfSession

A request is `Begin` (the session record is loaded) and one of the controllers'
actions (everything else, up to the whole record written back by `Save`). Between
the two other requests of the same browser run. A request that raises writes
nothing (`CreateSessionRaises`). The record's fate when it was destroyed or is
unchanged is left open between what activerecord-session_store may do. OmniAuth's
`state` check is not modelled: a callback may come at any time, which adds
behaviours and removes none. People and QFs are model values: a QF *is* the person
it was fetched for, with a `kind` since `GetFamilyQuotient` takes an error without a `detail` for a quotient and
the session stores it: `Unusable` is what `QuotientFamilialFacade` and `ShipmentData`
stumble on, `ShipmentsRaise` the 500 that follows (also an unknown reference on the confirmation
page). A portal value carries the collectivity it came from.

`visitor` (who FranceConnect last let in), `arrived` (what each portal last
passed) and `crossed` (did another request overlap the last logout?) are history
variables for the properties that compare what is used to
what should be. A record that no cookie and no request can reach is dropped from `store`
(`StoreUnlessHeld`): nothing reads it any more.

### CollectivityOnboarding

`ReceiveApproval` enqueues; `StartJob` is the job's guard on the phone number;
then one action per remote call or statement. Every exception of the three
interactors goes to `Swallow`, the `around` hook that reports and lets the job
succeed: `StepRaises` is one before the effect, the other uses are those after it or
because of a race (`AlreadyExists`, `RecordInvalid`, `RecordNotUnique`). A read and
the write that depends on it are two steps wherever the code has two statements.
HubEE names an organization by siret *and* commune, `SI-siret-commune`; the commune is INSEE's,
asked once per execution of the job, and may differ from one execution to the next, so
that a siret may have two organizations. `CreatedIsOwn` holds an API call to what it answered:
the row is the one it inserted, with the status and the editor it asked for, until a job sets
the collectivity up, whose `UpdateRow` writes its own name, code, departement and
editor over those of the call (name, code and departement are not modelled).
`ActivateSubscription` is done by the collectivity on HubEE's own site.

### Siret

A pure function, `Valid`, translated from `SiretValidator`: the form, La Poste's
prefix, the sum. The state is a value, its steps are the mistakes of one who types it:
a character more, another one, two exchanged. A value is a sequence of digits, a letter and
an end of line, since the code's regular expression for La Poste starts with `^`, which
in Ruby is the beginning of any line. The code adds the digits in a loop, from the last one on;
`LuhnChecksum` is the sum of the same terms at the same weights. The formula it is
compared with, `CheckDigit`, is the published one, which doubles, adds the two digits of a
double and completes to a multiple of ten: it shares no definition with the code's.

## 3. Runs

| run | instance | distinct states | question |
|---|---|---|---|
| `sending` | 2 requests, 2 references, 2 folders, 3 attachments, FairSpec | 1.03 M | all safety of a sending, with every failure; does it implement `ShipmentDelivery`; does every request end? |
| `notifications` | 1 case, 1 foreign, 1 job, batch of 2, 2 attempts, HTTP refusals | 1.46 M | safety of one job at a time under every failure |
| `notifications_order` | 1 case with 4 statuses, network errors and late calls, FairSpec | 475 k | is the order of updates kept through replays, is every notification handled at last, is `ShipmentLifecycle` implemented? |
| `notifications_two` | 2 overlapping jobs, late calls | 1.56 M | what survives the overlap? |
| `notifications_overlap` | 2 overlapping jobs | violated | is a final status stable under overlap? No. |
| `follow_up` | 1 request, 1 attachment, 1 job, late calls, FairSpec | 316 k | do sending and notifications fit, and what is missed around the insertion of the row? |
| `session` | 2 overlapping requests, 2 persons, 2 collectivities, one active | 3.79 M | do overlapping writes mix parents or portals, does a logout last? |
| `session_alone` | 1 request at a time, no exception | 141 k | is only one's own QF used, are portal values kept? |
| `session_raise` | 1 request at a time, API Particulier may raise | violated | is a login clean when API Particulier fails? No. |
| `onboarding` | 2 jobs, 2 API calls, 1 siret, 2 communes, 2 editors | 2.57 M | do races and partial failures lose an approval? |
| `onboarding_doc` | 2 jobs, 1 call | violated | is the subscription active, as documented? No. |
| `siret` | numbers of 4 digits, values of at most 5 characters | 271 k | which values are accepted, and which mistakes are noticed? |

### Bounds

* **Requests, jobs, calls.** Components interact pairwise (through one reference,
  one row, one notification), so two actors meet every kind of race; in the onboarding
  a job creates, loses the race or finds, and one that is interrupted runs again, so that
  two jobs make three executions or more. What the proofs state without a hypothesis on the number of actors holds for any number.
* **References and folders: 2.** Two requests may choose the same reference (what
  the unique index is for) or different ones. HubEE creates one folder per request,
  so two suffice.
* **Communes: 2**, the one INSEE gives to one execution of a job and the one it gives to another.
* **Attachments: 3**, the number the code has. `follow_up` uses 1: each upload
  is the same step again, and the follow-up sees none of them.
* **`MaxLate`: 1** in `notifications_order`, `notifications_two` and `follow_up`: one call that is late by
  any amount, at each place; `notifications` has 0, its subject being HTTP refusals.
* **`follow_up`: one request, one job**, no refusals. The question is the window between HubEE's announcement and the
  INSERT, for which one of each is enough; requests among themselves are `sending`'s subject, jobs
  among themselves that of `notifications_two`. Anything larger exceeds five minutes.
* **`ItemsCount` 2 for 100, `MaxAttempts` 2 for 8.** Two notifications are enough
  for a batch that is full, that ends half-way, and that contains an older and a
  newer update of one case; two attempts for a retry and a job that gives up
  (after which the next cron execution plays the part of a further attempt).
  `notifications_overlap` needs only one.
* **One case.** Notifications of two cases only share the queue, where a foreign
  one already plays the part of the other.
* **The queue** needs no bound of its own: each notification exists once in it, since
  statuses only move up and the attachment is deposited once.
* **`Sids`: 2.** The sessions a browser can open; a destroyed record's id is not used
  again. The proof covers any number.
* **A siret: 4 digits for 14, La Poste's prefix 2 for 9.** Luhn's sum treats
  positions by their parity, so two pairs of digits meet every weight and every neighbourhood; one
  more character shows what a value that is too long does. The three properties are proved for
  numbers and prefixes of any length.
* **Deadlock** is checked for `HubEESending`, whose `AllEnded` is the only way to
  stop. The other systems stop when their finite worlds are used up (statuses that only move
  up, jobs enqueued once, session ids), hence `CHECK_DEADLOCK FALSE`
  (`Siret` can always be mistyped; it has no deadlock to look for).
* **Symmetry** is used for sets whose members are only compared for equality, and
  never with a liveness property: `sending` and `follow_up` have none.

### Fairness

* `HubEESending!FairSpec`: weak fairness of each request's own steps. Ruby runs
  the thread, and `Net::HTTP` gives up on a silent server after its read time-out (60
  seconds: `HubEE::Api` does not change it). Nothing is assumed of HubEE or the network.
* `HubEENotifications!FairSpec`: weak fairness of the cron (`Enqueue`) and of the
  jobs' successful steps, and `<>[]` no step that is only a failure: outages end. (A job
  that dies after its last notification, or is interrupted before the next one, may change just what a
  regular end of the batch changes; such steps are not ruled out, else no fair behaviour would be left.)
  How long they last and how
  many jobs they exhaust is open. Without the latter, HubEE may be down forever and nothing
  is promised.
* `SendAndFollow!FairSpec`: the same as `HubEENotifications`; nothing of the requests, which may
  stop anywhere. A sending that never inserts its row is a case without a row.
* `QfSession!FairSpec`: a request that started ends.

### What the violations say

1. `notifications_overlap`. Nothing keeps two jobs apart: a full batch enqueues a
   second one at once, and retries wait for minutes. Both may hold a Shipment loaded at
   "pending"; the one with the older update writes it over the final status, and, when the other has
   anonymised the row meanwhile, no later notification repairs it.
2. `session_raise`. `SessionsController#create` deletes the previous QF from the
   session and then calls API Particulier. When that call raises, the request ends
   without its session being written: the previous parent's identity and QF stay and the next page
   shows them, against the scenario at `features/france_connexion.feature:41`.
3. `onboarding_doc`. `docs/scripts.md:39` announces an *active* subscription;
   the code creates it `Inactif` and does not look at one it finds.

## 4. Proofs

TLAPS checks, for every value of the constants that satisfies the modules'
assumptions (`NFiles` positive, `None` distinct from what it stands beside, `Active` and
`Links` subsets...). A theorem that holds only for some values of the constants says so in
its hypotheses: one job at a time (`OneJob`), one request at a time (`OneRequest`), no HTTP
refusals (`~ MayRefuse`), no exception of API Particulier (`~ MayRaise`). The code guarantees
none of the four; the violations of section 3 show what is lost without the first and the last.

**`HubEESending_proofs`.** `Invariance` is `Spec => []Inv`. The properties are not
inductive: that a row's folder is complete depends on what HubEE did before, and on
which calls can still arrive. `Inv` adds
* `CounterInv`: counters per program position;
* `HubInv`: an absent folder is nobody's;
* `NetInv`: while a request waits for a creation, an upload or a completion, the one
  call of its own under way is that one, unanswered; a request that works between calls or has shown its success
  page has none, so no late call can touch its folder; a completion under way finds the folder full;
* `ProgressInv`: what a request may rely on about its folder at each position;
* `RowInv`: a row mirrors its request, which is over, or rolls back after a lost
  acknowledgement.

There is one lemma per action; a lemma per group of conjuncts where the action disturbs several.
From `Inv` follow `TypeCorrectness`, `ShipmentBacking`,
`CompleteFolders`, `DistinctShipments`, `TruePages`, and the action property
`ClosedFiles`.

**`HubEEDelivery_proofs`.** What HubEE keeps of a request that *failed* needs facts
that `Inv` does not hold, because they are about calls nobody waits for any more.
`DeliveryInv` adds
* `OneFolder`, `OwnerInv`: a request has one folder on HubEE at most, which is the one
  it knows or, when it knows none, one that is still incomplete;
* `CallInv`: a creation under way belongs to a request without a folder; every other
  call is about the folder its request knows, and a deletion comes from a failed request;
* `WithdrawalInv`: a deletion that was confirmed has happened.

From both follows `LeftoversAreExplained`. `SendingImplementsDelivery` is the
refinement: with one folder per request, `Visibility` is that folder's state
(`VisibilityOfFolder`), so that a step of HubEE is `Appear`, `Withdraw` or a stutter
(`HubEERefines`), and a step of a request is `Send`, `SendUnawares`, `Fail` or a stutter
(`RequestRefines`): a row is only saved while `ProgressInv` says that its folder is complete.

**`HubEENotifications_proofs`.** `NotificationsInvariance`, for any number of jobs
that overlap, fail, are retried and replay each other's work. `Inv` consists of what is
shared (`SharedInv`), what is a job's own (`LocalInv`), what a job has established
about the notification it processes, by position (`JobInv`: which closing calls
were answered, that the row exists, that a final update about to be acknowledged has been
handled), and the same for what has left the jobs' hands (`HandledInv`: acknowledged events and late
calls). The argument is a rely condition, `Grows`: answered closings, unread and rowless
notifications, saved and anonymised rows are only ever added to, so `JobStays` shows
that a job's knowledge survives every step of HubEE and of the other jobs, and each action
is left with its own effect. From it `NotificationTypes`,
`IdsAreKeptUntilClosed`, `FinalUpdatesAnonymise` and `ForeignNotificationsStay`.

**`HubEEOrder_proofs`.** What reaches a Shipment, and in which order. Four more invariants,
each on top of the others:
* `HeardInv`, for any number of overlapping jobs: no notification, no call that is late and no
  Shipment tells a status its case has not had (`ShipmentsNeverRunAhead`);
* `SoloInv`, under `OneJob`: from its load to its anonymisation the row is the one the job has
  loaded, since nobody else writes it; this is what a second job breaks. From it
  `AnonymisedRowsAreFrozen`, even when HubEE refuses or is late;
* `OrderInv`, under `OneJob` and `~ MayRefuse`: queue and batches are sorted by the rank of
  each case's updates, none of them is older than what its Shipment shows, and a batch holds all
  updates that are older than one of its own and still queued. The last part is what makes a
  replay harmless: an update that is deleted late or fetched again is equal to, never older than,
  the Shipment's. A refused deletion breaks it, since the job goes on to the next update and
  the cron fetches the older one again, to apply it when its acknowledgement was refused as
  well. `UpdatesStayInOrder`, `FinalStatusesAreStable`;
* `AppliedInv`, from all of these: the latest update is applied before anything acknowledges or
  deletes it, including calls that HubEE executes late, hence `LastUpdatesAreApplied`.

`NotificationsImplementLifecycle` is the refinement: a write is `Follow` by `OrderInv` and
`HeardInv`, an anonymisation `Anonymise` by `SoloInv` and `JobInv`, the last closing call
`Finish` (`AskedStep`); every other step of the queue, the jobs and HubEE is `MoveCase`, `Save` or a stutter.

Most of the lemmas are about sequences: what `Without`, `Append`, `Tail` and `SubSeq` keep of a
sorted queue and of the membership of its elements.

**`SendAndFollow_proofs`.** `JointInvariance`: the invariants of the halves, plus `AnnouncedInv`
(HubEE has announced a folder when it is complete and not before) and `TableInv` (the rows the jobs see are
those the requests saved). The invariants of the halves are kept because each half makes only
its own steps or none (`SendingStep`, `FollowUpStep`), which yields `SendingIsKept` and
`FollowUpIsKept`: the composition implements both of its components, although it strengthens the
environment of each. So their theorems hold in it (`SentRowsAreBacked`, `CasesAreClosed`,
`RowsFollowTheirCase`). What neither half can say alone are `RowsAreAnnounced` and
`UpdatesFindTheirRow`: a request that shows a reference has saved its row before, a case
has one request (`OneFolder`), hence a job that finds no row is early, or the request
failed, or the row is anonymised.

**`QfSession_proofs`.** `SessionInvariance`: stored sessions *and the copies that
requests hold* are sound, i.e. of one parent and with each portal's own values. The copies are
the point: a request may write back what it loaded long ago, so what is
true of the store must be true of every copy. From it `SessionTypes`,
`SessionOfOneParent` and `PagesOfOneParentAndPortal`. `LogoutLasts` needs one more part, `LoggedOut`:
after a logout that met no other request, every copy that can still be
written back was loaded after it, hence is nobody's.

For one request at a time the histories are proved too. `AloneInv`: nobody writes the record of a
request under way, and a destroyed record does not come back, so a request's copy *is* the
record. On it rest `ArrivedInv` (the portals' values in the session are those that arrived;
`PortalValuesLast`, whether or not API Particulier raises) and `VisitorInv` (the QF is the last
visitor's, or the callback that let him in is about to replace it; `OwnQuotientOnly`).
`VisitorInv` needs that no callback raises: either because API Particulier does, or because
the session has no collectivity to redirect to; the second is excluded by `Routed`, a session with a QF has one.

**`CollectivityOnboarding_proofs`.** `OnboardingInvariance`. Jobs and calls work on
the same rows without a lock, so what one of them has read is stale as soon as another
moves. `Inv` states, for each job, what stays true of what it has read (`JobOnHubEE`,
`JobFound`, `JobSuccess`), because the shared state only *grows*: organizations and
subscriptions stay, a row stays with its origin and, once active, active; before a job has
activated it, a row stays as its call has inserted it. `JobStep` turns
that rely condition into one lemma that every action of the others cites. From it
`OnboardingTypes`, `ActivationIsBacked`, `NoSilentLoss` and `TrueCreations`.

**`Siret_proofs`.** What a sum over a finite set is, from the community modules' definition,
which takes the elements in an order it leaves open (`SumFunctionOnSet`). The library's
induction theorems are of no use to the provers, since they quantify over an operator; the
argument used instead is that a non-empty set of counterexamples has a minimal element
(`SubsetMinimum`, `LeastNatural`, from the library's theorem that the strict subsets of
a finite set are well-founded). So `AddsExists` and `AddsUnique` show that the recursion has a value, the same in
every set that holds the elements, and `SumTakes` that any element may be taken first; hence
`SumMoves` (a permutation of the terms), `SumSame`. With them
* `ChecksumFromLeft`: the code's sum over the reversed digits is a sum over the places from the left,
  the parity counted from the end;
* `CheckDigitCompletes`: it is a multiple of ten exactly when the last digit is `CheckDigit` of the others;
* `LaPosteIsPrefix`: in a value of fourteen digits, the regular expression's beginning of *a line* is
  the beginning of the value.

`AcceptedAreSirets` follows for every reachable value (`AlwaysTyped`: a sequence of
characters, letters and ends of lines included). For the mistakes, the places that are wrong are taken out of both sums
(`TakeOne`, `TakeTwo`), the rest agrees, and what is left are the weights of one digit, which
permute the digits (`TermsDiffer`, hence `MistypedDigitsAreNoticed`), or of two neighbours
(`ExchangedTerms`: only 0 and 9 weigh the same both ways; `ExchangesAreNoticed`).

Only model-checked: liveness, which is outside the prover's reach (`EveryRequestEnds`,
`OwnNotificationsAreHandled`, `EndedIsAnonymised`). Every other property of a passing run is stated by a
theorem.

## 5. Plan

In order of importance:

1. `HubEESending` with runs and proofs. *Done.*
2. `HubEENotifications` with runs and proofs. *Done,* for overlapping jobs and for one at a time.
3. `QfSession` with runs and proofs. *Done,* histories included.
4. `CollectivityOnboarding` with runs. *Done,* with proofs.
5. Abstract specifications of a shipment: its delivery and its life. *Done,*
   model-checked and proved.
6. A composition of sending and notifications around the row that is saved *after*
   HubEE has announced the folder. *Done,* with proofs; it implements both of its components.
7. `Siret`: the validator's sum against Luhn's formula stated independently,
   with its exception for La Poste. *Done,* with proofs.
8. The proof of `LeftoverIsExplained`. *Done.*
9. What is left of the order of updates when HubEE refuses a deletion, or when two jobs
   overlap: the weakest condition on the overlap under which a final status is stable.
10. FranceConnect's phases (request, callback, logout's return) around `QfSession`.

## 6. Not modelled

* **Webhook signature, tokens**: comparisons without state; the modelled handlers
  start behind them.
* **Formats** (files of a folder, names, references' alphabet, PDF): no property
  of the above depends on their content. That writing one may raise is in
  `PrepareAttachmentRaises`.
* **`VerifyFamilyQuotient`**: no organizer calls it.
* **Sandbox filler**: the interactors of `HubEESending` with fixed data, not run in
  production.
* **FranceConnect's protocol**: a library's; `QfSession` starts at the callback.
* **Token renewal** of the HubEE client: a token is asked for by each instance's first
  call; its failure is `RequestAuthTokenFails` for a sending and among `FetchRaises`,
  `ReadEvent`, `DeleteNotification` and `Dies` for a job.
* **Views, assets, settings, monitoring**: no state. The JavaScript under `app/javascript` is
  the State's design system, vendored in one file, and the few lines that start Stimulus; the
  site's logic is all in Ruby.
