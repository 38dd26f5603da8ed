# NAWAFETH in TLA+

NAWAFETH is a marketplace of services: clients publish requests, providers
accept them or make offers, the two agree on details and payments, providers pay
for subscriptions, badges, campaigns and extras, and the staff step in. This
directory models the protocols of the Django backend (`src/backend`), checks
them with TLC on small instances, and proves their safety properties with TLAPS
for all instances.

Paths below are relative to `src/backend/apps` unless they start with `src/`.

## 1. Inventory

| component | state | operations | what is hard | what makes it correct |
|---|---|---|---|---|
| service request (`marketplace/models.py`, `api.py`, `views.py`, `services/actions.py`) | `ServiceRequest` (status, type, provider, decision, flags, details), `Offer`, `RequestStatusLog` | create, accept (three ways), reject, offer, choose an offer, submit and update details, approve, reject, cancel, relist, reopen, start, complete, edit, delete | handlers with and without row locks on the same row; checks on unlocked rows; `on_commit` callbacks; a stage read from the log; account deletion | one provider at a time; no way back from execution; a decision is possible and concerns complete details; offers agree with the assignment; the log tells the whole story |
| payments of a request (`marketplace/payments.py`) | three amounts on the row, `ServiceRequestPaymentPlan`, its installments | ensure, revise, recalculate a plan; create an installment, upload its receipt, decide on it | amounts kept twice; a plan that outlives a round; retried receipts | copies agree; confirmed payments stand; no more is asked for than the total |
| urgent dispatch (`marketplace/services/dispatch.py`, `tasks.py`) | `ServiceRequestDispatch` per tier, `EventLog`, `Notification` | arm windows, mark ready, dispatch, clear | callbacks and a periodic task outside any transaction; crashes | everybody in the pool told once, no window forgotten |
| competitive dispatch (same file) | `EventLog`, `Notification` | send what is due, clear on return to the pool | check, then send, without a lock; a batch of the oldest | nobody told twice, everybody told |
| billing (`billing/services.py`, `views.py`) | `Invoice`, `PaymentAttempt`, `WebhookEvent` | start a payment, handle a webhook, checkout page, reversal | duplicated, late and reversed events, several attempts | paid exactly when a fresh success event says so |
| subscriptions (`subscriptions/services.py`, `signals.py`) | `Subscription` rows of a user with their invoices | checkout, change, renew, pay, activate, grant basic, remove, refund, expire | lock order against billing, overlaps, expiry driven by the user's own requests | one current subscription; access just if paid |
| verification (`verification/services.py`) | requests, requirements, badges, a mark on the profile | apply, renew, upload, review, finalise, pay, reverse, expire | payment and review decided apart, a job in five statements | a badge only with approval and payment, one at a time, and an end to it |
| promo (`promo/services.py`, `signals.py`) | campaign, its invoice, its message | quote, pay, execute, send, expire, discard | events in any order; removal against payment | runs only paid and executed |
| extras (`extras/services.py`, `signals.py`; closing in `dashboard/views.py`) | purchases with credits; bundle request, its invoice | buy, consume; price, issue, pay, close | stale copies of clerks, payment before or after the closing | what is used is paid for, what is paid for can be used |
| extras portal (`extras_portal`) | portal subscription, client records with reminders, scheduled messages, loyalty memberships and ledger | activate, expire; set reminders; send; award and adjust points | periodic tasks without locks that overlap and die; pages that commit statement by statement | once each, and done; the ledger adds up |
| messaging (`messaging/api.py`, `views.py`, `consumers.py`; senders of `extras_portal`) | threads, messages, read marks, state per user | send, read, delete, block, archive, remove | three statements per send, no transaction; the portal writes into the same threads | a block is respected, nothing new is hidden |
| reviews (`reviews`) | review, rating on the profile, unified request | create, moderate, delete | rating computed after the commit | rating and mirror tell the reviews |
| excellence (`excellence/services.py`) | candidates per cycle, awards, badge cache | refresh, approve, renew, revoke, expire, rebuild | unlocked job and revocation | an award rests on an approved candidate; the cache follows |
| support and moderation (`support/services.py`, `moderation/integrations.py`) | ticket, log, mirror, case | change status, assign, decide | written from stale copies | closed is closed, decided is decided |
| notifications, unified requests, accounts | rows of the above | create, mirror, delete | | see the components that use them |
| providers (`providers`) | the row of a provider (flag of urgent requests, marks, cover), settings per subcategory, gallery, spotlights | edit the profile, set subcategories and services, upload and remove pictures, post spotlights | requests that load the row and write it back, limits looked at without a lock | the row agrees with the settings, the gallery and what was earned; limits hold |
| analytics, audit, features, content, uploads, core | data, append-only records, reads | | | |
| dashboard, back office, mobile and web clients | none of their own | call the services above | forms that hold what was read | |

Interaction. The API, the pages and the staff's dashboard call the services. A
payment always goes through billing, whose `post_save` signal of the invoice
calls a receiver in subscriptions, verification, promo and extras, inside the
transaction of the payment; every receiver swallows its own exceptions. So each
of these components is modelled with the moves that billing may make of its
invoice (`Invoices!After`), and what billing itself promises is a module of its
own. Celery beat starts the jobs (`src/backend/config/settings/base.py`,
295-365). Requests are not wrapped in a transaction unless the handler opens one
(`ATOMIC_REQUESTS` is not set): this decides where the modules split a handler.

## 2. Modules

`ServiceRequest` is the core. Its variables are the row `sr` (a record; status
`deleted` when the row is gone), `logged` (the `to_status` values in the status
log: what `service_request_pending_input_stage` reads), `offers` (the unique
offer of each provider), `profiles` (accounts that exist) and `worker` (what
each web worker is in the middle of). Texts, dates, files and notifications are
left out; `details` says that delivery date and amounts are set, `respond` which
answers the provider requires, `approved` is the nullable decision.

A handler that locks the row in a transaction is one action: for instance
`ProgressUpdate` is the whole of `ProviderProgressUpdateView.post`, its log
entry included. A handler that reads the row outside a transaction is split
there: `LegacyAcceptRead`, `LegacyAcceptUpdate`, `LegacyAcceptLog`;
`CreateOfferCheck`, `CreateOfferInsert`; `DecisionCheck`, `DecisionApply`;
`EditCheck`, `EditSave`. `Reopen` leaves its `on_commit` callback as a task,
`Redispatch`, which `WorkerLost` may drop. The eligibility of a provider
(subscription, scope, urgent switch) is left open, so the model lets more
providers accept than the code does.

Three actions stand for more than one caller. `EngagedCancel` is the branch of
`execute_action("cancel")` for the provider and for the staff. Relisting,
reopening, decisions and deletion by the staff are the client's actions. Offers
of any age may be chosen, because `AcceptOfferView` does not check the offer's
own status.

`RequestContract` is the abstract specification: a phase and an owner, and the
ways they may change. `ServiceRequest` implements it with `Phase` (which counts
a submission made in execution as execution) and `sr.provider`.

`ServiceRequestHistory` adds one history variable, whether the execution of the
current round was agreed, which neither the row nor its log remembers.

`RequestPayments` extends `ServiceRequest` with the amounts of the row, the plan
and the installments. Each action of it is a step of the request together with
what it does to the money, or one of the three payment endpoints. These
endpoints lock through a join on the nullable provider, which PostgreSQL
refuses (the comment at `services/actions.py:462` says so of the same query);
they can only run on SQLite, the default of `base.py`, which serialises
writers. So they are atomic here.

`RequestDispatch` stands on `RequestContract` instead of `ServiceRequest`: the
contract is proved of the requests (section 5), and all that dispatch reads of
a request is whether it is open and whom it names. Its `job` gives each process
the statement it is at: the creation after its commit (`direct`, `arm`), the
callbacks (`accepted`, `withdraw`, `clear`, `forget`), and the dispatcher
(`mark`, `list`, `dispatch`). `dispatch_window` is one action because it holds
the lock of the window, and the request's through the join. `due` abstracts
`available_at <= now`; windows come due in any order, which includes the order
of the tiers' delays. `unlogged` remembers whom the creation told while a
callback was about to delete the event log. `Eligible` is the set of providers
that match and want the invitation. The accounts stay, and the tiers may change only if
`TierChanges`.

### Services around the request

| module | models | where it splits, and what it assumes |
|---|---|---|
| `Invoices` | what each kind of event makes of an invoice | shared by the five modules below |
| `Settlement` | abstract specification of billing: paid by a fresh success event, unpaid by another fresh event, no event twice | |
| `Billing` | one invoice, its attempts, `WebhookEvent`, checkout tabs, the notice | `init_payment` and `handle_webhook` lock the invoice and are one step each; the checkout page checks on an unlocked row (`OpenCheckout`, `SubmitCheckout`). `Deliver` takes any event about any attempt, at any time |
| `Subscriptions` | the subscriptions of one provider | a job of a worker is the transaction it is in; two that overlap do not see each other's rows (`overlap` remembers). `SaveInvoiceUnheard` is the receiver that loses a deadlock |
| `Verification` | the requests of one provider for one badge code | services lock and are one step, for the lock of a request is one of its requester too (`select_related`), so two payments follow each other; a receiver that loses a deadlock does nothing (`ActivationUnheard`, `PayUnheard`); the expiry job has five steps, and may be killed between them |
| `Promo` | one campaign | the removal is two steps, because it and a payment lock campaign and invoice in opposite orders |
| `ExtraCredits` | the purchases of one SKU | each service is one transaction |
| `ExtrasBundle` | a bundle request, its invoice and the portal | a clerk holds the row that he read; closing and activation are separate commits; the expiry job reads, then writes |
| `ClientReminders` | a reminder and its job | the job ends where its query is built: its module does not import `Q`, and the rest of it is not reached |
| `ScheduledMessages` | a message to several clients | the page commits the row, its recipients, then each copy; a run sends all in one transaction, then notifies inside the same `try` |
| `Loyalty` | the points of one client with one provider | award: look, then lock; form: read, write, write |
| `CompetitiveDispatch` | the pool's requests and one provider | a run's listing, look and send, and the two clearings of a return, are separate steps |
| `Reviews` | the reviews of one provider, rating, mirror | save, aggregate, write, mirror are separate steps |
| `Excellence` | one badge type of one provider | approval is a transaction; job and revocation write award, candidate and cache separately |
| `HelpDesk` | a ticket, its log, its mirror, its case | copy, check and write, mirror, case |
| `Conversations` | one thread of two participants | look at the block, insert, bring back; list unread, then mark. The extras portal's page, loyalty message and job write into the same thread and only insert (`PortalSend`) |
| `ProviderProfile` | the row of one provider and his settings | a request holds the row that it loaded; the settings view is a transaction, a service stores, judges and writes separately |
| `ProviderGallery` | cover and gallery of one provider | every statement is a step; a request holds the cover that it loaded |
| `Spotlights` | the spotlights of one provider and the quota of his plan | look at the quota, create; the receiver counts, lists and deletes |

A race that the code does not exclude is part of the model, and a history
variable remembers that it happened (`overlap`, `trampled`,
`ratingPassed`, `mirrorPassed`, `renewedSince`, `staleRevoked`, `ticketPassed`,
`casePassed`, `poolCrossed`, `bulkCrossed`, `jobCrossed`,
`paidUnder`, `staleClerk`, `leftHalf`, `blockLate`, `sendLost`, `unheard`,
`deaf`, `unheardPromo`, `againPaid`, `unsynced`, `markLost`, `together`,
`uncovered`, `unenforced`, `brokenOff`,
`unlogged`). The properties say what holds as long as
it has not, so each of them names exactly the races that break it; section 3
lists what they cost the user.

`MCServices` and `MCJobs` put the smaller components into one run each. The
components share no variable. A variable `focus`, chosen at the start, says which
of them the behaviour is about, and only its actions are taken: the states of
the components add up instead of multiplying, and nothing is lost, since
components that share no state cannot interfere. Fairness is that of the
component under its focus. The invariants conjoin those of the components
(where one asks for its focus only, the others are as they began);
each conjunct is a definition of its component, with its own comment.

Each component keeps its mutations, definitions that a plausible bug would turn
the code into, beside the definition they change, under a comment that starts
with "Mutation:". No specification uses them; they show that every property can
fail.

## 3. Runs

Every run disables the deadlock check: rows come to their ends (deleted,
completed, expired, refunded), where the code rightly has no step left.

| run | instance | what it shows |
|---|---|---|
| `request_lifecycle` | three providers (one owned by the client, one by the staff), two workers, one required response, all types, crashes, account deletion; 218,021 states | engaged requests have a provider; stages come in order (what waits is undecided and complete, what is executed is logged); no acceptance takes a request away; no way back from execution; `ServiceRequest` implements `RequestContract` |
| `request_offers` | the same without crashes or account deletion, so that callbacks do run; 83,902 states | every status is logged; one selected offer, of the provider; an earlier round leaves no decided offer |
| `payments` | normal and competitive requests, two providers, amounts up to 2, two installments, rejected receipts; 4,302,487 states | row, plan and installments agree; a confirmed payment stands, also when another provider takes the plan over |
| `payments_committed` | normal requests, amounts up to 3, three installments, account deletion, no rejection; 77,000 states | paid and asked for stay within the total |
| `dispatch_rounds` | two providers, two tiers, one web process and the beat, each may die once; 3,892,620 states | when its windows are decided, a request that stayed in the pool has reached everyone; no invitation on top of another |
| `dispatch_decided` | one provider whose tier may change (`TierChanges`), one web process and the beat, each may die once, fairness; 666,928 states | every window is decided |
| `subscriptions` | two subscriptions, a free and a paid plan, two overlapping transactions, fairness; 462,590 states | nothing is provided unpaid and nothing paid is ignored; one current subscription, never lost by replacing it; what ended stays ended; the latest one expires |
| `verification` | two requests, one kill of the job, fairness; 731,809 states | a badge rests on approval and payment; one at a time; the profile follows; an expired badge ends |
| `services` | the eleven components of `MCServices`: two attempts and two prices, two purchases of two credits, two clerks, two completed requests, two cycles and awards, two editors, two desks, two participants, two requests of a provider that overlap; 3,507,823 states | payments follow events and `Billing` implements `Settlement`; copies agree with what they copy (points, rating, mirrors, cache, portal, lists, profile, cover) and limits hold; what stands (a payment, a closing, an award, a decision, a block, the newest spotlights) is not taken back |
| `jobs` | the five components of `MCJobs`: two runs of each job that overlap and die once, fairness; 142,821 states | everyone is told once; campaigns run only paid and executed; every job brings its work to an end |

Composite properties, for the reader who looks for the part of a component:

| property | conjuncts |
|---|---|
| `StagesInOrder` | `ExecutionLogged`, `AwaitingUndecided`, `SubmissionComplete` |
| `AccessPaid`, `EndsOnce` | `PaidAndHeard`, `PaidInFull`; `NeverRevived`, `PaymentNotDeleted` |
| `ActiveOnce`, `BadgeSteps` | `ActivePaid`, `OneBadge`; `MarkSynced`, `BadgeNotLost` |
| `PaymentsSound` | `ConfirmedInFull`, `PaymentAnnounced` |
| `LoyaltySound` | `EarnedOnce`, `LedgerBalances`, `ColumnMirrors` |
| `ReviewsSound` | `RatingTrue`, `ReviewMirrored` |
| `CampaignSound` | `RunsPaid`, `RunsExecuted`, `PaidNotDiscarded` |
| `ServedAndShown` | `UsedPaid`, `CreditsReachable` (extras), `PortalServed` (bundle), `TicketMirrored` (support), `NothingNewRemoved` (messaging), `UrgentShown`, `MarkShown` (profile), `CoverIsFirst`, `UploadOrder`, `GalleryWithinLimit` (gallery), `QuotaKept` (spotlights) |
| `NothingTakenBack` | `ReversedFromOutside` (billing), `PaymentStands`, `ClosedStays` (bundle), `AwardStands` (excellence), `ClosedFinal`, `DecisionStays` (support), `BlockRespected` (messaging), `NewestStay` (spotlights) |
| `OnceEach` | `SentOnce`, `RecordedAsSent`, `InvitedOncePerListing`, and the types of their modules |
| `JobsDone` | `RunEnds`, `MessageTried`, `BulkSettled`, `PoolReached`, `PortalEnds`, `BadgeGoes` |

Bounds. Two workers are enough for every race of two handlers; the providers
differ in role, so that every combination of client, staff and stranger occurs.
With amounts up to 2 there are totals paid in one and in two installments,
revisions up and down, partial and full payment, and, after a rejection, more
asked for than the total; with 3, a total revised between what is paid and what
is asked for. Two rows of a kind (subscriptions, requests, attempts, purchases,
cycles) are an old one and its replacement, which is all that the code compares;
a paid and a free plan or price is every distinction it makes among prices. A
process dies once at most, at any step, and the copies of an invitation or
message are counted to two. `Batch` is 1 with two requests in the pool, so that
an old request can keep a newer one out. In the thread one participant has the
portal, and the other marks it as read (`Readers`): the reads of the two never
meet. Four pictures and rows of a gallery,
with limits of one and four, are the fewest whose renumbering passes through
another order (section 5); two quotas and four spotlights let two receivers
clear at the same time. Once a
gallery was written from what had passed (`together`), no further request
begins. Each other bound is a constant, and a guard of the action that would
pass it.

`PoolInvited` is checked with fixed tiers: a provider whose tier changes between
two windows may be missed by both, and nothing in the code promises otherwise.
`SelectedOfferOwner` and `PoolOffersFresh` do not speak of the time before a
reopening's callback has run. `OneInvitation` exempts the direct invitation at
creation, which consults no event log, and whom it told while a callback of
another process was about to delete the event log (`unlogged`). It is checked
with fixed tiers and one web process, and proved for any number of them: where
tiers change, a creation that is delayed before its direct invitation, while
another process reopens the request and the provider changes his tier, is
followed by the window of his new tier, which invites him again. `MirrorsPlan` speaks of
normal requests that are not cancelled: a cancellation during an update clears
the row and keeps the plan, and the other types may be reopened with it.

### Where the code disagrees

Two runs each find a counterexample to a statement of the repository.

| run | statement | what happens |
|---|---|---|
| `finding_agreed` | execution begins when the client approves (`marketplace/services/actions.py:687`) | after a reopening, the old log entry makes the rejection of the first details start the execution |
| `finding_reminder` | all records whose reminder has arrived are checked and announced (`extras_portal/services.py:242`), each exactly once (244) | every run of the job raises a `NameError` where it builds its query (265: `Q` is not imported), so no reminder is announced or flagged |

Further disagreements, met while modelling; the models contain them, no run is
about them:

- A rejected receipt uploaded again after a replacement installment commits
  more than the total (`marketplace/payments.py:259`, against 217).
- A progress update revises the total before the client approves it
  (`marketplace/api.py:885`, against the notification of 178).
- A plan taken over by another provider keeps the bank account of the first
  (`marketplace/payments.py:115`; `tests.py:280`).
- Windows of a reopened urgent request stay decided, so the pool is not told
  again (`marketplace/services/dispatch.py:232`; `services/actions.py:198`).
- If the callback of a reopening is lost, decided offers stay
  (`marketplace/services/actions.py:622`; `tests.py:1334`).
- A creation that tells its named provider between another process's listing of
  the event log and its deletion is forgotten: where nobody was listed, all of
  it is deleted (`marketplace/services/dispatch.py:560`), and the window invites
  him again: `unlogged`.
- The extras portal writes to a client who blocks the provider, and a thread
  that the client removed stays removed although the portal wrote into it
  (`extras_portal/services.py:112`, `extras_portal/views.py:2091` and 2557, against the comment
  of `messaging/consumers.py:80`: "Unarchive for participants when a new message
  arrives"): the exception in `BlockRespected` and `NothingNewRemoved`.
- A message of the portal that is due when the job lists it between its row and
  its recipients is cancelled for having none (`extras_portal/services.py:101`,
  `extras_portal/views.py:2068`).
- What `extras_portal/services.py` says after the query of its reminder job would
  take the event log of one time of a reminder for another (201), once it ran.
- The request page approves without the answers that the API demands
  (`tests.py:1722`, and the API asks for them on an unlocked row, `api.py:991`),
  and lets the client accept his own urgent request (`views.py:203`, `api.py:97`).
- Expiry refreshes the latest subscription only (`features/middleware.py:40`),
  while `subscriptions/services.py:1127` speaks of all of the user's.
- A verification that is finalised again although it has an invoice is approved
  and loses its badge, and no payment is asked for (`verification/services.py:1098`).
- An event that cancels a paid invoice discards only incomplete campaigns, so a
  campaign that runs goes on (`promo/signals.py:34`): the exception in `RunsPaid`.
- A success event repeated after a purchase is consumed makes it active again
  and hides older credits (`extras/services.py:206`): `againPaid`.
- The staff allows or forbids urgent requests in a subcategory, or a provider
  edits his profile, and nobody compares the flag with the settings
  (`dashboard/views.py:9664`, `providers/models.py:421`): `unsynced`. The
  dispatcher asks for both (`marketplace/services/dispatch.py:241`).
- An edit of the profile writes back every column that it loaded, a mark that
  was decided since included (`providers/serializers.py:595`): `markLost`.
- An edit that empties the cover leaves the gallery, and the next upload shows
  its own picture instead of the first (`providers/views.py:376`): `uncovered`.
- A removal renumbers the gallery row by row, without a transaction, and a
  second removal can take a row away that the first has still to write: it ends
  there, and the rows stay half renumbered (`providers/views.py:316`):
  `brokenOff`.
- Two receivers of new spotlights that have counted the same excess each delete
  as many, the second one newer ones (`providers/signals.py:388`): `passed`.
- Deadlocks between a payment and a checkout (`subscriptions/services.py:690`),
  a removal (`promo/services.py:215`) or a deactivation
  (`verification/services.py:494`) cost the receiver its work and are swallowed:
  `unheard`, `unheardPromo`, `deaf`.

## 4. Fairness

A process that has started a job goes on unless it dies, Celery beat starts the
job again (`src/backend/config/settings/base.py`, 295-365), and time passes. That
is weak fairness of the job's steps, of its start, and of the clock:
`FairDispatchSpec` (`JobStep`, `Tick(Beat)`, `Due`), `FairVerificationSpec`
(`RunJob`, `Lapse`), and in `JobsFairness` the runs of promo, messages,
pool, portal and excellence; `FairRemindersSpec` has the start and the end of a
run. No client, provider or member of the
staff is obliged to act, with one exception: a subscription expires when its
user's next request passes the middleware (`features/middleware.py`), so
`FairSubscriptionsSpec` assumes that he keeps using the platform (strong
fairness of `Refresh`: between his requests transactions of others may hold the
row), that time passes (`Elapse`) and that a transaction ends. A process that
dies is started again; each model bounds the deaths, for a process that dies for
ever decides nothing. `WindowsDecided` exempts a request that is relisted again
and again, since every relisting dates its windows anew.

## 5. Proofs

Every safety invariant and action property that a run checks is also a theorem,
for all values of the constants that satisfy the named ASSUMEs (bounds are
naturals, sets of roles are sets of providers, NULL is no provider; TLC
evaluates them in every run). Each theorem is about the same specification as
the run, and is proved from an inductive invariant that is stated in the proof
module and says more than the property; the larger ones were first checked by TLC
on the instances of section 3.

| theorem | property | under |
|---|---|---|
| **`ServiceRequestProofs`** | | |
| `TypeCorrect` | `TypeOK` | |
| `StagesCorrect` | `StagesInOrder` | |
| `AssignmentCorrect` | `AssignedWhenEngaged` | |
| `AssignmentExclusive` | `ExclusiveAssignment` | |
| `NoWayBack` | `NeverBackToPool` | |
| `ContractImplemented` | `ImplementsContract` | |
| `SelectionCorrect` | `SelectedOfferOwner` | `~Crashes` |
| `PoolFresh` | `PoolOffersFresh` | `~Crashes`, `~AccountDeletion` |
| `TrailComplete` | `AuditTrail` | `~Crashes`, `~AccountDeletion` |
| **`RequestPaymentsProofs`** | | |
| `PayTypeCorrect` | `PayTypeOK` | |
| `PlanAddsUp` | `ConfirmedIsSum` | |
| `RowMirrors` | `MirrorsPlan` | |
| `PaymentsStand` | `ConfirmedStands` | |
| `NothingOvercommitted` | `Committed`, of normal requests | `~ReceiptsRejected` |
| `PaymentsKeepContract` | `ImplementsContract`, with the payments | |
| **`RequestDispatchProofs`** | | |
| `DispatchTypeCorrect` | `DispatchTypeOK` | |
| `PoolReached` | `PoolInvited` | `~TierChanges` |
| `InvitedOnce` | `OneInvitation` | `~TierChanges` |
| **`SubscriptionsProofs`** | | |
| `SubscriptionsTypeCorrect` | `SubscriptionsTypeOK` | |
| `AccessIsPaid` | `AccessPaid` | |
| `OneCurrentAtMost` | `OneCurrent` | |
| `EndsForGood` | `EndsOnce` | |
| `NeverLeftWithout` | `NotLeftWithout` | |
| **`VerificationProofs`** | | |
| `VerificationTypeCorrect` | `VerificationTypeOK` | |
| `BadgesBacked` | `BadgeBacked` | |
| `ActiveOnceCorrect` | `ActiveOnce` | |
| `BadgesStepwise` | `BadgeSteps` | |
| **`MoneyProofs`** | | |
| `PaymentsCorrect`, `ReversalsFromOutside` | `PaymentsSound`; `ReversedFromOutside` | |
| `SettlementImplemented` | `ImplementsSettlement` | |
| `CreditsCorrect` | `UsedPaid`, `CreditsReachable` | |
| `PortalIsServed`, `BundleStands` | `PortalServed`; `PaymentStands`, `ClosedStays` | |
| `LoyaltyCorrect` | `LoyaltySound` | |
| **`ServicesProofs`** | | |
| `AwardsBacked`, `AwardsStand` | `AwardBacked`; `AwardStands` | |
| `ReviewsCorrect` | `ReviewsSound` | |
| `TicketIsMirrored`, `DeskStands` | `TicketMirrored`; `ClosedFinal`, `DecisionStays` | |
| `NewsComeBack`, `BlocksRespected` | `NothingNewRemoved`; `BlockRespected` | |
| `ProfileCorrect` | `UrgentShown`, `MarkShown` | |
| `GalleryStands` | `CoverIsFirst`, `UploadOrder`, `GalleryWithinLimit` | |
| `QuotaIsKept`, `NewestDoStay` | `QuotaKept`; `NewestStay` | |
| `ServicesTypeCorrect` | `ServicesTypeOK` | |
| `ServesAndShows` | `ServedAndShown` | |
| `NothingIsTakenBack` | `NothingTakenBack` | |
| **`JobsProofs`** | | |
| `CampaignCorrect` | `CampaignSound` | |
| `MessagesAreSentOnce` | `SentOnce`, `RecordedAsSent` | |
| `InvitedOnceForListing` | `InvitedOncePerListing` | |
| `ToldOnce` | `OnceEach` | |

The hypotheses of the third column are those of the runs (of a row with two,
each), and TLC finds a counterexample without each of them, for `OneInvitation`
one with two web processes and changing tiers. `~Crashes`: the callback of a reopening is
what decides and clears old offers, and a process that dies loses it (section
3). `~AccountDeletion`: an account that goes clears the provider of the row but
writes no log, and its offer goes with it. `~ReceiptsRejected`: a rejected
receipt that is uploaded again is committed a second time. `~TierChanges`: a
provider may pass from a tier whose window is still to come to one whose window
is decided, and back.

### The arguments

*Requests.* Most of the forty actions do one of few things to the row. The lemma
`StepEffect` says so: every step leaves the row alone or has one of the effects
defined in that module, and every other proof is a case analysis over the
effects. The stage properties hold only together: that the log holds
`in_progress` whenever the row does is what makes `ReturnStatus` return to it
only when it is there, and that in turn keeps `Phase` from going back; so
`StagesCorrect` proves their conjunction. `NoWayBack` uses that
`BeforeExecution` is false when the log holds `in_progress` and the request
waits. The offers need to know which callbacks are still to run: `DecidedHeld`
says that a request in the pool with a decided offer has a callback to come that
clears it, `LoggersKnown` that a status which is not in the log is held by the
process that is about to log it.

*Payments.* The same step of the request happens underneath (`RequestMoves`: a
step of `ServiceRequest`, or one more entry of the status that the row has), so
its stage invariant carries over and only the money is new. The sum of the
installments is a function defined by its first-order equation; `SumsExist` and
`SumIs` prove that equation, and `SumAppend` and `SumChange` are what every
action needs. `PlanKnown` says that a normal request has a plan only once it was
executed, so that `update_request_payment_plan` does not meet a plan of another
round. `NothingOvercommitted` needs that no installment is rejected and that the
plan is not above its total (`CommitInv`).

*Dispatch.* `RoundInv` follows the round of the creation: one process arms the
windows, and what it has not armed yet or the beat has listed accounts for every
tier that is not decided. `OneInv` says who can still invite a provider of a
tier: its window, or the process that creates the request; and that nobody is
about to forget an invitation that its holder has, but for those `unlogged`.

*Subscriptions.* Rows are numbered without a gap, so that a new one takes
nobody's place; what a transaction holds is locked (`LocksApart`) and is as it
read it (`JobsHeld`); who makes a current subscription has none beside it
(`OneMaking`), unless two that make one overlapped. The action properties follow
from the same case analysis, since each lemma about an action proves the
invariant and the step together (`StepSound`).

*Money.* *Billing*: `PaymentsSound` is inductive with one more fact, that an open
checkout page is about an existing attempt (`PagesOpen`); lemmas say what each
kind of event makes of the invoice and of the attempt, and the refinement maps
every handler to `Open`, `Receive` or a stutter by the same lemmas.
`ReversalsFromOutside` adds that a page is opened only while there is something
to pay (`OpenedUnpaid`). *Credits*: what is active or consumed was paid
(`PurchaseSound`). *Bundle*: a clerk closes only what he may, and a payment that
comes under his hands is noted (`ClerkSound`). *Loyalty*: balance and ledger move
by the same amount; the invariant relates what the form and the awards have read
to what has happened since (`SheetStands`, `HeldOnce`), which is where `trampled`
comes from.

*Services.* *Excellence*: at most one award is in force (`OneActive`); who has
read the candidate relies on no other award, and who has closed relies on none,
until an approval comes between (`ClosersTrue`); the job has read an award that
was over (`JobTrue`). *Reviews*: an aggregate that is read and not yet written
still counts what is published, unless another saved in between
(`ReadStillTrue`), and the mirror of a review is as its only editor wants it
(`HeldByOne`, `WantGiven`). *Support*: a request that nothing has passed has the
ticket as its copy (`CopyTrueOf`), and has brought log and mirror as far as its
step says (`CarriedOut`). *Messaging*: who was let write is not blocked, unless
the block came after (`LetWrite`); who removed the thread has no news in it
(`NoNews`), but from the portal. *Profile*: flag and mark are inductive with
the types alone, since every action that writes one of them says in the same
step whether its copy was true. *Gallery*: `Settled` says, while no request has
written from what had passed, that requests which nothing has passed have read
what is so (`UpToDate`), that one removal is under way (`OneRemoves`), and how
far cover and order have come (`CoverHeld`, `OrderHeld`). *Spotlights*: a
receiver that has counted last takes enough (`Enforced`), and what it has listed
is the oldest (`OldestEnough`, `OldestApart`).

`ServicesProofs` and `JobsProofs` end with the composition: a behaviour of
`MCServices` or `MCJobs` is one of each of its components (`EachService`,
`EachJob`), so that the theorems of the components conjoin.

*Jobs.* *Promo*: what becomes of a row is a set, and a lemma for each of these
sets says what holds of all its members; the invariant adds that a removal which
holds the campaign found it incomplete and unpaid, and that whoever pays since is
not heard (`DiscardUnpaid`). *Messages*: who drafts has no copies to send yet
(`Drafting`), nobody has a copy of what the job has still to send, who
has listed it has listed all that are still there (`YetToSend`), and one run
at a time sends what is pending (`OneSends`). *Pool*: a run that has a request
which did not cross is alone with it while nothing is cleared (`Apart`), and what
was told of it is in the event log (`ToldInLog`, `StillUntold`).

*Verification.* Requests are numbered without a gap; the form and the job hold
existing requests; one badge is stated for pairs of requests (`BadgesAlike`),
from which the cardinality follows. `BadgesStepwise` needs the types only: every
save brings mark and badges in line in one step and takes no badge but its own
(`SaveSteps`, `GivenSteps`).

### What the proofs changed

`UploadOrder` was false. With four rows of which three have place 0, a removal
that renumbers them passes through another order between two of its saves; with
five, a second removal makes the first fail at a row that is gone and the order
stays wrong. TLC had not met either with three rows. The property now says when
it holds (`brokenOff`, and while a removal has rows to write), the gallery is
checked with four, and section 3 lists the race. The proof of `OneInvitation`
failed at a provider who changes his tier, and later at a callback that found
nobody to clear; TLC found the behaviours that section 3 describes.

### Only model-checked

All liveness (`WindowsDecided`, `LatestExpires`, `BadgeEnds`, `JobsDone`): the
backends do not decide fairness or ENABLED. Induction by the library's theorems
is out of reach, because they take an operator as a parameter; where a proof
needs induction over data (sums, the next number, the oldest and the latest of a
set), it argues by the least element of a set of naturals instead
(`LeastOf`, from `WFMin`).

## 6. Not modelled

Django admin and the seed commands, which write requests without any handler.
The contents of a submission, so which of two submissions an approval meant.
Databases whose isolation is weaker than what the code's locks assume; deadlocks
are modelled as what the database makes of them, one victim.
Cached badge counters (`core/unread_badges.py`), whose error lapses with their
15 seconds. The creation of direct threads, found and then created without a
lock (`messaging/api.py:154`): the unique constraint is missing, and nothing
promises one thread. System threads (subscriptions, verification, promo, extras,
excellence), which are found by their own key and never are the thread of two
participants who write to each other; the award's message leaves a removed one
removed (`excellence/services.py:367`). One-time passwords, roles and sessions (`accounts`).
Renewal and expiry reminders (`core/tasks.py`), which look and then create.
Time-based extras, prices and catalogues, promo items, slots and assets.
Of the providers: search, follows, likes, comments and portfolio. Analytics,
audit, features, uploads, content and the web and mobile clients: data, reads and pages without a protocol of their own; most of the
lines of the repository are of this kind (forms, serializers, listings, exports,
templates), so the models cover a small share of its lines.
`moderation` is modelled with `FEATURE_MODERATION_DUAL_WRITE` on.

## 7. Plan

1. Proofs: what each of `Crashes`, `AccountDeletion` and `TierChanges` leaves
   true of the properties that are proved without it.
2. One-time passwords: attempts, expiry and resend of a code.
3. The reminders of `core/tasks.py` and the creation of direct threads.
4. Promo slots: two campaigns that want the same one.
