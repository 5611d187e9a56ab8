# Branivo: TLA+ models, checks and proofs

This directory is the verification project of Branivo, a white-label
multi-tenant car-insurance platform. TLA+ modules model the parts of the program whose
correctness depends on the order in which requests, queue workers, webhooks, screens and
crashes interleave; TLC checks them on small instances; TLAPS proves the
safety properties for instances of any size. `PROJECT.json` maps every definition to
the lines it models. Paths below are relative to the repository; `api/` stands for
`branivo-api/src/`.

Contents: 1 inventory, 2 the modules and the code, 3 the runs, 4 bounds and
fairness, 5 proofs, 6 known disagreements, 7 what is not modelled, 8 what is left.

## 1. Inventory of the system

### 1.1 Processes and stores

| Part | What it is |
|---|---|
| `branivo-api` | NestJS modular monolith, one process in production (`branivo-infra/modules/ecs/main.tf`: `desired_count = 1`; two overlap during a deployment). Serves HTTP and consumes all queues. |
| PostgreSQL | All business rows. Almost no handler opens a transaction: each awaited statement commits alone. Unique indexes carry the idempotency (payment key, intent id, Stripe event id, tenant and period, policy and stage). |
| Redis | Bull queues, staff sessions, OTP codes, anonymous sessions, caches of hosts and tenant configuration, deduplication keys. |
| Bull | Eight queues. Default: 3 attempts, exponential backoff, the last 100 completed and 500 failed jobs kept (`api/infrastructure/queues/queue.module.ts:21-26`). |
| S3, SMTP, SMS, push, Stripe, carriers, insurers, OCR engines | External; each call may fail, be late, or take effect although its answer is lost. |
| `branivo-web`, `branivo_app` | Next.js PWA and Flutter application. Clients of the API; they poll long operations. |
| `branivo-ocr` | FastAPI service for image preprocessing and MRZ parsing; stateless. |
| `branivo-infra`, `scripts` | Terraform; one-off scrapers and importers. |

### 1.2 Components of the API

Each row names what has a model; section 2 says in which module.

| Component | State | Operations | Interacts with | What is hard | What makes it correct |
|---|---|---|---|---|---|
| Purchase and activation (`payments`, `policies`, `commissions`) | rows of `payments`, `policies`, `policy_events`, `pending_commission_events` | `createIntent`; the webhook endpoint; `handlePaymentSucceeded`, `handlePaymentFailed`; a broker's update and delete | Stripe, the webhook, PDF and logistics queues | duplicated and reordered events, twelve statements without a transaction, retries, a job that runs twice | a policy only for a charged purchase; documents ordered once, and in the end always; statuses that say what happened |
| Policy documents (`policies/pdf-generation`) | S3 keys and mail time in `policies`, `DOCUMENTS_DELIVERED` rows, objects | generate and deliver; generate for a fleet export | PDF queue, S3, SMTP | retry after a mail, two kinds of job on one row | a delivery on record has happened |
| Sticker logistics (`logistics`) | `shipments` | one job per policy | carriers, the broker (manual handling) | answers lost or late, retry makes a new row | no sticker forgotten, no unexplained second parcel |
| Fleet export (`fleet/fleet-pdf-export`) | `fleet_pdf_exports`: counters and status | request, one job per policy, assembly, status, download | PDF queue, S3, broker mail | N jobs look whether they are the last, and each assembles; the request races its own jobs | a completed export is whole; ready means downloadable |
| Fleet vehicles, drivers, bulk purchase (`fleet`) | vehicles, drivers | CRUD, fan-out of `createIntent` | payments | partial failure of the fan-out | each purchase stands alone |
| Renewals (`renewal`) and notifications (`notifications`) | `renewal_notification_log`, channel configuration, push subscriptions | daily check, delivery of a notice, configuration | notification queue, four channels | crash between the queue and the log, overdue checks, policies that change under the check | every due policy is notified, none spammed, renewed ones left alone |
| Billing (`billing`) | `invoices`, unique per tenant and month | monthly run, manual run for one or all tenants | tenants, policies, SMTP | racing runs, one tenant failing | one invoice and at most one mail a month; every listed tenant invoiced or reported |
| Data export (`data-export`) | `data_export_requests` | request, job, status | its queue, S3, SMTP | the job has no tenant; final failure | what is promised is delivered |
| Staff sessions (`auth`, `users`) | refresh tokens and blacklist in Redis, lock-out counters, reset tokens | login, 2FA, refresh, logout, password reset | SMTP | get-then-delete rotation, reset racing refresh | one token, one use; a reset ends old sessions |
| Clients and anonymous sessions (`clients`, `sessions`) | `end_clients`, OTP and session keys | OTP, registration, migration of the session | SMS, OCR | read-modify-write of one key by three writers | no data lost at registration |
| Tenants (`tenants`, `admin/admin-tenants`) | `tenants.status`, Stripe account, KFN licence, domains, flags, caches | invite, connect, verify, activate, suspend, domain verification | Stripe, Redis, DNS | two handlers for one Stripe event, stale caches | active only when connected and licensed |
| Quotes (`quotes`) | quotes with expiry, breakers in memory | fan-out, scoring, selection | insurer APIs | a session that asks twice, answers per insurer, a breaker per request | no quote left pending by an answered request; one offer recommended |
| Register of insurers (`insurers`) | rows of companies, a sync status in memory | synchronisation, Trustpilot pass, the two office pages | the Commission's site, web sites, Trustpilot | whole entities read minutes before they are saved; caches of two pages | what is known is not lost; a reported success is whole |
| Talon OCR (`ocr`) | `ocr_jobs`, rate counters, the anonymous session | scan, Textract fallback job, poll | Vision, Textract, Redis | several jobs finish one row, late results, no tenant in the job | a scan ends, with the best result |
| Vehicles (`vehicles`) | a note in the session, the cache of the Guarantee Fund | validate, enrich | traffic police, Guarantee Fund | cache by VIN, registers that fail, overlapping checks | what is shown is what the registers said of this vehicle |
| Catalog (`vehicle-catalog`) | makes, models, modifications; sync runs with log | scrape, import, follow the log | a scraper process, the queue | lock by status row, crash mid-run, a checkpoint on disk | a run that is done is whole; the log loses no line |
| Seed (`infrastructure/database/seed.service.ts`) | the rows of two tenants | every start of a non-production API | Postgres | no transaction, two starts at once | a missing row is explained by a start that was cut short or a race |
| Compliance (`compliance`) | versioned texts, acceptances, consents, breaches | publish, accept, report, alert | cron, SMTP, Redis | versions per language, deadlines, deduplicated alerts | the current text is the accepted one; no deadline passes in silence |
| Administration (`admin`) | subscription plan and pending downgrade, health rows, notices | change of plan, enforcement job, monitoring | cron, Redis | snapshots used after a loop, caches | flags follow the plan |
| Audit (`common/audit`) | `audit_log`, a hash chain per tenant | log, verify | everything | order by clock, swallowed errors | the chain verifies |
| Tenant context (`common/tenant-context`, `common/base.repository`) | request-scoped tenant, host cache | resolve, scope a statement | every repository | outside requests there is none | no statement without its tenant |

### 1.3 The clients

The web application and the mobile one hold state that outlives a request: forms filled from a copy, query
caches, page stacks, blocs that handle events side by side, timers. They are part of the inventory
where that state meets an answer: the scan wizards, the talon of the quotes page, the screens of a
code, the vehicle's picker and checks, the checkout, the first pages, the office's panels, the pages of the catalog and of the register.

### 1.4 Where the components meet

The components meet in three places: Postgres rows that several handlers read and later write
(`payments`, `policies`, `fleet_pdf_exports`, `tenants`), Bull jobs that one
handler queues for another (activation to PDF and logistics; fleet export to PDF; check to notice), and
Redis keys with a lifetime. The hazards that follow from this are listed in
`PROJECT.json`, each with the properties that watch over it or with the reason why none does.

## 2. The modules and the code

### 2.1 Conventions

- *One action per awaited statement.* A handler's `await` on a shared store ends an action; what lies
  between two of them is one action, because a Node process runs it without
  interruption. `pc[x]` names the statement that actor `x` executes next; what it has read is in a copy of its own (`copy`, `snap`, `cur`).
- *Faults.* `Fault` marks what the code does not decide: a
  statement that throws, a process that dies, a lock that is lost while the
  handler still runs. Each takes one of `MaxFaults`, so that a property can say "unless
  a run was cut short" as `faults = 0` or can count the exceptions. Ordinary answers (no address, feature
  off, a carrier refuses, a register does not know) are free choices and cost nothing.
- *Ghosts.* A variable that the code does not have, and that only remembers why an exception is granted
  (`torn`, `overlapped`, `excused`, `slipped`), is called a ghost or named for what it remembers.
- *The map.* A map row of `Init` names the entity with its defaults, or the initial state of a component; a
  row of `Next` names the controller, bloc or page whose routes and events are the actions.
- Operators whose comment begins "Mutant:" are plausible mistakes in the operator that follows. No
  specification uses them; they show that a property would notice.

### 2.2 The API

| Module | Models | State and actions |
|---|---|---|
| `BullQueue` | one Bull queue as the API uses it | `job`, `tries`, `stalls`, `lock`; `Add` ignores a known jobId, `Take`, `Complete`, `Throw` (attempts), `Reclaim` (a stalled job goes to another worker while the first may still run), `Forget` (removeOnComplete). Extended by every module with a queue. |
| `PolicyActivation` | `payments.service.ts` `createIntent`; the webhook of `payments.controller.ts`; both payment handlers of `stripe-webhook.service.ts`; create, update and delete of `policies.service.ts`; the commission rows | `FindPayment`, `SavePayment`, `CreatePendingEvent` are `createIntent`; `CheckDuplicate` to `ConfirmCommission` the numbered steps of `handlePaymentSucceeded`; `ReadPayment`, `MarkFailed`, `FailCommission` the other handler; `CreatePolicy` is `POST /policies`, a row in any status under any intent that is at Stripe; `ReadForUpdate`/`UpdatePolicy` a broker's read and write. |
| `PurchaseLedger` | what that pipeline promises | six sets and counters, no queue, no worker: charge, issue, enter by hand, record, order the PDF, order the sticker |
| `DocumentDelivery` | `pdf-generation.service.ts`, both entry points, for one policy | `LoadPolicy`, the uploads, `UpdatePdfKeys`, `SendDocuments`, `MarkDocumentsEmailed`, `RecordDelivery`; an S3 object is named by what it holds |
| `StickerDelivery` | `logistics.service.ts` for one policy | `shipments` is the sequence of rows, one per attempt; `CallCarrier` chooses whether a parcel is made and whether the answer arrives |
| `FleetExport` | `fleet-pdf-export.service.ts`, its repository and processor | the row's columns, the ZIP, the PDFs in S3; the gate `tryMarkForAssembly` lets every job through, as its query result has it (6.7); `snap[w]` is the copy of the row that `assembleBatchZip` works from |
| `FleetVehicles` | the other requests of `fleet` | the list with the state of the insurance over its pages, the assignment of drivers, the purchase of many quotes at once with its idempotent intents |
| `RenewalNotices` | `renewal.service.ts`, `renewal.repository.ts`, the renewal part of `notifications.service.ts` | a calendar (`today`), the policies' covers, the check as a loop over stages and policies (`stage`, `todo`, `policy` per worker), the log, the notices and their channels |
| `InvoiceRun` | `billing.service.ts`, `invoice-generation.processor.ts` for one month | the run over all tenants as a loop, single runs, the unique invoice, mails, alerts, and alerts the mail server refused (`unheard`: logged and swallowed) |
| `DataExport` | `data-export` | the limit, the row's status, the job; `JobsHaveTenant` says what `TenantContext` gives a job |
| `StaffSessions` | `auth.service.ts` and the web's refresh, for one staff user | login with lock-out and second factor; refresh as get, del and set of a Redis key from several tabs; logout; a reset as an update followed by a scan of keys |
| `ClientAccess` | `anonymous-sessions.service.ts`, `client-auth.service.ts` | the session's fields, each writer's copy between its GET and its SET, the migration; the code of one phone number and its counter of attempts |
| `QuoteFanOut` | `quotes.service.ts` `createQuoteRequest` | pending rows, the answers of the insurers, score and recommendation, the answer over all quotes of the session |
| `TenantOnboarding` | `admin-tenants.service.ts`, the onboarding page, the two endpoints for `account.updated` | status, licence, account, invitation; Stripe's events of any account, late, repeated and in any order |
| `TenantSettings` | `admin-subscription.service.ts`, `feature-flags.service.ts`, `tenants.service.ts`; the writers of the status in `admin-tenants.service.ts` and `stripe-webhook.service.ts` | the row, the pending downgrade and its nightly job, the cached configuration, each actor's copy; `UpdateTenantStatus` clears the cache after its write, `StatusFollowsStripe` (the webhook, `account.updated` of the administration, the activation) does not; the licence is written with the status or alone, and counts as part of it |
| `CustomDomain` | `domains.service.ts`, `domain-verification.job.ts`, `tenant.middleware.ts`, the lookup of the sign-in | rows of a domain, the host key both lookups share, the job's visits |
| `AuditChain` | `audit.service.ts` | the log in order of creation, the writers' clocks, the advisory lock, the hash found; what `verifyChain` sees. Its failures stay in it: no caller of the log hears of one, which is why the other modules do not mention it. |
| `BreachRegister` | `data-breach.service.ts`, `data-breach-alert.job.ts` for one breach | its age, the row, the four-hourly job and its key, administrators' whole-row saves |
| `VersionedTexts` | terms, privacy policy, cookies; the phone's screens for them | versions per language, editors' drafts, acceptances, the phone's consent and the server's |
| `InsurerRegister` | the synchronisation with the Commission's pages, the web sites, Trustpilot | rows, each process's copy of them, the page as it changes; saves that write every column that differs from the table |
| `VehicleChecks` | `vehicles` validate and enrich, with the mobile screen that shows them | the registers' answers, the Fund's cache, the session's note, the calls under way |
| `CatalogSync` | the start of a run, its job, the scraper process with its checkpoint, the import | the run's row, the job in its queue, `mem`, `checkpoint`, `output` of the scraper, the rows imported |
| `SeedRun` | `seed.service.ts` | the statements of a start in their order, two processes, the rows, who was cut short |

### 2.3 The clients

| Module | Models | State and actions |
|---|---|---|
| `OcrScan` | the web's scan wizard, the hook that polls, `ocr.service.ts` and the Textract jobs | the page's step, the polls and their answers in any order, the job row, the jobs of the fallback |
| `TalonUpload` | the talon of the web's quotes page, the proxy, the OCR service's limit and its reading of lines | slots, crop editor, form, the reading under way, debug panels, the bucket of the limit |
| `OcrWizard` | the mobile scan wizard | the bloc's state and what the screen was last drawn from, photos and corners, scans that read the lists while they change |
| `MobileSession` | tokens and the Dio client of the mobile application | each call's header, the queue of the error interceptor |
| `CodeScreens` | forgotten password on web and phone, registration by SMS, login on the phone | inputs, the address each request was named for, cooldown, messages |
| `VehiclePicker` | the mobile choice of make, model and modification | the picker's choice, the form's texts, lookups on their way, sheets |
| `Checkout` | mobile offers, the gate of who is not signed in, instalments, payment | the stack of pages, Stripe's sheet, intents and charges |
| `FirstSteps` | mobile start: onboarding, splash, home | the page, the timer of the splash, sessions asked for |
| `OfficePanels` | six panels of the web's office: branding, flags, plan, rates, a user's role, an insurer's integration | the record, each tab's copy and form, loads and saves on their way |
| `CatalogPage`, `SyncLog` | the catalog's page with its query cache; the log of an import, streamed | picked model, pictures and rows asked for; lines stored, sent and kept |
| `RegisterPages` | the two pages of the register of insurers | two query caches, polling, message, failed pictures |

### 2.4 Compositions

| Module | Sides |
|---|---|
| `MCOrder` | `documents` (`DocumentDelivery`), `sticker`, `scan`, `mobile`, `wizard`, `talon` |
| `MCOffice` | `export` (`FleetExport`), `texts` (privacy policy with two editors; terms with one editor and one phone; one text of cookies with two phones) |
| `MCRequests` | `staff` and `unlucky` (`StaffSessions` without and with mistakes), `client` and `mistyped` (`ClientAccess`), `quotes`, `onboarding`, `settings` and `status` (`TenantSettings` with plans and flags, and with the status and failures), `audit`, `fleet`, `drivers`, `bulk` (the three parts of `FleetVehicles`), `panels`, `codes`, `vehicle`, `checks`, `catalog`, `sync`, `checkout`, `first` |
| `MCScheduledJobs` | `notices` and `policies` (`RenewalNotices`), `billing`, `catalog`, `breach`, `insurers`, `seed`, `domain`, `pages` |

The components of a composition share no row, key or queue, so interleaving them would multiply states and
show nothing. The variable `side` chooses which one a behaviour follows. Where components do share state they are one module
(an activation with its brokers' edits; a delivery and an export on one policy).

Some sides are *not followed* beyond a point, and the composition's comment names it: after an overlap or failing statement
for which a property is given up (`client`, `onboarding`, `vehicle`), after an event that slipped (`wizard`), and
on `talon`, `pages`, `unlucky`, `panels`, `checks`, `settings`, `status` and `notices` in combinations of inputs that multiply states. The theorems of section 5 are about the modules without these
prunings, or show that a pruned side is a behaviour of its component.

## 3. The runs

| Run | Question | Result | States |
|---|---|---|---|
| `activation_safety` | One purchase, a succeeded and a failed event in any order and number, two workers, a broker who enters, edits and deletes the policy, one fault: do statuses, documents and commission stay explained, is the ledger implemented? | `TypeOK`, `PolicyIsPaid`, `DocumentsOncePerEvent`, `PaymentStatusExplained`, `ConfirmedHasActivation`, `OnlyBrokersEditSnapshots`, `ImplementsLedger` hold | 499 k |
| `activation_delivery` | Two requests for one quote, two events that report the same payment, one fault, fairness, no broker: are the documents ordered once and in the end, is every event settled? | `DocumentsOncePerPolicy`, `DocumentsEventuallyOrdered` (without faults), `DeliveredIsSettled` hold | 102 k |
| `customer_order` | Is what a customer waits for true, sent once and never silently lost, with two workers and two faults? Do the two scans show what was photographed? | `RecordIsTrue`, `RepeatedMailsExplained`, `NoStickerForgotten`, `ParcelsExplained`, `SidesExplained`, `OrderedIsDelivered`, `NobodyLeftWaiting` hold | 182 k |
| `scheduled_jobs` | What the API does by itself: are reminders, invoices, the catalog, the breach, the register, the domain and the seed what their owners are told? | `LoggedIsOrdered`, `RenewedLeftAlone`, `ChecksExplained`, `RunAccountsForAll`, `InvoiceMailedOnce`, `DoneIsWhole`, `BreachesExplained`, `InsurersExplained`, `SeedExplained`, `HostsExplained` hold | 818 k |
| `requests` | Requests that overlap, are repeated or fail, and the screens that send them: 20 sides | `ResetEndsEarlierSessions`, `CookieOpensSession`, `SessionLossExplained`, `AttemptsBounded`, `OffersExplained`, `InServiceCanCharge`, `SettingsExplained`, `BrokenChainExplained`, `ScreensExplained` hold | 854 k |
| `office` | A fleet export of two policies with two workers and a fault, every job assembling; the texts for the clients | `ReadyIsTrue`, `TextsExplained`, `ProgressCompletes`, `AssemblyEnds` hold | 610 k |
| `activation_lost_documents` | ... with a single fault, are the documents of a charged purchase still ordered? | `ChargedGetsDocuments` is violated: 6.1 | |
| `activation_late_failure` | Does a failed payment have no active policy? | `FailedPaymentHasNoActivePolicy` is violated: 6.2 | |
| `fleet_overwritten` | Can the broker download what was announced as ready? | `ReadyMessageIsTrue` is violated: 6.3 | |
| `data_export_never_ready` | Is a promised export delivered? | `PreparedIsDelivered` is violated without a fault: 6.4 | |
| `onboarding_no_account` | Does the last step of the onboarding page work? | `PasswordStepWorks` is violated without a fault: 6.5 | |
| `audit_chain` | Do sequential writes build a chain that verifies? | `SequentialWritesVerify` is violated without a fault: 6.6 | |

The largest sides of `requests` are `staff` (120 k), `unlucky` (118 k), `panels` (86 k), `onboarding` (78 k), `client` (61 k),
`checkout` and `checks` (59 k each), `vehicle` (40 k), `quotes` (39 k) and `sync` (38 k); the smallest, `drivers` and `mistyped`, have some hundreds.

A property whose name ends in *Explained* gives up a promise only in the ways it names: the disjuncts are the races and faults that break the promise in the
code, and TLC shows that there are no others. The tables of section 6 say which of them are worth a repair.

`CHECK_DEADLOCK FALSE` stands in every cfg because these systems do stop: a purchase that is
over, a queue that is empty, a calendar at its last day, a screen that was left. That nothing stops early is what
the liveness properties say.

## 4. Bounds and fairness

**Bounds.** `MaxFaults` is 1 or 2: each property with an exception speaks
of one cut-short run, and two faults are enough for a fault that strikes the repair of
the first. `MaxAttempts` is 2 or 3 (the code's 3): two attempts already separate
the first run, a retry and the dead letter set. `MaxStalls` 1 is Bull's
default. Two workers: the process consumes a queue one job at a time, a deployment has two processes,
and a stalled job runs beside its first run; every property relates at most two runs.

- *Activation*: one quote, since purchases share no row; two events for it, because the hazards are between events of one intent.
  Two requests in `activation_delivery` only, where they matter (one unique key); the broker in `activation_safety` only, because a
  row entered by hand makes the webhook's insert throw and its retry find an ACTIVE policy: then no documents are promised.
- *Export, run, check*: two policies, two tenants, two brands are the smallest "all but one" and "last of several".
- *Renewals*: stages at one day and on the day of the end, days 0 and 1: the first stage,
  which does not look for a renewal, and a later one, which does, with a night between them; the code's five
  stages differ only in their distance. One channel: channels are tried one after the other and share nothing but the
  order. `Extensions`, one extension per policy and "a suspended tenant stays suspended" bound the environment.
- *Sessions*: two tabs, three tokens, one mistyped password, one reset. *Codes*: two addresses, three calls: an answer for the first while the second is on the screen.
- *Breach*: ages 49 and 71 are one in each level before the deadline of 72 hours; `MaxAge` 77 passes it and one job after it.
- *Audit log*: three entries, the smallest chain with a wrong link; two clocks of three values.
- *Import log*: `MaxOpens` 3, the clicks on the panel: opened, then closed and opened again, wiped, or a run or two started.
- *Scans*: two sides and two photos of each, so that one can be replaced; `Limit` 2 in a `Window` of one tick.
- *Pages*: `MaxLoads`, `MaxCalls`, `MaxPages`, `MaxVisits`, `MaxTurns` cut off behaviours in which somebody goes on clicking.

Symmetry is used in safety runs, over workers (in `requests` over the pair of tabs, pages, accounts and actors).

**Fairness.** A handler or request that has started goes on (weak fairness of
its next statement): the event loop runs what is ready, and the carriers' calls have timeouts.
Bull hands out waiting jobs in FIFO order, so a job that is waiting again and
again is taken again and again (strong fairness of taking). The stalled-job
checker runs on a timer (weak fairness of `Recover`). Stripe delivers an event until
it gets a 200 (weak fairness of the delivery). The poll of a scan is a timer of the page, and the calls of a phone are answered or time out (weak fairness of each).
No client, broker, fault, redelivery, cron or clock is ever forced.

## 5. Proofs

TLAPS checks the theorems below for every value of the constants that satisfies the named assumptions
(`QueueAssumption`, `PurchaseAssumption`, `DeliveryAssumption`, `ExportAssumption`, `SessionAssumption`,
`CalendarAssumption`, `StagesAssumption`, `JobsAssumption`: types, disjointness and "`None` is not one of them"; TLC evaluates
them in every run) and the hypotheses in the table. No bound of the models is needed as a hypothesis except where
the table says so: the number of faults, actors, rows and events is arbitrary. The bounds that stop a behaviour (`MaxFaults`, `MaxTokens`, ...) stay in the guards with any value.

| Module | Theorem | States | Hypotheses beyond the assumptions |
|---|---|---|---|
| `PolicyActivationProofs` | `TypeCorrect`, `Invariant` | `TypeOK`; the inductive invariant `IInv` | |
| | `PolicyPaid`, `DocumentsOnce`, `PaymentExplained`, `ConfirmedActivated` | `PolicyIsPaid`, `DocumentsOncePerEvent`, `PaymentStatusExplained`, `ConfirmedHasActivation` | |
| | `Implementation` | `ImplementsLedger`: every step of the pipeline is a step of `PurchaseLedger` or a stutter | |
| | `DocumentsOfAPolicyOnce` | `DocumentsOncePerPolicy` | no brokers (an edit can take a policy out of ACTIVE, and then its documents are ordered again) |
| | `SnapshotsAreKept` | the action property `OnlyBrokersEditSnapshots` | |
| `OrderProofs` | `DeliveryOnRecordHappened` | `RecordIsTrue` | |
| | `MailsAreExplained` | `RepeatedMailsExplained` | finitely many jobs and workers |
| | `NoStickerIsForgotten` | `NoStickerForgotten` | more than one attempt and a stall allowed (the code: 3 and 1) |
| | `ParcelsAreExplained` | `ParcelsExplained` | finitely many workers, one sticker job (`stripe-webhook.service.ts` queues one per policy) |
| | `WizardIsExplained`, `UploadIsExplained`, `SidesAreExplained` | `SidesExplained` of each screen and of the composition | more than one side of a talon (the code: 3); sides among 1 to 3; some corners to start with; `Limit`, `Window`, `MaxClock` are naturals; `None` is no slot, picture or text read, and a typed text is no record of a reading |
| `RenewalNoticesProofs` | `LogIsTrue`, `RenewedIsLeftAlone` | `LoggedIsOrdered`, `RenewedLeftAlone` | |
| | `ChecksAreExplained` | `ChecksExplained` | finitely many workers |
| `ScheduledJobsProofs` | `InvoiceIsMailedOnce`, `RunsAccountForAll` | `InvoiceMailedOnce`, `RunAccountsForAll` | `None` is no run |
| | `SyncIsWhole` | `DoneIsWhole` | |
| | `BreachesAreFollowed` | `BreachesExplained` | ages are naturals |
| | `DeletedHostsAreLeft` | `HostsExplained` | |
| | `SeedIsExplained` | `SeedExplained` | |
| | `RegisterIsExplained`, `PagesAreExplained`, `InsurersAreExplained` | `InsurersExplained`: the table's half, the pages' half, both | finitely many companies; `None` is no number, no answer and no row; a row is not called `list` or `progress` |
| | `JobsAreSound` | the seven invariants of the composition | those of the seven |
| `SessionsProofs` | `ResetEndsSessions`, `CookieIsGood` | `ResetEndsEarlierSessions`, `CookieOpensSession` | |
| | `SessionInTheApi`, `AttemptsInTheApi` | `SessionLossExplained`, `AttemptsBounded` | finitely many pages, a positive limit |
| | `CodesAreExplained`, `StepsAreExplained`, `PickerIsExplained`, `CarsAreExplained`, `CheckoutIsExplained` | the parts of `ScreensExplained` about the forms of a code, the first pages, the picker, the checks of a vehicle and the checkout | there is a make; `MaxChecks` is a natural; `None` is no number, address, message, check or label of a page |
| `ApiProofs` | `ServiceInTheApi`, `OffersInTheApi` | `InServiceCanCharge`, `OffersExplained` | |
| | `SettingsInTheApi` | `SettingsExplained` | plans are naturals |
| | `ChainInTheApi` | `BrokenChainExplained` | ids are naturals |
| | `PanelsAreExplained`, `PageIsExplained`, `LogIsExplained`, `FleetIsExplained` | the parts of `ScreensExplained` about the office's panels, catalog page and import log and about the fleet's requests | `MaxLoads`, `FleetSize`, `PageSize` are naturals; `None` is no function and no user or rate |
| | `ScreensAreExplained` | `ScreensExplained` of the composition | those of its nine parts |
| `OfficeProofs` | `ReadyExportIsTrue`, `ReadyInTheOffice` | `ReadyIsTrue` of the export alone and in the composition, with a gate that lets every job assemble | finitely many policies |
| | `TextsAreFollowed` | `TextsExplained` | `MaxVersion` is a natural |

Hypotheses of the form "`None` is not one of these values" are left out of the table where they are only that.

**The arguments.** No property above is inductive: a handler's statements lie between a cause and its effect, so the missing knowledge is where the handlers are.
Every inductive invariant therefore says what an actor knows at the statement it has reached.

- *Activation.* A worker handles an event that Stripe emitted; from `issue` on the payment has left "pending"; from `record` on the policy row exists
  (issued, or entered by a broker: `PolicyIsPaid` is about the rows the pipeline issued and about every activation on record); a
  worker at `pdf` is the only one that will ever order the PDF of its event, because it inserted the unique
  `policy_events` row. From that follows `DocumentsOncePerEvent` although two workers may run one event, and the refinement, whose
  steps need the same facts as guards. For `DocumentsOncePerPolicy`, `SoleInv` says that what of a policy is still to be ordered is in one worker or one waiting job.
- *Counting.* `RepeatedMailsExplained`, `ParcelsExplained`, `AttemptsBounded` and the second half of `ChecksExplained` bound a number by the number of
  faults, pages or checks. Their invariants are accounts: what was done and who may still do it are together at most what the bound allows. A
  step either moves an actor from the second set to the first or spends a fault. The sets are finite
  as the actors are, and each step is a lemma on cardinalities.
- *Sticker and export.* A job that is over says how it ended: every exit of the handler leaves a parcel, a report or an attempt. The
  export's row only counts, so `CountInv` relates its counters to the set of policies that have been counted. Every job assembles; `SnapInv` says of each copy how old it can be, `ZipInv` what an
  archive made from it holds, and `NewestInv` that the last word is of the newest copy unless a slower assembler wrote over it (`outrun`); the last job to count itself has read a row that counts all.
- *Renewals.* `CheckInv` says of every statement who was renewed when, and `SweepInv` who is logged, still on the list or in the worker's hand.
- *Sessions.* A refresh token that was not delivered yet is presented by nobody (`UndeliveredInv`); so two tabs never use one token although the server gets, deletes and sets it in three
  statements. A token from before the change of a password is still on the list of the scan that deletes it, or belongs to somebody under way.
- *Onboarding, settings, texts, domains, breach, catalog, invoices.* Whoever is about to write a status has seen what it rests on, or the overlap that took it away is on record.
  A run over the tenants has for each either an invoice, an alert or the alert's failure behind it, or it is still to come. What a cached configuration has wrong is only what `slips` lists, or a change is about to clear it (`CacheOK`):
  this part has no exception for overlaps.
- *Seed.* The statements of a tenant stand in an order in which each needs only rows of statements before it (`DemoIsOrdered`, from lemmas on
  concatenated runs of inserts), and the premium tenant's need rows of the demo tenant only. `SeedInv`: what a process has passed is there, or a premium tenant begun too early went
  without; a tenant with its row is being seeded, was cut short, or has everything.
- *Register.* A row never changes its key and rows are only added, so what a run has read is still there under its index (`FromTable`), and is the table itself when
  nothing was written since. Hence the merge of an up-to-date reading loses nothing, a second row of a key needs an overlap and a company without a number, and what was scraped is in the table or in the run's hands.
- *Register's pages.* One invariant per query: an answer under way, or data that nobody asks again, is from after the run or the query is excused (`ListInv`); a progress that is
  not polled any more is no running one (`ShownInv`). The two about pictures and rows' pages are inductive as they stand.
- *Audit.* Entries in time are linked to the entry before; the writer who holds the lock has the last hash.
- *The two scan screens.* Wizard: what is drawn may be older than the state, and what was shot older than
  what is drawn; an event about a passed state either fits by chance or has slipped. Quotes page: three invariants that do not meet: the
  slots with editor and panels, the form with the reading under way (a value, an expected answer and a
  picture that was sent are each of the picture in its slot, or the slot is marked as changed), and the bucket of the limit (what the bucket has forgotten is too old to share a window with what comes now).

- *Screens.* Nine invariants that do not meet; each says what can be under way at each state of its screen.
  Codes: the password screens have one request at a time, the others until two have overlapped, and an answer under way is for the address that is shown. Checkout: a page's number is used once and what
  Stripe's sheet is over stays on the stack (`OverInv`), since a payment that has passed the question for a phone is never asked it again; so an answer finds its page. Picker: what a look-up
  or a sheet will write is one vehicle (`OneVehicle`), and it is of the make that is picked or something has crossed. Checks: what the cache holds is of a pair with that VIN (`FundInv`); while none
  overlapped, the check under way is the newest (`NewestInv`). Panels: the saves of a tab are of different switches, each still set in its form (`SwitchInv`), and a tab that no other tab has passed holds what
  is stored or will load it (`LoadInv`). Log: an open stream has sent the lines up to the one it counts (`SentInv`). Fleet: policies that outlived none end in the order they were made (`SortedInv`);
  a call that holds a quote's fee has the one Stripe was given (`QuoteInv`). Catalog page and first pages: few conjuncts beside the property.

A composition's theorem is proved from its components': every behaviour of `JobsSpec`, `OfficeSpec` and `OrderSpec` is one of each component whose variables
its steps leave alone otherwise; `MCRequests` prunes some sides, so there the invariant is relative to `side`. Queue, PDF and mail actions that leave the variables of a conjunct alone are disposed of by frame lemmas
such as `MovesOn`.

**Only model-checked**, and why:

- liveness and fairness: `DocumentsEventuallyOrdered`, `DeliveredIsSettled`, `OrderedIsDelivered`, `NobodyLeftWaiting`, `ProgressCompletes`, `AssemblyEnds`. The prover has no rules for `ENABLED`;
- the type invariants of modules other than `PolicyActivation`: the parts the proofs need are in their invariants (`TypesOK`, `StatesOK`, `RowsOK`, ...).

## 6. Known disagreements

### 6.1 to 6.6, with a run

1. *A charged purchase without documents* (`activation_lost_documents`). Anything that throws after the policy
   row is saved (`stripe-webhook.service.ts:243`) and before the end of the handler makes Bull
   retry; the retry finds an ACTIVE policy (`:188`) and returns. The event, the PDF, the sticker and the
   commission, called mandatory at `:263` and `:287`, never happen.
2. *A failed payment with an active policy* (`activation_late_failure`). `handlePaymentFailed` stops
   only for a payment that is FAILED (`:367`); a late `payment_failed` turns
   a SUCCEEDED one into FAILED while the policy is active, and logs "no policy activation".
3. *Ready, then "not ready"* (`fleet_overwritten`). `createBatchExport` writes PROCESSING after
   its jobs were queued (`fleet-pdf-export.service.ts:86`) and overwrites their final status.
4. *An export that is never ready* (`data_export_never_ready`). Jobs run without a tenant in the
   request-scoped `TenantContext`; the first lookup of the export job throws on every attempt.
5. *An activated tenant without an account* (`onboarding_no_account`). Activation marks the invitation as used
   (`admin-tenants.service.ts:236`); the page's next step, the password, looks for a pending invitation and is refused.
6. *Sequential writes that do not verify* (`audit_chain`). The entry before is found by `created_at DESC, id DESC`
   (`audit.service.ts:30`) with a random id: two entries of one millisecond may be found and verified in the wrong order.

### 6.7 Met while modelling, without a run

Payments and policies
- "A policy is never activated client-side" (`README.md:13` of the repository), but `POST /policies` takes a Stripe intent and a status from the request
  (`create-policy.dto.ts:74-77`) and makes it active by default (`policies.service.ts:92`): a broker can enter an active policy of an intent that was never charged. `PolicyIsPaid` says it
  of the rows that nobody entered. Of an intent with such a row the webhook's insert throws, and its retry finds an ACTIVE policy and orders no documents.
- `updatePolicy` writes the commission columns, an "IMMUTABLE snapshot" (`policy.entity.ts:60`), back with every edit. `OnlyBrokersEditSnapshots` says that nothing else does.
- Logistics jobs are added without a jobId (`stripe-webhook.service.ts:319`), webhook jobs with the event's (`payments.controller.ts:79`).
- On the phone the registration link of the login drops where it came from (`login_screen.dart:152`), and with it the payment; an exception that
  is not Stripe's leaves "Processing" on the screen; an answer lost after a charge shows "Failed".

Fleet
- `tryMarkForAssembly` (`fleet-pdf-export.repository.ts:78`) reads `result.length` of an `UPDATE ... RETURNING`, which typeorm 0.3
  resolves to `[rows, count]` of length 2: the gate never closes. Every job assembles, the first before the others are counted, and an assembler of older
  counts may write its ZIP and its status over those of a newer one. `CompletedExportIsWhole` and `LastWordIsTrue` say what is still true: they except an
  assembler that was overtaken (`outrun`). `users.repository.ts`, `admin-notification.service.ts` and `fleet-driver.repository.ts` use results the same way.
- A statement that throws after a policy was counted as completed counts it again as
  failed (`fleet-pdf-export.service.ts:138-147`); a stalled job counts twice. Hence `Undisturbed` in `ReadyIsTrue`.
- A fleet export overwrites the key of a delivered green card (`pdf-generation.service.ts:157`).
- The list filters by status after LIMIT and OFFSET; a demoted driver stays assigned; a bulk purchase answers "failed" for a quote whose row exists.

Notices and jobs
- The comment at `logistics.service.ts:108` promises the manual fallback after all retries; it is asked for at every failed attempt.
- The web push of a renewal notice looks up its subscriptions through tenant-scoped repositories and always throws; the error is swallowed (`notifications.service.ts:295-311`).
- A day without a check never sends its stage; a policy that begins on the last day of a month is billed in none (`billing.service.ts:22-29,147-148`).
- An alert about a failed invoice that the mail server refuses is logged and dropped (`billing.service.ts:255-267`): the tenant then has neither invoice nor alert.
- The key that deduplicates a breach alert lives as long as the cron's interval and is set although the mail failed.
- `AdminInsurerMonitorJob` is request-scoped, so its cron never registers. `OcrJobRepository.updateStatus` throws when a queue job calls it.
- A seed that dies after the tenant's row is never completed by a later start.

Caches, sessions and tenants
- The comments on invalidation in `tenants.service.ts:108`, `admin-tenants.service.ts` and `feature-flags.service.ts:133` do not hold when a read overlaps the write.
- The cached configuration holds the status and the licence (`tenants.service.ts:44-65`), but `stripe-webhook.service.ts:109` and `admin-tenants.service.ts:199,225` write
  them and leave the key: for up to its 300 seconds a revoked tenant is shown as active, without any overlap. `CacheExplained` has this as the slip "status".
- `handleStripeAccountUpdated` demotes active and suspended tenants; the endpoint of `payments` activates without a KFN licence; the deduplication key is set before the event is handled.
- A logout on the web only clears cookies. A code that is used deletes one sent meanwhile. The breakers of the insurers live as long as a request and never open (`README.md:11`).
- The wallet of the phone never shows policies, against `README.md:106,110`.

Screens
- Corners can be dragged while the preview loads; merged values overwrite what was typed during a reading; a field read from an earlier photo wins over its replacement.
- The OCR service sees the web server's address, so all users of the web share its limit. A lost machine-readable line moves the ones behind it.
- Every successful verification of a registration shows "wrong code". The branding page never loads the current branding.
- The log of an import closes for good at the first error of its stream, and a slow poll loses lines.
- The Guarantee Fund's cache is keyed by VIN alone; a policy lookup that times out is shown as "no policy".

## 7. Not modelled, and why

Every component without a module is listed in `PROJECT.json` with its reason. In short:

- CRUD over single rows, rendering, thin adapters (mail, S3, SMS, push), Terraform, migrations and the one-off scripts have no interleaving worth a model.
- Recognition of documents and generation of PDFs are data processing; the models keep what is found or not found, and in which order.
- The fleet's web pages talk to mocked Next routes and the phone's fleet calls name routes that the API does not have, so there is no behaviour between them; `FleetVehicles` is the API's side.
- The billing page and the wallet show mocked data. `OcrAnalytics` only counts.
- Money is abstract throughout: periods, pro rata and rounding would be pure operators of their own.
- Postgres is taken to be what its documentation says (a statement is atomic, a unique index refuses a second row), Bull and Redis likewise.

## 8. What is left

1. Abstract specifications for the tenant's life (in service only when connected and licensed) and for a client's session, with refinements beside the existing invariants.
2. `BillingAmounts`: period, pro rata and rounding as operators against a reference definition.
3. A property for a day without a check (the one hazard without a property).
