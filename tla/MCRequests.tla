------------------------------ MODULE MCRequests ------------------------------
(***************************************************************************)
(* What the API's requests do beside the queues, for TLC: the sessions of  *)
(* staff, the access of clients, quotes, fleets, and a tenant's            *)
(* onboarding, settings and audit log; and the screens that send them: the *)
(* panels of the office, the screens of a code, the choice and the checks  *)
(* of a vehicle, the checkout, the first pages, the catalog's page and the *)
(* log of its import. Each has rows and keys of its own, so their          *)
(* interleavings show nothing new: side says which of them a behaviour     *)
(* follows; the bound on faults is for that one. Staff are followed twice: *)
(* "staff" never mistype a password, have no second factor and meet no     *)
(* fault; "unlucky" may, and get two tokens at most, or one after a wrong  *)
(* password, and no fault meets a second factor.  A client is followed     *)
(* twice too: "client" types codes right, "mistyped" has no session.       *)
(* Where a property is given up after an overlap or a failing statement,   *)
(* the behaviour is not followed beyond it.  A panel of a plan is open in  *)
(* one tab, the form of a rate in one at a time.                           *)
(***************************************************************************)
EXTENDS StaffSessions, TLC

CONSTANTS
  Pages, Requests, MaxOtpAttempts,            \* of ClientAccess
  Insurers,                                   \* of QuoteFanOut
  OnboardingPages, Accounts,                  \* of TenantOnboarding
  Flags, Restricted, Plans, SettingsActors,           \* of TenantSettings
  Processes, Ids, MaxTime,                    \* of AuditChain
  Values, MaxSaves, MaxLoads,                 \* of OfficePanels
  Addresses, MaxCalls,                        \* of CodeScreens
  Makes, MaxPicks, MaxMounts, MaxOpen, MaxTyped,      \* of VehiclePicker
  Cars, MaxChecks,                            \* of VehicleChecks
  MaxTurns, MaxChanges,                       \* of CatalogPage
  MaxRuns, MaxLines, MaxOpens,                \* of SyncLog
  ShownOffers, Counts, MaxPages,                  \* of Checkout
  Interests, MaxStarts, MaxAsks,              \* of FirstSteps
  FleetSize, PageSize, Users, FleetQuotes, Rates, MaxPolicies, MaxAssigns  \* of FleetVehicles

VARIABLES
  side,
  here, session, stored, latest, torn, takers, spc, copy, code, attempts, client, cpc,
  quote, marked, result, qpc, answer,
  status, license, account, invitation, expired, mailed, user, invite, made, sent, page,
  making, hook, about, reinstate, office, overtaken,
  tenant, pending, due, cache, tpc, tcopy, goal, flips, ttorn, slips,
  log, clock, lock, prev,
  panel, record, shown, form, typed, load, saves, preview, modal, stale, undone, misapplied,
  reselected, used,
  flow, step, input, named, calls, loading, cooldown, countdown, codes, message, proof,
  reset, seen, sentCalls, edited, overlapped, resent,
  host, read, texts, picked, choice, auto, lists, sheets, mounts, picks, chosen, touched,
  crossed, rebuilt, unknown, disordered,
  mock, stolen, listed, insured, knows, fund, anon, checks, asks, view, waits, opened,
  reports, errors, mixed,
  rows, cached, aged, model, filters, images, source, awaited, asked, aborted, turns,
  changes, kept, passed, refetched,
  runs, watched, starting, open, stream, logs, known, opens, ended, dropped, cleared,
  builtin, signedIn, phone, quotes, statuses, tab, turning, stack, pages, wanted, sheet,
  intents, charged, lost,
  at, stage, timer, interests, introduced, fetched, creating, wizards, numbered, starts, wasSeen,
  tapped, rewound, pressedAgain,
  cover, listing, outlasted, duty, driver, assigns, demoted, fee, orders, secured, bought, misses,
  loose

staffVars == <<accountVars, tokenVars, browserVars, resetVars>>
clientVars == <<here, session, stored, latest, torn, takers, spc, copy, code, attempts,
                client, cpc>>
quoteVars == <<quote, marked, result, qpc, answer>>
onboardingVars == <<status, license, account, invitation, expired, mailed, user, invite,
                    made, sent, page, making, hook, about, reinstate, office, overtaken>>
settingsVars == <<tenant, pending, due, cache, tpc, tcopy, goal, flips, ttorn, slips>>
auditVars == <<log, clock, lock, prev>>
panelVars == <<panel, record, shown, form, typed, load, saves, preview, modal, stale, undone,
               misapplied, reselected, used>>
codeVars == <<flow, step, input, named, calls, loading, cooldown, countdown, codes, message,
              proof, reset, seen, sentCalls, edited, overlapped, resent>>
vehicleVars == <<host, read, texts, picked, choice, auto, lists, sheets, mounts, picks, chosen,
                 touched, crossed, rebuilt, unknown, disordered>>
checkVars == <<mock, stolen, listed, insured, knows, fund, anon, checks, asks, view, waits,
               opened, reports, errors, mixed>>
pageVars == <<rows, cached, aged, model, filters, images, source, awaited, asked, aborted,
              turns, changes, kept, passed, refetched>>
syncVars == <<runs, watched, starting, open, stream, logs, known, opens, ended, dropped,
              cleared>>
checkoutVars == <<builtin, signedIn, phone, quotes, statuses, tab, turning, stack, pages,
                  wanted, sheet, intents, charged, lost>>
firstVars == <<at, stage, timer, interests, introduced, fetched, creating, wizards, numbered,
               starts, wasSeen, tapped, rewound, pressedAgain>>
fleetVars == <<cover, listing, outlasted, duty, driver, assigns, demoted, fee, orders, secured,
               bought, misses, loose>>
apiVars == <<staffVars, clientVars, quoteVars, onboardingVars, settingsVars, auditVars,
             fleetVars>>
screenVars == <<panelVars, codeVars, vehicleVars, checkVars, pageVars, syncVars,
                checkoutVars, firstVars>>

Client == INSTANCE ClientAccess WITH rpc <- spc, pc <- cpc
Quotes == INSTANCE QuoteFanOut WITH rpc <- qpc
Onboarding == INSTANCE TenantOnboarding WITH Pages <- OnboardingPages
Settings == INSTANCE TenantSettings WITH
  Actors <- SettingsActors, pc <- tpc, copy <- tcopy, torn <- ttorn
Audit == INSTANCE AuditChain
FleetApi == INSTANCE FleetVehicles WITH
  Offered <- FleetQuotes, MaxErrors <- MaxFaults,
  answer <- listing, role <- duty, rate <- fee, calls <- orders, intents <- secured,
  payments <- bought, errors <- misses, lost <- loose
Panels == INSTANCE OfficePanels WITH stored <- record, copy <- shown
Codes == INSTANCE CodeScreens WITH account <- reset
Picker == INSTANCE VehiclePicker WITH form <- choice
Checks == INSTANCE VehicleChecks WITH
  MaxCalls <- MaxChecks, MaxErrors <- MaxFaults,
  tenant <- knows, calls <- checks, made <- asks, crossed <- mixed
CatalogPage == INSTANCE CatalogPage WITH
  MaxPicks <- MaxTurns, Models <- Makes, stale <- aged, picked <- model, loading <- awaited,
  picks <- turns, overtaken <- passed
SyncLog == INSTANCE SyncLog
Checkout == INSTANCE Checkout WITH
  Offers <- ShownOffers, mock <- builtin, asks <- wanted, expired <- lost
First == INSTANCE FirstSteps WITH
  step <- stage, picked <- interests, seen <- introduced, asks <- fetched, count <- numbered,
  back <- rewound, scans <- wizards

RequestsInit ==
  /\ side \in {"staff", "unlucky", "client", "mistyped", "quotes", "onboarding", "settings", "status",
              "audit", "fleet", "drivers", "bulk",
              "panels", "codes", "vehicle", "checks", "catalog", "sync", "checkout", "first"}
  /\ Init /\ Client!Init /\ Quotes!Init /\ Onboarding!Init /\ Audit!Init /\ SyncLog!Init
  /\ Settings!Init /\ tenant.status = "active"
  /\ side = "settings" \/ (tenant.features = {} /\ \A p \in Plans : tenant.plan <= p)
  /\ FleetApi!Init /\ (side # "drivers" => duty = [u \in Users |-> "driver"])
  /\ side # "bulk" => fee = CHOOSE r \in Rates : TRUE
  /\ Panels!Init /\ (side # "panels" => panel = "role")
  /\ Codes!Init
  /\ side # "codes" => flow = "web" /\ input = CHOOSE a \in Addresses : TRUE
  /\ Picker!Init /\ (side # "vehicle" => host = "results" /\ read = Picker!Nothing)
  /\ rows = [m \in Makes |-> IF m = CHOOSE x \in Makes : TRUE THEN Values \ {0} ELSE {1}]
  /\ CatalogPage!Init
  /\ stolen \in SUBSET {CHOOSE c \in Cars : TRUE} /\ listed \in SUBSET {CHOOSE c \in Cars : TRUE}
  /\ insured = listed /\ Checks!Init
  /\ ~knows => listed # {}
  /\ side # "checks" \/ mock => stolen = {} /\ listed = {}
  /\ side # "checks" => mock
  /\ Checkout!Init /\ (side # "checkout" => builtin /\ signedIn)
  /\ First!Init /\ (side # "first" => introduced)

StaffNext ==
  \/ side = "staff" /\ Next /\ failed' = 0 /\ faults' = 0 /\ \A t \in Tabs : pc'[t] # "otp"
  \/ /\ side = "unlucky" /\ Next /\ issued' + failed' < 3 /\ failed' + faults' < 2
     /\ faults' = 0 \/ \A t \in Tabs : pc'[t] # "otp"

PanelsNext ==
  /\ Panels!Next
  /\ \A t \in Tabs : panel # "plan" /\ form'[t] # None => \A f \in DOMAIN form'[t] : form'[t][f] < 2
  /\ panel = "rates" => \E u \in Tabs : \A t \in Tabs \ {u} : form'[t] = None
  /\ panel = "plan" => \E u \in Tabs : \A t \in Tabs \ {u} : load'[t] = None /\ shown'[t] = None

(* A car is asked about by its plate alone when no check is behind it, and *)
(* after a service failed only the first car's checks are followed.        *)
ChecksNext ==
  /\ Checks!Next
  /\ \A n \in DOMAIN checks : checks'[n] # None /\ checks'[n].kind = "enrich" =>
        checks'[n].pair.vin = None
  /\ errors > 0 => \A n \in DOMAIN checks : checks'[n] # None =>
        checks'[n].pair.plate = CHOOSE c \in Cars : TRUE

ApiNext ==
  \/ /\ StaffNext
     /\ UNCHANGED <<clientVars, quoteVars, onboardingVars, settingsVars, auditVars, fleetVars>>
  \/ /\ Client!Next
     /\ \/ side = "client" /\ attempts' = 0 /\ ~torn /\ faults = 0
        \/ side = "mistyped" /\ here' = "absent"
     /\ UNCHANGED <<staffVars, quoteVars, onboardingVars, settingsVars, auditVars, fleetVars>>
  \/ /\ side = "quotes" /\ Quotes!Next
     /\ UNCHANGED <<staffVars, clientVars, onboardingVars, settingsVars, auditVars, fleetVars>>
  \/ /\ side = "onboarding" /\ Onboarding!Next /\ ~overtaken
     /\ UNCHANGED <<staffVars, clientVars, quoteVars, settingsVars, auditVars, fleetVars>>
  \/ /\ Settings!Next
     /\ \/ side = "settings" /\ faults' = 0 /\ UNCHANGED tenant.status
        \/ side = "status" /\ \A a \in SettingsActors :
             tpc'[a] # "schedule" /\ flips'[a] \in {{}, Flags \ Restricted}
     /\ UNCHANGED <<staffVars, clientVars, quoteVars, onboardingVars, auditVars, fleetVars>>
  \/ /\ side = "audit" /\ Audit!Next
     /\ UNCHANGED <<staffVars, clientVars, quoteVars, onboardingVars, settingsVars, fleetVars>>
  \/ /\ \/ side = "fleet" /\ FleetApi!ListNext
        \/ side = "drivers" /\ FleetApi!DriverNext
        \/ side = "bulk" /\ FleetApi!BulkNext
     /\ UNCHANGED <<faults, staffVars, clientVars, quoteVars, onboardingVars, settingsVars,
                    auditVars>>

ScreensNext ==
  \/ /\ side = "panels" /\ PanelsNext
     /\ UNCHANGED <<faults, codeVars, vehicleVars, checkVars, pageVars, syncVars,
                    checkoutVars, firstVars>>
  \/ /\ side = "codes" /\ Codes!Next
     /\ UNCHANGED <<panelVars, vehicleVars, checkVars, pageVars, syncVars,
                    checkoutVars, firstVars>>
  \/ /\ side = "vehicle" /\ Picker!Next /\ ~crossed /\ ~disordered
     /\ UNCHANGED <<faults, panelVars, codeVars, checkVars, pageVars, syncVars,
                    checkoutVars, firstVars>>
  \/ /\ side = "checks" /\ ChecksNext
     /\ UNCHANGED <<faults, panelVars, codeVars, vehicleVars, pageVars, syncVars,
                    checkoutVars, firstVars>>
  \/ /\ side = "catalog" /\ CatalogPage!Next
     /\ UNCHANGED <<faults, panelVars, codeVars, vehicleVars, checkVars, syncVars,
                    checkoutVars, firstVars>>
  \/ /\ side = "sync" /\ SyncLog!Next
     /\ UNCHANGED <<faults, panelVars, codeVars, vehicleVars, checkVars, pageVars,
                    checkoutVars, firstVars>>
  \/ /\ side = "checkout" /\ Checkout!Next
     /\ UNCHANGED <<faults, panelVars, codeVars, vehicleVars, checkVars, pageVars, syncVars,
                    firstVars>>
  \/ /\ side = "first" /\ First!Next
     /\ UNCHANGED <<faults, panelVars, codeVars, vehicleVars, checkVars, pageVars, syncVars,
                    checkoutVars>>

RequestsNext ==
  /\ UNCHANGED side
  /\ \/ ApiNext /\ UNCHANGED screenVars
     \/ ScreensNext /\ UNCHANGED apiVars

RequestsSpec ==
  RequestsInit /\ [][RequestsNext]_<<side, faults, apiVars, screenVars>>

(* A side that is not followed stays as it begins. *)
SessionLossExplained == side = "client" => Client!SessionLossExplained
AttemptsBounded == side = "mistyped" => Client!AttemptsBounded
OffersExplained == side = "quotes" => Quotes!OffersExplained
InServiceCanCharge == side = "onboarding" => Onboarding!InServiceCanCharge
SettingsExplained == side \in {"settings", "status"} => Settings!SettingsExplained
BrokenChainExplained == side = "audit" => Audit!BrokenChainExplained

(* What a screen shows, and what the requests of a fleet answer, can only  *)
(* be wrong in the ways their module names.                                *)
ScreensExplained ==
  /\ side \in {"fleet", "drivers", "bulk"} => FleetApi!FleetExplained
  /\ side = "panels" => Panels!PanelsExplained
  /\ side = "codes" => Codes!CodesExplained
  /\ side = "vehicle" => Picker!PickerExplained
  /\ side = "checks" => Checks!VehiclesExplained
  /\ side = "catalog" => CatalogPage!PageExplained
  /\ side = "sync" => SyncLog!LogExplained
  /\ side = "checkout" => Checkout!CheckoutExplained
  /\ side = "first" => First!StepsExplained

(* Tabs, pages, accounts, actors and rows are the same two values. *)
Symmetry == Permutations(Tabs)
=============================================================================
