--------------------------- MODULE MCScheduledJobs ---------------------------
(***************************************************************************)
(* What the API does by itself, for TLC: RenewalNotices, InvoiceRun,       *)
(* CatalogSync, BreachRegister, InsurerRegister, the verification of a     *)
(* CustomDomain and the SeedRun of a start; and RegisterPages, the office's *)
(* view of the register of insurers.  They share no state; side says which *)
(* of them a behaviour follows.  Renewals are followed twice:              *)
(* "notices" has one policy over two days with everything that can happen  *)
(* to it, but no fault beside an extension; "policies" has two policies    *)
(* due on one day, and no worker free for their notices.  A tenant that is *)
(* suspended stays suspended.                                              *)
(***************************************************************************)
EXTENDS RenewalNotices, TLC

CONSTANTS Tenants, Runs, SingleRuns, TenantOf, Syncs, Brands, Ages, MaxAge,
          Companies, HeaderLike, MaxChanges, MaxRuns,
          DomainRows, Hosts, Requests,
          Entries, Logos, Broken, MaxVisits

VARIABLES
  side, runJob, runTries, runStalls, runLock, paying, invoices, mails, alerts, unheard,
  runPc, runCur, tenants, tenant, listed, runFaults,
  sync, syncPc, imports, syncJobs, repeated, mem, checkpoint, output, input, db, gaps,
  syncFaults,
  breach, age, key, fires, jpc, level, apc, copy, diff, alerted, pending, told, torn,
  breachFaults,
  onPage, eik, address, rows, fsc, enrich, fscStatus, page, writes, overlapped, cleared,
  left, seen,
  env, tables, seeds, next, cut, early, cuts,
  row, host, overdue, cached, dpc, of, visits, djob, dat, dtorn, domainFaults,
  logos, busy, view, filter, list, progress, detail, asked, polling, message, failed, lost,
  since, opened, stale, excused, opens, pageFaults

runVars == <<runJob, runTries, runStalls, runLock, paying, invoices, mails, alerts,
             unheard, runPc, runCur, tenants, tenant, listed, runFaults>>
syncVars == <<sync, syncPc, imports, syncJobs, repeated, mem, checkpoint, output, input,
              db, gaps, syncFaults>>
breachVars == <<breach, age, key, fires, jpc, level, apc, copy, diff, alerted, pending,
                told, torn, breachFaults>>

fscVars == <<onPage, eik, address, rows, fsc, enrich, fscStatus, page, writes, overlapped,
             cleared, left, seen>>

seedVars == <<env, tables, seeds, next, cut, early, cuts>>

domainVars == <<row, host, overdue, cached, dpc, of, visits, djob, dat, dtorn, domainFaults>>

pageVars == <<logos, busy, view, filter, list, progress, detail, asked, polling, message,
              failed, lost, since, opened, stale, excused, opens, pageFaults>>

Billing == INSTANCE InvoiceRun WITH
  Jobs <- Runs, job <- runJob, tries <- runTries, stalls <- runStalls,
  lock <- runLock, active <- paying, pc <- runPc, cur <- runCur,
  todo <- tenants, faults <- runFaults

Catalog == INSTANCE CatalogSync WITH
  Runs <- Syncs, run <- sync, pc <- syncPc, jobs <- syncJobs, faults <- syncFaults

Register == INSTANCE BreachRegister WITH
  Processes <- Workers, Admins <- Workers, row <- breach, due <- fires,
  mailed <- alerted, faults <- breachFaults

Insurers == INSTANCE InsurerRegister WITH
  Processes <- Workers, listed <- onPage, sync <- fsc, status <- fscStatus

Seed == INSTANCE SeedRun WITH
  Processes <- Workers, pc <- seeds, at <- next, db <- tables, MaxCuts <- MaxFaults

Domain == INSTANCE CustomDomain WITH
  Rows <- DomainRows, pc <- dpc, todo <- visits, job <- djob, at <- dat, torn <- dtorn,
  faults <- domainFaults

Pages == INSTANCE RegisterPages WITH
  FirstTab <- Entries, MaxSaves <- MaxRuns, tables <- logos, running <- busy,
  sync <- asked, visits <- opens, faults <- pageFaults

JobsInit ==
  /\ Init /\ Billing!Init /\ Catalog!Init /\ Register!Init /\ Insurers!Init /\ Seed!Init
  /\ Domain!Init /\ Pages!Init
  /\ side \in {"notices", "policies", "billing", "catalog", "breach", "insurers", "seed",
              "domain", "pages"}
  /\ side = "policies" => active = Policies /\ today = LastDay
  /\ side # "policies" => today = 0 /\ active = {CHOOSE p \in Policies : TRUE}
  /\ paying = Tenants
  /\ side # "breach" => age = CHOOSE a \in Ages : TRUE
  /\ side # "seed" => env = "production"
  /\ side # "pages" => logos = <<[c \in Entries |-> None]>>
  /\ side # "domain" => host = [i \in DomainRows |-> CHOOSE h \in Hosts : TRUE]
  /\ side # "insurers" => onPage[1] # {} /\ \A c \in Companies : eik[c] = None

(* What the register's pages are followed through.  Rows' pages are opened *)
(* without a fault; a row that has been read is opened again, the tab is   *)
(* changed and pictures fail while no synchronisation is asked for.        *)
Unasked == asked["here"] = "none" /\ asked["before"] = "none" /\ progress = Pages!NoQuery
Plain ==
  /\ filter = Entries /\ failed = {} /\ lost = {}
  /\ \A v \in 1..Len(logos) : \A c \in Entries : logos[v][c] \in Broken
PagesFollowed ==
  /\ opens = 0 \/ pageFaults = 0
  /\ opens < 2 \/ Unasked
  /\ opens = 0 \/ Unasked \/ (stale \subseteq {"list"} /\ \A c \in Entries : detail[c].data = None)
  /\ Plain \/ (Unasked /\ pageFaults = 0 /\ opens < 2)

JobsNext ==
  \/ /\ \/ side = "notices" /\ Next /\ (endDay' = FirstEnd \/ faults' = 0)
        \/ side = "policies" /\ Next /\ (\A w \in Workers : pc'[w] # "load") /\ endDay' = FirstEnd
     /\ UNCHANGED <<side, runVars, syncVars, breachVars, fscVars, seedVars, domainVars, pageVars>>
  \/ /\ side = "billing" /\ Billing!Next /\ paying' \subseteq paying
     /\ UNCHANGED <<side, vars, syncVars, breachVars, fscVars, seedVars, domainVars, pageVars>>
  \/ /\ side = "catalog" /\ Catalog!Next
     /\ UNCHANGED <<side, vars, runVars, breachVars, fscVars, seedVars, domainVars, pageVars>>
  \/ /\ side = "breach" /\ Register!Next
     /\ UNCHANGED <<side, vars, runVars, syncVars, fscVars, seedVars, domainVars, pageVars>>
  \/ /\ side = "insurers" /\ Insurers!Next
     /\ UNCHANGED <<side, vars, runVars, syncVars, breachVars, seedVars, domainVars, pageVars>>
  \/ /\ side = "seed" /\ Seed!Next
     /\ UNCHANGED <<side, vars, runVars, syncVars, breachVars, fscVars, domainVars, pageVars>>
  \/ /\ side = "domain" /\ Domain!Next
     /\ UNCHANGED <<side, vars, runVars, syncVars, breachVars, fscVars, seedVars, pageVars>>
  \/ /\ side = "pages" /\ Pages!Next /\ PagesFollowed'
     /\ UNCHANGED <<side, vars, runVars, syncVars, breachVars, fscVars, seedVars, domainVars>>

JobsSpec == JobsInit /\ [][JobsNext]_<<side, vars, runVars, syncVars, breachVars, fscVars,
                                      seedVars, domainVars, pageVars>>

RunAccountsForAll == Billing!RunAccountsForAll
InvoiceMailedOnce == Billing!InvoiceMailedOnce
DoneIsWhole == Catalog!DoneIsWhole
BreachesExplained == Register!BreachesExplained
InsurersExplained == Insurers!RegisterExplained /\ Pages!PagesExplained
SeedExplained == Seed!SeedExplained
HostsExplained == Domain!HostsExplained

-----------------------------------------------------------------------------
MCFirstEnd == [p \in Policies |-> 1]
MCStages == <<1, 0>>
MCJobs == Notices \union Checks
MCTenantOf == [j \in SingleRuns |-> CHOOSE t \in Tenants : TRUE]
Symmetry == Permutations(Workers)
=============================================================================
