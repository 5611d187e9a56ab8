------------------------------ MODULE InvoiceRun ------------------------------
(***************************************************************************)
(* The invoices of one month (billing.service.ts): the monthly run over    *)
(* all active tenants, and the jobs a super admin queues by hand, for one  *)
(* tenant or for all.  The unique index on (tenant_id, period_start) lets  *)
(* one row through.  The amounts are abstract; tenants.activated_at, which *)
(* the pro-rata branch reads, is set by no code but the seed.              *)
(***************************************************************************)
EXTENDS BullQueue

CONSTANTS
  Tenants,
  SingleRuns,  \* the generate-invoice jobs; the others run over all tenants
  TenantOf,    \* TenantOf[j]: the tenant of a generate-invoice job
  MaxFaults    \* bound on failing statements, crashes and lost locks

VARIABLES
  active,    \* tenants with status 'active'
  invoices,  \* tenants with an invoice row for the month
  mails,     \* mails[t]: invoice mails to t's broker
  alerts,    \* tenants the super admin was alerted for
  unheard,   \* tenants for which that mail failed (history: the code logs it)
  pc, cur,   \* per worker: the handler's next statement, its job
  todo,      \* per worker: tenants getActiveTenants returned, not yet handled
  tenant,    \* per worker: the one it handles
  listed,    \* listed[j]: the tenants that the run holding j's lock has listed
  faults

billingVars == <<active, invoices, mails, alerts, unheard, listed>>
workerVars == <<pc, cur, todo, tenant>>
vars == <<queueVars, billingVars, workerVars, faults>>

TypeOK ==
  /\ QueueTypeOK
  /\ active \subseteq Tenants /\ invoices \subseteq Tenants /\ alerts \subseteq Tenants
  /\ unheard \subseteq Tenants
  /\ mails \in [Tenants -> Nat]
  /\ listed \in [Jobs -> SUBSET Tenants]
  /\ pc \in [Workers -> {"idle", "list", "existing", "tenant", "create", "mail", "alert"}]
  /\ cur \in [Workers -> Jobs \union {None}]
  /\ todo \in [Workers -> SUBSET Tenants]
  /\ tenant \in [Workers -> Tenants \union {None}]
  /\ faults \in 0..MaxFaults

Init ==
  /\ QueueInit
  /\ active \in SUBSET Tenants
  /\ invoices = {} /\ alerts = {} /\ unheard = {}
  /\ mails = [t \in Tenants |-> 0]
  /\ listed = [j \in Jobs |-> {}]
  /\ pc = [w \in Workers |-> "idle"]
  /\ cur = [w \in Workers |-> None]
  /\ todo = [w \in Workers |-> {}]
  /\ tenant = [w \in Workers |-> None]
  /\ faults = 0

Fault == faults < MaxFaults /\ faults' = faults + 1

-----------------------------------------------------------------------------
(* runManualBilling, the monthly cron, and the tenants' status. *)
QueueRun(j) ==
  /\ job[j] = "absent"
  /\ Add(j)
  /\ UNCHANGED <<billingVars, workerVars, faults>>

ChangeStatus(t) ==
  /\ active' = IF t \in active THEN active \ {t} ELSE active \union {t}
  /\ UNCHANGED <<queueVars, invoices, mails, alerts, unheard, listed, workerVars, faults>>

-----------------------------------------------------------------------------
Goto(w, from, to) ==
  /\ pc[w] = from
  /\ pc' = [pc EXCEPT ![w] = to]

Idle(w) ==
  /\ pc' = [pc EXCEPT ![w] = "idle"]
  /\ cur' = [cur EXCEPT ![w] = None]
  /\ todo' = [todo EXCEPT ![w] = {}]
  /\ tenant' = [tenant EXCEPT ![w] = None]

TakeJob(w, j) ==
  /\ Goto(w, "idle", IF j \in SingleRuns THEN "existing" ELSE "list")
  /\ Take(w, j)
  /\ cur' = [cur EXCEPT ![w] = j]
  /\ tenant' = [tenant EXCEPT ![w] = IF j \in SingleRuns THEN TenantOf[j] ELSE None]
  /\ UNCHANGED <<billingVars, todo, faults>>

(* The loop of handleRunAllTenants, or the return of the handler. *)
Continue(w, tenants) ==
  \/ /\ tenants # {}
     /\ pc' = [pc EXCEPT ![w] = "existing"]
     /\ \E t \in tenants : /\ tenant' = [tenant EXCEPT ![w] = t]
                           /\ todo' = [todo EXCEPT ![w] = tenants \ {t}]
     /\ UNCHANGED <<queueVars, cur>>
  \/ /\ tenants = {}
     /\ Idle(w) /\ Complete(w, cur[w])

(* notifySuperAdminOnFailure: a mail; when it fails, that is logged and    *)
(* swallowed, and nobody is alerted.                                       *)
NotifySuperAdmin(t) ==
  \/ alerts' = alerts \union {t} /\ UNCHANGED unheard
  \/ unheard' = unheard \union {t} /\ UNCHANGED alerts

(* Only the final failure of a generate-invoice job alerts the super admin *)
(* (onFailed).                                                             *)
AlertFinal(w) ==
  IF cur[w] \in SingleRuns /\ lock[cur[w]] = w /\ tries[cur[w]] + 1 >= MaxAttempts
  THEN NotifySuperAdmin(TenantOf[cur[w]])
  ELSE UNCHANGED <<alerts, unheard>>

(* generateInvoiceForTenant threw: the run over all tenants catches it and *)
(* alerts, a job for one tenant fails.                                     *)
Fails(w) ==
  \/ /\ cur[w] \in SingleRuns
     /\ AlertFinal(w)
     /\ Idle(w) /\ Throw(w, cur[w])
  \/ /\ cur[w] \notin SingleRuns
     /\ pc' = [pc EXCEPT ![w] = "alert"]
     /\ UNCHANGED <<queueVars, alerts, unheard, cur, todo, tenant>>

GetActiveTenants(w) ==
  /\ pc[w] = "list"
  /\ listed' = IF lock[cur[w]] = w THEN [listed EXCEPT ![cur[w]] = active] ELSE listed
  /\ Continue(w, active)
  /\ UNCHANGED <<active, invoices, mails, alerts, unheard, faults>>

(* findByTenantAndPeriod: a tenant that has its invoice is done. *)
FindExisting(w) ==
  /\ pc[w] = "existing"
  /\ \/ tenant[w] \in invoices /\ Continue(w, todo[w])
     \/ /\ tenant[w] \notin invoices
        /\ Goto(w, "existing", "tenant")
        /\ UNCHANGED <<queueVars, cur, todo, tenant>>
  /\ UNCHANGED <<billingVars, faults>>

(* The tenant and its policies of the month. *)
LoadTenant(w) ==
  /\ pc[w] = "tenant"
  /\ \/ /\ tenant[w] \in active
        /\ Goto(w, "tenant", "create")
        /\ UNCHANGED <<queueVars, alerts, unheard, cur, todo, tenant>>
     \/ tenant[w] \notin active /\ Fails(w)
  /\ UNCHANGED <<active, invoices, mails, listed, faults>>

(* Mutant: the index does not stop a second row. *)
CreateInvoiceTwice(w) ==
  /\ Goto(w, "create", "mail")
  /\ invoices' = invoices \union {tenant[w]}
  /\ UNCHANGED <<queueVars, active, mails, alerts, unheard, listed, cur, todo, tenant, faults>>

CreateInvoice(w) ==
  /\ pc[w] = "create"
  /\ \/ /\ tenant[w] \notin invoices
        /\ invoices' = invoices \union {tenant[w]}
        /\ Goto(w, "create", "mail")
        /\ UNCHANGED <<queueVars, alerts, unheard, cur, todo, tenant>>
     \/ /\ tenant[w] \in invoices
        /\ Fails(w)
        /\ UNCHANGED invoices
  /\ UNCHANGED <<active, mails, listed, faults>>

(* No broker address, or a mail that fails, is no error. *)
SendInvoiceEmail(w) ==
  /\ pc[w] = "mail"
  /\ \/ mails' = [mails EXCEPT ![tenant[w]] = @ + 1]
     \/ UNCHANGED mails
  /\ Continue(w, todo[w])
  /\ UNCHANGED <<active, invoices, alerts, unheard, listed, faults>>

(* Mutant: a tenant that failed ends the run. *)
AlertAndStop(w) ==
  /\ pc[w] = "alert"
  /\ NotifySuperAdmin(tenant[w])
  /\ Continue(w, {})
  /\ UNCHANGED <<active, invoices, mails, listed, faults>>

Alert(w) ==
  /\ pc[w] = "alert"
  /\ NotifySuperAdmin(tenant[w])
  /\ Continue(w, todo[w])
  /\ UNCHANGED <<active, invoices, mails, listed, faults>>

-----------------------------------------------------------------------------
(* A statement of generateInvoiceForTenant, or the list, fails. *)
HandlerThrows(w) ==
  /\ pc[w] \in {"list", "existing", "tenant", "create", "mail"} /\ Fault
  /\ \/ pc[w] # "list" /\ Fails(w)
     \/ /\ pc[w] = "list"
        /\ Idle(w) /\ Throw(w, cur[w])
        /\ UNCHANGED <<alerts, unheard>>
  /\ UNCHANGED <<active, invoices, mails, listed>>

CrashWorker(w) ==
  /\ pc[w] # "idle" /\ Fault
  /\ Idle(w)
  /\ UNCHANGED <<queueVars, billingVars>>

Recover(j) ==
  /\ \A w \in Workers : lock[j] = w => cur[w] # j
  /\ Reclaim(j)
  /\ UNCHANGED <<billingVars, workerVars, faults>>

LoseLock(j) ==
  /\ \E w \in Workers : lock[j] = w /\ cur[w] = j
  /\ Fault
  /\ Reclaim(j)
  /\ UNCHANGED <<billingVars, workerVars>>

HandlerAction(w) ==
  \/ GetActiveTenants(w) \/ FindExisting(w) \/ LoadTenant(w)
  \/ CreateInvoice(w) \/ SendInvoiceEmail(w) \/ Alert(w)

Next ==
  \/ \E t \in Tenants : ChangeStatus(t)
  \/ \E w \in Workers :
       \/ HandlerAction(w) \/ HandlerThrows(w) \/ CrashWorker(w)
       \/ \E j \in Jobs : TakeJob(w, j)
  \/ \E j \in Jobs : QueueRun(j) \/ Recover(j) \/ LoseLock(j)

Spec == Init /\ [][Next]_vars

-----------------------------------------------------------------------------
(* A run over all tenants that has completed leaves no tenant it listed    *)
(* without an invoice, unless it has sent the super admin an alert for it, *)
(* which only the mail's own failure can keep from arriving, whichever     *)
(* runs raced it and however often it was started                          *)
(* (invoice-generation.processor.ts:75-92, billing.service.ts:255-267).    *)
RunAccountsForAll ==
  \A j \in Jobs \ SingleRuns :
    job[j] = "completed" => listed[j] \subseteq invoices \union alerts \union unheard

(* However many runs race, a broker gets the month's invoice at most once, *)
(* and only when it exists (billing.service.ts:94-103, 157-186).           *)
InvoiceMailedOnce ==
  \A t \in Tenants : mails[t] <= (IF t \in invoices THEN 1 ELSE 0)
=============================================================================
