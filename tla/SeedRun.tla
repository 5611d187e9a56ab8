------------------------------- MODULE SeedRun -------------------------------
(***************************************************************************)
(* SeedService: outside production every start of the API fills an empty   *)
(* database with a demo tenant and a premium one, statement by statement   *)
(* and in no transaction.  What tells the next start that a tenant is done *)
(* is the tenant's row, which is written first.  Two processes run while   *)
(* one is being replaced.                                                  *)
(***************************************************************************)
EXTENDS Naturals, Sequences, SequencesExt

CONSTANTS
  Processes,
  MaxCuts      \* bound on starts that end before they are through

VARIABLES
  env,         \* NODE_ENV
  db,          \* rows inserted: <<tenant, table, number>>
  pc, at,      \* per process: what it seeds, and the next statement
  cut,         \* tenants whose seeding ended before its last statement
  early,       \* the premium tenant was begun while the demo tenant was not whole
  cuts

vars == <<env, db, pc, at, cut, early, cuts>>

-----------------------------------------------------------------------------
(* One INSERT for each row.  needs: the rows the code looks up before it,  *)
(* and without which it goes on to the next function, saying nothing.      *)
Inserts(tenant, table, n, needs) ==
  [i \in 1..n |-> [row |-> <<tenant, table, i>>, needs |-> needs]]

Demo(table, n, needs) == Inserts("demo", table, n, needs)
Premium(table, n, needs) == Inserts("premium", table, n, needs)

Insurer(code) == <<"demo", "insurers", code>>      \* the register is shared
Payment == <<"demo", "payments", 1>>
Policy == <<"demo", "policies", 1>>
Client == <<"demo", "end_clients", 1>>

seedTenant == Demo("tenants", 1, {})
seedSuperAdmin == Demo("super_admins", 1, {})
seedTenantConfig == Demo("tenant_configs", 1, {})
seedTenantDomains == Demo("tenant_domains", 4, {})
seedUsers == Demo("users", 3, {})
seedEndClients == Demo("end_clients", 1, {})
seedVehicles == Demo("vehicles", 1, {})
seedTenantInvitation == Demo("tenant_invitations", 1, {})

(* 1 Allianz, 2 Generali, 3 DZI, 4 Bulstrad, then four without a rate.     *)
seedInsurers == Demo("insurers", 8, {})
seedCommissionMatrix ==
  [i \in 1..4 |-> [row |-> <<"demo", "commission_matrix", i>>, needs |-> {Insurer(i)}]]

seedQuotes == Demo("quotes", 1, {Insurer(1)})
seedPayments == Demo("payments", 1, {})
seedPolicies == Demo("policies", 1, {Payment})
seedPolicyEvents == Demo("policy_events", 1, {Policy})
seedDemoCommissions == Demo("pending_commission_events", 1, {Payment, Insurer(2)})
seedDemoInvoices == Demo("invoices", 1, {})
seedTenantRenewalConfig == Demo("tenant_renewal_config", 1, {})
seedRenewalNotificationLog == Demo("renewal_notification_log", 1, {Policy})

(* Five vehicles, four of them insured by Allianz.                         *)
FleetVehicle(i) ==
  <<[row |-> <<"demo", "vehicles", i + 1>>, needs |-> {Client}],
    [row |-> <<"demo", "fleet_vehicles", i>>, needs |-> {<<"demo", "vehicles", i + 1>>}]>>
Insured(i) ==
  FleetVehicle(i) \o
  <<[row |-> <<"demo", "policies", i + 1>>,
     needs |-> {<<"demo", "vehicles", i + 1>>, Insurer(1)}]>>
seedFleetVehicles == Insured(1) \o Insured(2) \o Insured(3) \o Insured(4) \o FleetVehicle(5)

seedFleetPdfExports == Demo("fleet_pdf_exports", 1, {<<"demo", "users", 1>>, Policy})
seedOcrJobs == Demo("ocr_jobs", 1, {})
seedShipments == Demo("shipments", 1, {Policy})
(* It tops up the recent policies to three: the fleet's are there.         *)
seedTenantHealthData == <<>>
seedSystemNotifications == Demo("system_notifications", 1, {})
seedPrivacyPolicy == Demo("tenant_privacy_policies", 1, {})
seedTos == Demo("tenant_tos_versions", 1, {})
seedCookiePolicy == Demo("tenant_cookie_policies", 1, {})
seedDataBreaches == Demo("data_breaches", 2, {})

seedPremiumTenant == Premium("tenants", 1, {})
seedPremiumTenantConfig == Premium("tenant_configs", 1, {})
seedPremiumUsers == Premium("users", 2, {})
seedPremiumClientsAndVehicles ==
  Premium("end_clients", 2, {}) \o Premium("vehicles", 2, {})
(* Any of the three insurers will do for all six: each stands in for one   *)
(* that is missing, and they are inserted in this order.                   *)
seedPremiumPolicies == Premium("policies", 6, {Insurer(2)})
seedPremiumInvoices == Premium("invoices", 1, {})
seedPremiumCommissions == Premium("pending_commission_events", 1, {Insurer(2)})

seedDemoTenantIfNeeded ==
  seedTenant \o seedSuperAdmin \o seedTenantConfig \o seedTenantDomains \o seedUsers
  \o seedEndClients \o seedVehicles \o seedTenantInvitation \o seedInsurers
  \o seedCommissionMatrix \o seedQuotes \o seedPayments \o seedPolicies
  \o seedPolicyEvents \o seedDemoCommissions \o seedDemoInvoices
  \o seedTenantRenewalConfig \o seedRenewalNotificationLog \o seedFleetVehicles
  \o seedFleetPdfExports \o seedOcrJobs \o seedShipments \o seedTenantHealthData
  \o seedSystemNotifications \o seedPrivacyPolicy \o seedTos \o seedCookiePolicy
  \o seedDataBreaches

seedPremiumTenantIfNeeded ==
  seedPremiumTenant \o seedPremiumTenantConfig \o seedPremiumUsers
  \o seedPremiumClientsAndVehicles \o seedPremiumPolicies \o seedPremiumInvoices
  \o seedPremiumCommissions

Statements(tenant) ==
  IF tenant = "demo" THEN seedDemoTenantIfNeeded ELSE seedPremiumTenantIfNeeded

Rows(tenant) == {s.row : s \in ToSet(Statements(tenant))}

(* Rows of which the database takes one: both commission rows name the     *)
(* demo payment, and payment_id is unique.                                 *)
SameKey(a, b) == a = b \/ {a[2], b[2]} = {"pending_commission_events"}
Taken(row) == \E other \in db : SameKey(row, other)

-----------------------------------------------------------------------------
Init ==
  /\ env \in {"production", "development"}
  /\ db = {} /\ cut = {} /\ early = FALSE /\ cuts = 0
  /\ pc = [p \in Processes |-> "off"] /\ at = [p \in Processes |-> 0]

Goto(p, from, to, statement) ==
  /\ pc[p] = from /\ pc' = [pc EXCEPT ![p] = to]
  /\ at' = [at EXCEPT ![p] = statement]

Start(p) ==
  /\ Goto(p, "off", IF env = "production" THEN "up" ELSE "check_demo", 0)
  /\ UNCHANGED <<env, db, cut, early, cuts>>

CheckDemo(p) ==
  /\ IF <<"demo", "tenants", 1>> \in db
     THEN Goto(p, "check_demo", "check_premium", 0)
     ELSE Goto(p, "check_demo", "demo", 1)
  /\ UNCHANGED <<env, db, cut, early, cuts>>

(* Mutant: the demo tenant's slug is left in the query. *)
CheckDemoTwice(p) ==
  /\ IF <<"demo", "tenants", 1>> \in db
     THEN Goto(p, "check_premium", "up", 0) /\ UNCHANGED early
     ELSE /\ Goto(p, "check_premium", "premium", 1)
          /\ early' = (early \/ ~(Rows("demo") \subseteq db))
  /\ UNCHANGED <<env, db, cut, cuts>>

CheckPremium(p) ==
  /\ IF <<"premium", "tenants", 1>> \in db
     THEN Goto(p, "check_premium", "up", 0) /\ UNCHANGED early
     ELSE /\ Goto(p, "check_premium", "premium", 1)
          /\ early' = (early \/ ~(Rows("demo") \subseteq db))
  /\ UNCHANGED <<env, db, cut, cuts>>

(* A tenant's own row has no ON CONFLICT: of two processes that both found *)
(* none the second fails to start.                                         *)
Clash(p, tenant) == at[p] = 1 /\ <<tenant, "tenants", 1>> \in db

Insert(p, tenant) ==
  /\ pc[p] = tenant /\ at[p] <= Len(Statements(tenant)) /\ ~Clash(p, tenant)
  /\ LET s == Statements(tenant)[at[p]]
     IN  db' = IF s.needs \subseteq db /\ ~Taken(s.row) THEN db \union {s.row} ELSE db
  /\ at' = [at EXCEPT ![p] = @ + 1]
  /\ UNCHANGED <<env, pc, cut, early, cuts>>

Finish(p, tenant) ==
  /\ pc[p] = tenant /\ at[p] > Len(Statements(tenant))
  /\ Goto(p, tenant, IF tenant = "demo" THEN "check_premium" ELSE "up", 0)
  /\ UNCHANGED <<env, db, cut, early, cuts>>

Refused(p, tenant) ==
  /\ Clash(p, tenant) /\ Goto(p, tenant, "off", 0)
  /\ UNCHANGED <<env, db, cut, early, cuts>>

(* A statement fails, the watcher restarts the API, or the task is killed. *)
End(p) ==
  /\ pc[p] # "off" /\ cuts < MaxCuts /\ cuts' = cuts + 1
  /\ Goto(p, pc[p], "off", 0)
  /\ cut' = cut \union ({pc[p]} \intersect {"demo", "premium"})
  /\ UNCHANGED <<env, db, early>>

Next ==
  \E p \in Processes :
    \/ Start(p) \/ CheckDemo(p) \/ CheckPremium(p) \/ End(p)
    \/ \E tenant \in {"demo", "premium"} :
         Insert(p, tenant) \/ Finish(p, tenant) \/ Refused(p, tenant)

Spec == Init /\ [][Next]_vars

-----------------------------------------------------------------------------
(* A process that answers requests has both tenants whole.  What is        *)
(* missing is explained: another process is still at it, its seeding was   *)
(* cut short (and is never taken up again), the premium tenant was begun   *)
(* before the insurers it needs, or a row of the other tenant has its key  *)
(* (seed.service.ts:25-103).                                               *)
SeedExplained ==
  \A p \in Processes, tenant \in {"demo", "premium"} :
    pc[p] = "up" /\ env # "production" =>
      \A s \in ToSet(Statements(tenant)) :
        \/ s.row \in db \/ Taken(s.row)
        \/ tenant \in cut \/ \E q \in Processes : pc[q] = tenant
        \/ tenant = "premium" /\ early /\ s.needs # {}
=============================================================================
