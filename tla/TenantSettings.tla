---------------------------- MODULE TenantSettings ----------------------------
(***************************************************************************)
(* A tenant's row and the configuration that is cached from it: changes of *)
(* the plan by an administrator (admin-subscription.service.ts), the       *)
(* nightly downgrade, the broker's flags (feature-flags.service.ts), the   *)
(* status (admin-tenants.service.ts, stripe-webhook.service.ts), and the   *)
(* readers of the configuration (tenants.service.ts).  A flag is written   *)
(* by itself; the changes of plan write the whole column from what they    *)
(* read.  Not every writer of the status clears the cache.  The license is *)
(* written with the status, or alone and then cleared: it is a part of     *)
(* status here.  The branding and its writer are the same to the cache as  *)
(* a flag that every plan allows.                                          *)
(***************************************************************************)
EXTENDS Naturals, FiniteSets

CONSTANTS
  Flags,
  Restricted,  \* flags that only the higher plans allow
  Plans,       \* the monthly fees
  Actors,      \* requests and runs of the nightly job
  None,
  MaxFaults    \* bound on failing statements and crashes

VARIABLES
  tenant,      \* the row: plan, features, status
  pending,     \* pending_downgrade: the plan, or None
  due,         \* its days of grace are over
  cache,       \* the cached configuration, or None
  pc, copy,    \* per actor: statement; the row it read
  goal,        \* per actor: the plan it is to apply
  flips,       \* per actor: flags it is to turn over
  torn,        \* history: a write has followed a read that was out of date
  slips,       \* history: what nobody corrects in the cached configuration
  faults

vars == <<tenant, pending, due, cache, pc, copy, goal, flips, torn, slips, faults>>

Row == [plan: Plans, features: SUBSET Flags, status: {"active", "revoked"}]

(* PLAN_TIERS: the lowest plan has no restricted flags. *)
Allowed(plan) == IF \A q \in Plans : plan <= q THEN Flags \ Restricted ELSE Flags
ForPlan(row, plan) == row.features \intersect Allowed(plan)

SamePlan(r, s) == r.plan = s.plan /\ r.features = s.features

(* What a copy of the row has wrong. *)
Wrong(c) ==
  IF c = None THEN {}
  ELSE {part \in {"plan", "status"} : IF part = "plan" THEN ~SamePlan(c, tenant)
                                      ELSE c.status # tenant.status}

TypeOK ==
  /\ tenant \in Row /\ pending \in Plans \union {None} /\ due \in BOOLEAN
  /\ cache \in Row \union {None}
  /\ pc \in [Actors -> {"idle", "upgrade", "schedule", "enforce", "flags", "clear", "cache"}]
  /\ copy \in [Actors -> Row \union {None}]
  /\ goal \in [Actors -> Plans \union {None}]
  /\ flips \in [Actors -> SUBSET Flags]
  /\ torn \in BOOLEAN /\ slips \subseteq {"plan", "status"} /\ faults \in 0..MaxFaults

Init ==
  /\ tenant \in {r \in Row : r.features \subseteq Allowed(r.plan)}
  /\ pending = None /\ due = FALSE /\ cache = None
  /\ pc = [a \in Actors |-> "idle"] /\ copy = [a \in Actors |-> None]
  /\ goal = [a \in Actors |-> None] /\ flips = [a \in Actors |-> {}]
  /\ torn = FALSE /\ slips = {} /\ faults = 0

Goto(a, from, to) == pc[a] = from /\ pc' = [pc EXCEPT ![a] = to]
Read(a) == copy' = [copy EXCEPT ![a] = tenant]
Forget(a) == copy' = [copy EXCEPT ![a] = None] /\ goal' = [goal EXCEPT ![a] = None]
Torn(a) == torn' = (torn \/ ~SamePlan(copy[a], tenant))

-----------------------------------------------------------------------------
(* changeTier: an upgrade is applied at once, any other change after the   *)
(* days of grace.                                                          *)
AskTier(a) ==
  /\ \E plan \in Plans \ {tenant.plan} :
       /\ Goto(a, "idle", IF plan > tenant.plan THEN "upgrade" ELSE "schedule")
       /\ goal' = [goal EXCEPT ![a] = plan]
  /\ Read(a)
  /\ UNCHANGED <<tenant, pending, due, cache, flips, torn, slips, faults>>

(* Mutant: the flags are left as they are. *)
ApplyPlanOnly(a, from) ==
  /\ Goto(a, from, "clear") /\ Torn(a) /\ Forget(a)
  /\ tenant' = [tenant EXCEPT !.plan = goal[a]]
  /\ pending' = None /\ due' = FALSE
  /\ UNCHANGED <<cache, flips, slips, faults>>

ApplyPlan(a, from) ==
  /\ Goto(a, from, "clear") /\ Torn(a) /\ Forget(a)
  /\ tenant' = [tenant EXCEPT !.plan = goal[a], !.features = ForPlan(copy[a], goal[a])]
  /\ pending' = None /\ due' = FALSE
  /\ UNCHANGED <<cache, flips, slips, faults>>

ApplyUpgrade(a) == ApplyPlan(a, "upgrade")

SchedulePendingDowngrade(a) ==
  /\ Goto(a, "schedule", "idle") /\ Torn(a) /\ Forget(a)
  /\ pending' = goal[a] /\ due' = FALSE
  /\ UNCHANGED <<tenant, cache, flips, slips, faults>>

GraceEnds ==
  /\ pending # None /\ ~due /\ due' = TRUE
  /\ UNCHANGED <<tenant, pending, cache, pc, copy, goal, flips, torn, slips, faults>>

(* enforcePendingDowngrades reads every tenant that is due, then writes    *)
(* one after the other.                                                    *)
FindDue(a) ==
  /\ pending # None /\ due
  /\ Goto(a, "idle", "enforce") /\ Read(a)
  /\ goal' = [goal EXCEPT ![a] = pending]
  /\ UNCHANGED <<tenant, pending, due, cache, flips, torn, slips, faults>>

ApplyPendingDowngrade(a) == ApplyPlan(a, "enforce")

-----------------------------------------------------------------------------
(* updateFeatureFlags checks every flag it is to turn on against the plan, *)
(* then updates each by itself, in the database.                           *)
AskFlags(a) ==
  /\ Goto(a, "idle", "flags") /\ Read(a)
  /\ \E f \in SUBSET Flags \ {{}} :
       /\ f \ tenant.features \subseteq Allowed(tenant.plan)
       /\ flips' = [flips EXCEPT ![a] = f]
  /\ UNCHANGED <<tenant, pending, due, cache, goal, torn, slips, faults>>

UpdateFlag(a) ==
  /\ pc[a] = "flags"
  /\ \E f \in flips[a] :
       LET on == f \notin copy[a].features IN
       /\ torn' = (torn \/ copy[a].plan # tenant.plan \/ (f \in tenant.features) = on)
       /\ tenant' = [tenant EXCEPT !.features = IF on THEN @ \union {f} ELSE @ \ {f}]
       /\ flips' = [flips EXCEPT ![a] = @ \ {f}]
  /\ IF flips'[a] = {} THEN Goto(a, "flags", "clear") /\ Forget(a)
     ELSE UNCHANGED <<pc, copy, goal>>
  /\ UNCHANGED <<pending, due, cache, slips, faults>>

-----------------------------------------------------------------------------
(* The status, one column of the row.                                      *)
WriteStatus ==
  /\ \E s \in {"active", "revoked"} \ {tenant.status} :
       tenant' = [tenant EXCEPT !.status = s]
  /\ UNCHANGED <<pending, due, cache, copy, goal, flips, torn, faults>>

(* updateTenantStatus, and updateKfnLicense for the license. *)
UpdateTenantStatus(a) ==
  /\ Goto(a, "idle", "clear") /\ WriteStatus
  /\ UNCHANGED slips

(* The events of the Stripe account and the activation with the license    *)
(* write the status and leave the cache as it is.                          *)
StatusFollowsStripe ==
  /\ WriteStatus
  /\ slips' = (slips \union IF cache = None THEN {} ELSE {"status"})
  /\ UNCHANGED pc

-----------------------------------------------------------------------------
(* The last statement of every other change; its failure, or one after a   *)
(* flag is written, leaves the cache.                                      *)
ClearCache(a) ==
  /\ Goto(a, "clear", "idle")
  /\ \/ cache' = None /\ slips' = {} /\ UNCHANGED faults
     \/ /\ faults < MaxFaults /\ faults' = faults + 1
        /\ slips' = slips \union Wrong(cache)
        /\ UNCHANGED cache
  /\ UNCHANGED <<tenant, pending, due, copy, goal, flips, torn>>

ChangeFails(a) ==
  /\ pc[a] \in {"upgrade", "schedule", "enforce", "flags"}
  /\ faults < MaxFaults /\ faults' = faults + 1
  /\ slips' = slips \union Wrong(cache)
  /\ Goto(a, pc[a], "idle") /\ Forget(a) /\ flips' = [flips EXCEPT ![a] = {}]
  /\ UNCHANGED <<tenant, pending, due, cache, torn>>

-----------------------------------------------------------------------------
(* getTenantConfig: a miss, the row, the write. *)
ReadConfig(a) ==
  /\ cache = None
  /\ Goto(a, "idle", "cache") /\ Read(a)
  /\ UNCHANGED <<tenant, pending, due, cache, goal, flips, torn, slips, faults>>

SetConfigCache(a) ==
  /\ Goto(a, "cache", "idle") /\ Forget(a)
  /\ cache' = copy[a] /\ slips' = Wrong(copy[a])
  /\ UNCHANGED <<tenant, pending, due, flips, torn, faults>>

CacheExpires ==
  /\ cache # None /\ cache' = None /\ slips' = {}
  /\ UNCHANGED <<tenant, pending, due, pc, copy, goal, flips, torn, faults>>

-----------------------------------------------------------------------------
Next ==
  \/ GraceEnds \/ CacheExpires \/ StatusFollowsStripe
  \/ \E a \in Actors :
       \/ AskTier(a) \/ ApplyUpgrade(a) \/ SchedulePendingDowngrade(a)
       \/ FindDue(a) \/ ApplyPendingDowngrade(a)
       \/ AskFlags(a) \/ UpdateFlag(a) \/ UpdateTenantStatus(a)
       \/ ClearCache(a) \/ ChangeFails(a)
       \/ ReadConfig(a) \/ SetConfigCache(a)

Spec == Init /\ [][Next]_vars

-----------------------------------------------------------------------------
(* No flag is on that the plan does not allow, and a pending downgrade is  *)
(* one, unless a write followed a read that was out of date: flags updated *)
(* by themselves are no protection from the two that write them all        *)
(* (feature-flags.service.ts:133, admin-subscription.service.ts:48-158).   *)
PlanKept ==
  torn \/ /\ tenant.features \subseteq Allowed(tenant.plan)
          /\ pending # None => pending < tenant.plan

(* The cached configuration is the tenant's, but while a change is about   *)
(* to clear it, and but for what has slipped since the key was last        *)
(* absent: what its reader had read was out of date when it stored it, a   *)
(* change failed before it cleared, or Stripe changed the status           *)
(* (tenants.service.ts:33-67, 108).  However much overlaps, what slipped   *)
(* is gone with the key.                                                   *)
CacheExplained ==
  Wrong(cache) \subseteq slips \/ \E a \in Actors : pc[a] \in {"flags", "clear"}

SettingsExplained == PlanKept /\ CacheExplained
=============================================================================
