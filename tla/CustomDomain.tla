----------------------------- MODULE CustomDomain -----------------------------
(***************************************************************************)
(* The custom domain of a tenant: registration and deletion                *)
(* (domains.service.ts), verification by a job every five minutes          *)
(* (domain-verification.job.ts), and the two lookups of a tenant by host   *)
(* name, of every request (tenant.middleware.ts) and of the sign-in        *)
(* (auth.service.ts).  Both keep what they find under the same key, though *)
(* only the second asks for a domain that is verified.                     *)
(***************************************************************************)
EXTENDS Naturals, FiniteSets

CONSTANTS
  Rows,        \* ids of tenant_domains, each used once
  Hosts,
  Requests,
  None,
  MaxFaults    \* bound on failing statements

VARIABLES
  row, host,   \* per id: status, name
  overdue,     \* ids registered more than a day ago
  cached,      \* hosts under which the tenant is cached
  pc, of,      \* per request: statement; the host or the row it is about
  todo, job,   \* rows the job has still to visit; its statement on one of them
  at,          \* that row
  torn,        \* a write has followed a read that was out of date
  faults

jobVars == <<todo, job, at>>
vars == <<row, host, overdue, cached, pc, of, jobVars, torn, faults>>

Pending == {i \in Rows : row[i] \in {"pending", "verifying"}}
Registered == {i \in Rows : row[i] \notin {"none", "deleted"}}

TypeOK ==
  /\ row \in [Rows -> {"none", "pending", "verifying", "active", "failed", "deleted"}]
  /\ host \in [Rows -> Hosts] /\ overdue \subseteq Rows
  /\ cached \subseteq Hosts
  /\ pc \in [Requests -> {"idle", "insert", "delete", "clear", "cache"}]
  /\ of \in [Requests -> Hosts \union Rows \union {None}]
  /\ todo \subseteq Rows /\ at \in Rows \union {None}
  /\ job \in {"idle", "next", "verify", "activate", "clear", "fail"}
  /\ torn \in BOOLEAN /\ faults \in 0..MaxFaults

Init ==
  /\ row = [i \in Rows |-> "none"] /\ host \in [Rows -> Hosts]
  /\ overdue = {} /\ cached = {}
  /\ pc = [r \in Requests |-> "idle"] /\ of = [r \in Requests |-> None]
  /\ todo = {} /\ job = "idle" /\ at = None
  /\ torn = FALSE /\ faults = 0

Goto(r, from, to, about) ==
  /\ pc[r] = from
  /\ pc' = [pc EXCEPT ![r] = to] /\ of' = [of EXCEPT ![r] = about]

(* An update by id; of a deleted row it changes nothing. *)
SetStatus(i, status) ==
  row' = IF i \in Registered THEN [row EXCEPT ![i] = status] ELSE row

-----------------------------------------------------------------------------
AskRegister(r) ==
  /\ Registered = {}
  /\ \E h \in Hosts : Goto(r, "idle", "insert", h)
  /\ UNCHANGED <<row, host, overdue, cached, jobVars, torn, faults>>

(* The name is unique. *)
CreateCustomDomain(r) ==
  /\ Goto(r, "insert", "idle", None)
  /\ \/ \E i \in Rows :
          /\ row[i] = "none" /\ host[i] = of[r]
          /\ \A k \in Registered : host[k] # host[i]
          /\ row' = [row EXCEPT ![i] = "pending"]
          /\ torn' = (torn \/ Registered # {})
     \/ UNCHANGED <<row, torn>>
  /\ UNCHANGED <<host, overdue, cached, jobVars, faults>>

AskDelete(r) ==
  /\ \E i \in Registered : Goto(r, "idle", "delete", i)
  /\ UNCHANGED <<row, host, overdue, cached, jobVars, torn, faults>>

DeleteDomain(r) ==
  /\ Goto(r, "delete", "clear", of[r])
  /\ SetStatus(of[r], "deleted")
  /\ UNCHANGED <<host, overdue, cached, jobVars, torn, faults>>

(* Mutant: the job's own clearing is taken for enough. *)
ClearNothing(r) ==
  /\ Goto(r, "clear", "idle", None)
  /\ UNCHANGED <<row, host, overdue, cached, jobVars, torn, faults>>

ClearDeleted(r) ==
  /\ Goto(r, "clear", "idle", None)
  /\ \/ cached' = cached \ {host[of[r]]} /\ UNCHANGED faults
     \/ faults < MaxFaults /\ faults' = faults + 1 /\ UNCHANGED cached
  /\ UNCHANGED <<row, host, overdue, jobVars, torn>>

-----------------------------------------------------------------------------
(* A lookup that misses the cache; the sign-in finds verified names only. *)
Lookup(r) ==
  /\ \E i \in Registered : host[i] \notin cached /\ Goto(r, "idle", "cache", i)
  /\ UNCHANGED <<row, host, overdue, cached, jobVars, torn, faults>>

SetCache(r) ==
  /\ Goto(r, "cache", "idle", None)
  /\ cached' = cached \union {host[of[r]]}
  /\ torn' = (torn \/ of[r] \notin Registered)
  /\ UNCHANGED <<row, host, overdue, jobVars, faults>>

CacheExpires ==
  /\ \E h \in cached : cached' = cached \ {h}
  /\ UNCHANGED <<row, host, overdue, pc, of, jobVars, torn, faults>>

DayPasses ==
  /\ \E i \in Registered \ overdue : overdue' = overdue \union {i}
  /\ UNCHANGED <<row, host, cached, pc, of, jobVars, torn, faults>>

-----------------------------------------------------------------------------
(* verifyPendingDomains. *)
JobStep(from, to, i) == job = from /\ job' = to /\ at' = i

StartJob ==
  /\ Pending # {} /\ JobStep("idle", "next", None)
  /\ todo' = Pending
  /\ UNCHANGED <<row, host, overdue, cached, pc, of, torn, faults>>

VisitDomain(i) ==
  /\ i \in todo /\ todo' = todo \ {i}
  /\ JobStep("next", "verify", i)
  /\ IF row[i] = "pending" THEN SetStatus(i, "verifying") ELSE UNCHANGED row
  /\ UNCHANGED <<host, overdue, cached, pc, of, torn, faults>>

VerifyTxtRecord ==
  /\ \/ JobStep("verify", "activate", at)
     \/ at \in overdue /\ JobStep("verify", "fail", at)
     \/ at \notin overdue /\ JobStep("verify", "next", None)
  /\ UNCHANGED <<row, host, overdue, cached, pc, of, todo, torn, faults>>

ActivateDomain ==
  /\ JobStep("activate", "clear", at) /\ SetStatus(at, "active")
  /\ UNCHANGED <<host, overdue, cached, pc, of, todo, torn, faults>>

ClearActivated ==
  /\ JobStep("clear", "next", None)
  /\ cached' = cached \ {host[at]}
  /\ UNCHANGED <<row, host, overdue, pc, of, todo, torn, faults>>

FailDomain ==
  /\ JobStep("fail", "next", None) /\ SetStatus(at, "failed")
  /\ UNCHANGED <<host, overdue, cached, pc, of, todo, torn, faults>>

(* The list is done with, or a statement throws. *)
EndJob ==
  /\ \/ todo = {} /\ JobStep("next", "idle", None) /\ UNCHANGED faults
     \/ /\ job \in {"next", "activate", "clear", "fail"} /\ JobStep(job, "idle", None)
        /\ faults < MaxFaults /\ faults' = faults + 1
  /\ todo' = {}
  /\ UNCHANGED <<row, host, overdue, cached, pc, of, torn>>

Next ==
  \/ \E r \in Requests :
       \/ AskRegister(r) \/ CreateCustomDomain(r)
       \/ AskDelete(r) \/ DeleteDomain(r) \/ ClearDeleted(r)
       \/ Lookup(r) \/ SetCache(r)
  \/ CacheExpires \/ DayPasses
  \/ StartJob \/ VerifyTxtRecord \/ ActivateDomain \/ ClearActivated \/ FailDomain \/ EndJob
  \/ \E i \in Rows : VisitDomain(i)

Spec == Init /\ [][Next]_vars

-----------------------------------------------------------------------------
(* A tenant has one custom domain at most, and a name it has deleted leads *)
(* to it no more once the deletion is through, whatever the job is about   *)
(* to write: unless two registrations overlapped, or a lookup stored what  *)
(* it had found before the deletion, or a statement failed                 *)
(* (domains.service.ts:26-69, domain-verification.job.ts:22-67).           *)
HostsExplained ==
  torn \/ faults > 0
  \/ /\ Cardinality(Registered) <= 1
     /\ cached \subseteq {host[i] : i \in Registered}
          \union {host[of[r]] : r \in {q \in Requests : pc[q] = "clear"}}
=============================================================================
