--------------------------- MODULE TenantOnboarding ---------------------------
(***************************************************************************)
(* A broker's tenant from its invitation to the account of its first user: *)
(* admin-tenants.service.ts, the onboarding page, and the two endpoints    *)
(* that Stripe tells about the tenant's account, one of which the platform *)
(* uses to connect a tenant and the other to revoke and reinstate one.     *)
(* Stripe sends account.updated for every change of an account, late, more *)
(* than once and in any order; as the content of an event comes again      *)
(* under other ids, the deduplication by id refuses no behaviour.          *)
(***************************************************************************)
EXTENDS Naturals

CONSTANTS
  Pages,       \* onboarding pages the broker opens with the link
  Accounts,    \* Stripe accounts, one per Connect request at most
  None,
  MaxFaults    \* bound on failing statements, crashes and lost mails

VARIABLES
  status, license, account,    \* the tenants row
  invitation, expired, mailed, \* the invitation; its seven days are over; the link is sent
  user,                        \* the broker_admin row
  invite,                      \* statement of inviteTenant
  made, sent,                  \* accounts at Stripe; events about them
  page, making,                \* per page: step shown or statement; its new account
  hook, about,                 \* the connecting endpoint: statement, account
  reinstate,                   \* the other endpoint: status it is to write
  office,                      \* the administrator's request: status it is to write
  overtaken,                   \* ghost: an account was stored when the event of another
  faults                       \* one had been received

row == <<status, license, account>>
link == <<invitation, expired, mailed, invite>>
stripe == <<made, sent>>
endpoints == <<hook, about, reinstate, office>>
vars == <<row, link, user, stripe, page, making, endpoints, overtaken, faults>>

Status == {"none", "invited", "stripe_connected", "active", "suspended", "stripe_revoked"}

TypeOK ==
  /\ status \in Status /\ license \in BOOLEAN /\ account \in Accounts \union {None}
  /\ invitation \in {"none", "pending", "used"} /\ expired \in BOOLEAN /\ mailed \in BOOLEAN
  /\ user \in BOOLEAN
  /\ invite \in {"idle", "insert", "invitation", "mail", "end"}
  /\ made \subseteq Accounts /\ sent \subseteq made \X BOOLEAN
  /\ page \in [Pages -> {"closed", "invalid", "blank", "stripe", "kfn", "password", "totp",
                         "account", "store", "activate", "mark", "insert"}]
  /\ making \in [Pages -> Accounts \union {None}]
  /\ hook \in {"idle", "store", "mark"} /\ about \in Accounts \union {None}
  /\ reinstate \in {"idle", "active", "stripe_revoked"}
  /\ office \in {"idle", "active", "suspended"}
  /\ overtaken \in BOOLEAN
  /\ faults \in 0..MaxFaults

Init ==
  /\ status = "none" /\ license = FALSE /\ account = None
  /\ invitation = "none" /\ expired = FALSE /\ mailed = FALSE
  /\ user = FALSE /\ invite = "idle"
  /\ made = {} /\ sent = {}
  /\ page = [p \in Pages |-> "closed"] /\ making = [p \in Pages |-> None]
  /\ hook = "idle" /\ about = None /\ reinstate = "idle" /\ office = "idle"
  /\ overtaken = FALSE /\ faults = 0

Fault == faults < MaxFaults /\ faults' = faults + 1

-----------------------------------------------------------------------------
(* inviteTenant; a second call for the slug is refused from the insert on. *)
InviteStep(from, to) == invite = from /\ invite' = to

InviteLeaves == <<license, account, expired, user, stripe, page, making, endpoints,
                  overtaken>>

FindBySlug ==
  /\ status = "none" /\ InviteStep("idle", "insert")
  /\ UNCHANGED <<status, invitation, mailed, InviteLeaves, faults>>

CreateTenant ==
  /\ InviteStep("insert", "invitation") /\ status' = "invited"
  /\ UNCHANGED <<invitation, mailed, InviteLeaves, faults>>

CreateInvitation ==
  /\ InviteStep("invitation", "mail") /\ invitation' = "pending"
  /\ UNCHANGED <<status, mailed, InviteLeaves, faults>>

SendInvite ==
  /\ InviteStep("mail", "end") /\ mailed' = TRUE
  /\ UNCHANGED <<status, invitation, InviteLeaves, faults>>

InviteFails ==
  /\ invite \in {"invitation", "mail"} /\ invite' = "end" /\ Fault
  /\ UNCHANGED <<status, invitation, mailed, InviteLeaves>>

LinkExpires ==
  /\ mailed /\ ~expired /\ expired' = TRUE
  /\ UNCHANGED <<row, invitation, mailed, invite, user, stripe, page, making, endpoints,
                 overtaken, faults>>

-----------------------------------------------------------------------------
(* The onboarding page.  Each of its requests looks the invitation up by   *)
(* the token first.                                                        *)
LinkAccepted == invitation = "pending" /\ ~expired

Show(p, from, to) == page[p] = from /\ page' = [page EXCEPT ![p] = to]

PageLeaves == <<link, stripe, endpoints, faults>>

StepOf(s) ==
  CASE s = "invited"          -> "stripe"
    [] s = "stripe_connected" -> "kfn"
    [] s = "active"           -> "password"
    [] OTHER                  -> "blank"

OpenPage(p) ==
  /\ mailed
  /\ \E from \in {"closed", "invalid", "blank", "stripe", "kfn", "password"} :
       Show(p, from, IF LinkAccepted THEN StepOf(status) ELSE "invalid")
  /\ UNCHANGED <<row, user, making, overtaken, PageLeaves>>

(* initiateStripeConnect; a refusal leaves the step on the page. *)
Connect(p) ==
  /\ LinkAccepted /\ status = "invited"
  /\ Show(p, "stripe", "account")
  /\ UNCHANGED <<row, user, making, overtaken, PageLeaves>>

CreateAccount(p) ==
  /\ Show(p, "account", "store")
  /\ \E a \in Accounts \ made : made' = made \union {a} /\ making' = [making EXCEPT ![p] = a]
  /\ UNCHANGED <<row, link, user, sent, endpoints, overtaken, faults>>

StoreAccount(p) ==
  /\ Show(p, "store", "closed")
  /\ account' = making[p] /\ making' = [making EXCEPT ![p] = None]
  /\ overtaken' = (overtaken \/ status # "invited" \/ hook = "mark" \/ reinstate # "idle")
  /\ UNCHANGED <<status, license, user, PageLeaves>>

(* verifyKfnAndActivate, from the page; an administrator's call is the same *)
(* without the link.                                                        *)
VerifyKfn(p) ==
  /\ LinkAccepted /\ status = "stripe_connected"
  /\ Show(p, "kfn", "activate")
  /\ UNCHANGED <<row, user, making, overtaken, PageLeaves>>

ActivateTenant(p) ==
  /\ Show(p, "activate", "mark")
  /\ status' = "active" /\ license' = TRUE
  /\ UNCHANGED <<account, user, making, overtaken, PageLeaves>>

MarkAsUsed(p) ==
  /\ Show(p, "mark", "password")
  /\ invitation' = "used"
  /\ UNCHANGED <<row, expired, mailed, invite, user, stripe, making, endpoints, overtaken,
                 faults>>

(* createBrokerAdminUser; one user per tenant and e-mail. *)
Setup(p) ==
  /\ LinkAccepted /\ status = "active"
  /\ Show(p, "password", "insert")
  /\ UNCHANGED <<row, user, making, overtaken, PageLeaves>>

InsertUser(p) ==
  /\ Show(p, "insert", IF user THEN "password" ELSE "totp")
  /\ user' = TRUE
  /\ UNCHANGED <<row, making, overtaken, PageLeaves>>

(* The request dies, or its answer is lost: the page shows its step again. *)
PageFails(p) ==
  /\ \/ Show(p, "account", "stripe") \/ Show(p, "store", "stripe")
     \/ Show(p, "activate", "kfn")   \/ Show(p, "mark", "kfn")
     \/ Show(p, "insert", "password")
  /\ making' = [making EXCEPT ![p] = None]
  /\ Fault
  /\ UNCHANGED <<row, link, user, stripe, endpoints, overtaken>>

-----------------------------------------------------------------------------
(* Stripe, and the endpoints it tells. *)
SendEvent(a) ==
  /\ a \in made /\ \E able \in BOOLEAN : sent' = sent \union {<<a, able>>}
  /\ UNCHANGED <<row, link, user, made, page, making, endpoints, overtaken, faults>>

HookLeaves == <<license, link, user, stripe, page, making>>

(* handleStripeAccountUpdated finds the tenant by the account's metadata,  *)
(* whatever its status.                                                    *)
ReceiveConnected(a) ==
  /\ <<a, TRUE>> \in sent /\ status # "stripe_connected"
  /\ hook = "idle" /\ hook' = "store" /\ about' = a
  /\ UNCHANGED <<status, account, reinstate, office, overtaken, HookLeaves, faults>>

(* Mutant: the event's account is not stored. *)
StoreNothing ==
  /\ hook = "store" /\ hook' = "mark"
  /\ UNCHANGED <<status, account, about, reinstate, office, overtaken, HookLeaves, faults>>

StoreConnected ==
  /\ hook = "store" /\ hook' = "mark"
  /\ account' = about
  /\ UNCHANGED <<status, about, reinstate, office, overtaken, HookLeaves, faults>>

MarkConnected ==
  /\ hook = "mark" /\ hook' = "idle" /\ about' = None
  /\ status' = "stripe_connected"
  /\ UNCHANGED <<account, reinstate, office, overtaken, HookLeaves, faults>>

(* The event is marked as processed before it is. *)
HookFails ==
  /\ hook # "idle" /\ hook' = "idle" /\ about' = None /\ Fault
  /\ UNCHANGED <<status, account, reinstate, office, overtaken, HookLeaves>>

(* handleAccountUpdated finds the tenant by the account it has stored. *)
ReceiveAccount(able) ==
  /\ <<account, able>> \in sent
  /\ LET new == IF able THEN "active" ELSE "stripe_revoked" IN
       /\ status # new /\ reinstate = "idle" /\ reinstate' = new
  /\ UNCHANGED <<status, account, hook, about, office, overtaken, HookLeaves, faults>>

WriteReinstated ==
  /\ reinstate # "idle" /\ reinstate' = "idle"
  /\ status' = reinstate
  /\ UNCHANGED <<account, hook, about, office, overtaken, HookLeaves, faults>>

(* updateTenantStatus. *)
AskStatus ==
  /\ office = "idle"
  /\ \/ status = "active" /\ office' = "suspended"
     \/ status = "suspended" /\ office' = "active"
  /\ UNCHANGED <<status, account, hook, about, reinstate, overtaken, HookLeaves, faults>>

WriteStatus ==
  /\ office # "idle" /\ office' = "idle"
  /\ status' = office
  /\ UNCHANGED <<account, hook, about, reinstate, overtaken, HookLeaves, faults>>

(* updateKfnLicense does not look at the status. *)
UpdateKfnLicense ==
  /\ status # "none" /\ license' = TRUE
  /\ UNCHANGED <<status, account, link, user, stripe, page, making, endpoints, overtaken,
                 faults>>

-----------------------------------------------------------------------------
Next ==
  \/ FindBySlug \/ CreateTenant \/ CreateInvitation \/ SendInvite \/ InviteFails
  \/ LinkExpires
  \/ \E p \in Pages :
       \/ OpenPage(p) \/ Connect(p) \/ CreateAccount(p) \/ StoreAccount(p)
       \/ VerifyKfn(p) \/ ActivateTenant(p) \/ MarkAsUsed(p)
       \/ Setup(p) \/ InsertUser(p) \/ PageFails(p)
  \/ \E a \in Accounts : SendEvent(a) \/ ReceiveConnected(a)
  \/ StoreConnected \/ MarkConnected \/ HookFails
  \/ \E able \in BOOLEAN : ReceiveAccount(able)
  \/ WriteReinstated \/ AskStatus \/ WriteStatus \/ UpdateKfnLicense

Spec == Init /\ [][Next]_vars

-----------------------------------------------------------------------------
(* The account a tenant in service would be paid to is one that Stripe has *)
(* said can charge, though the broker may have begun several: the event    *)
(* decides, unless a Connect request stored its new account after the      *)
(* event of another one (admin-tenants.service.ts:128-208).                *)
InServiceCanCharge ==
  status \in {"stripe_connected", "active", "suspended"} =>
    overtaken \/ <<account, TRUE>> \in sent

(* The page's third step asks for the password of a tenant that is active  *)
(* and has no user yet only while the link can still create one ("The      *)
(* organisation is activated! Set a password", onboarding/page.tsx:330).   *)
PasswordStepWorks ==
  \A p \in Pages :
    page[p] = "password" /\ status = "active" /\ ~user /\ ~expired => LinkAccepted
=============================================================================
