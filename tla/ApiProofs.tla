------------------------------ MODULE ApiProofs ------------------------------
(***************************************************************************)
(* What the requests of the API leave behind, and what the screens that    *)
(* send them show, for every number of requests, insurers, tabs, actors    *)
(* and processes and any number of faults: the onboarding, the quotes, the *)
(* settings and the audit log of a tenant, its fleet, and the panels, the  *)
(* catalog and the import of the office.  The sides of MCRequests share no *)
(* row, so an invariant of one is kept by the steps of all others; the     *)
(* last theorem joins these screens and those of SessionsProofs.           *)
(***************************************************************************)
EXTENDS MCRequests, SessionsProofs, SequenceTheorems, FiniteSetTheorems, TLAPS

-----------------------------------------------------------------------------
(***************************************************************************)
(* The onboarding.  The invariant follows the account through whatever is  *)
(* about to put the tenant in service: a page, an event of Stripe or an    *)
(* administrator.                                                          *)
(***************************************************************************)
CanCharge == overtaken \/ <<account, TRUE>> \in sent
Begun == status \notin {"none", "invited"}

StatesOK ==
  /\ status \in Onboarding!Status
  /\ page \in [OnboardingPages -> {"closed", "invalid", "blank", "stripe", "kfn", "password",
                         "totp",
                         "account", "store", "activate", "mark", "insert"}]
  /\ hook \in {"idle", "store", "mark"}
  /\ reinstate \in {"idle", "active", "stripe_revoked"}
  /\ office \in {"idle", "active", "suspended"}
  /\ overtaken \in BOOLEAN

(* Before the row is inserted there is nothing to connect; once the tenant *)
(* has left "invited" it never comes back.                                 *)
FreshInv ==
  /\ status = "none" =>
       /\ invite \in {"idle", "insert"}
       /\ ~mailed /\ made = {} /\ sent = {}
       /\ hook = "idle" /\ reinstate = "idle" /\ office = "idle"
       /\ \A p \in OnboardingPages : page[p] = "closed"
  /\ invite = "insert" => status = "none"

(* Whoever is about to write a status of service has seen the account. *)
WriterInv ==
  /\ \A p \in OnboardingPages : page[p] = "activate" => Begun /\ CanCharge
  /\ office # "idle" => Begun /\ CanCharge
  /\ reinstate = "active" => CanCharge
  /\ hook # "idle" => <<about, TRUE>> \in sent
  /\ hook = "mark" => overtaken \/ account = about

IInv == StatesOK /\ FreshInv /\ WriterInv /\ Onboarding!InServiceCanCharge

-----------------------------------------------------------------------------
LEMMA IInvInit == Onboarding!Init => IInv
  BY DEF Onboarding!Init, IInv, StatesOK, Onboarding!Status, FreshInv, WriterInv, CanCharge,
         Begun,
         Onboarding!InServiceCanCharge

(* Only StoreAccount replaces an account by one Stripe has said nothing of: *)
(* it marks that when anyone has gone by the account before.               *)
LEMMA IInvStep ==
  ASSUME IInv, [Onboarding!Next]_Onboarding!vars
  PROVE  IInv'
<1> USE DEF IInv, StatesOK, Onboarding!Status, FreshInv, WriterInv, CanCharge, Begun,
            Onboarding!InServiceCanCharge, Onboarding!row, Onboarding!link, Onboarding!stripe,
            Onboarding!endpoints
<1>1. CASE Onboarding!FindBySlug \/ Onboarding!CreateTenant \/ Onboarding!CreateInvitation
           \/ Onboarding!SendInvite \/ Onboarding!InviteFails
  <2>1. CASE Onboarding!FindBySlug
    BY <2>1 DEF Onboarding!FindBySlug, Onboarding!InviteStep, Onboarding!InviteLeaves
  <2>2. CASE Onboarding!CreateTenant
    BY <2>2 DEF Onboarding!CreateTenant, Onboarding!InviteStep, Onboarding!InviteLeaves
  <2>3. CASE Onboarding!CreateInvitation
    BY <2>3 DEF Onboarding!CreateInvitation, Onboarding!InviteStep, Onboarding!InviteLeaves
  <2>4. CASE Onboarding!SendInvite
    BY <2>4 DEF Onboarding!SendInvite, Onboarding!InviteStep, Onboarding!InviteLeaves
  <2>5. CASE Onboarding!InviteFails
    BY <2>5 DEF Onboarding!InviteFails, Onboarding!InviteLeaves
  <2> QED
    BY <1>1, <2>1, <2>2, <2>3, <2>4, <2>5
<1>2. CASE Onboarding!LinkExpires
  BY <1>2 DEF Onboarding!LinkExpires
<1>3. ASSUME NEW p \in OnboardingPages, Onboarding!OpenPage(p)
      PROVE  IInv'
  BY <1>3 DEF Onboarding!OpenPage, Onboarding!Show, Onboarding!StepOf, Onboarding!PageLeaves
<1>4. ASSUME NEW p \in OnboardingPages, Onboarding!Connect(p)
      PROVE  IInv'
  BY <1>4 DEF Onboarding!Connect, Onboarding!Show, Onboarding!PageLeaves
<1>5. ASSUME NEW p \in OnboardingPages, Onboarding!CreateAccount(p)
      PROVE  IInv'
  BY <1>5 DEF Onboarding!CreateAccount, Onboarding!Show
<1>6. ASSUME NEW p \in OnboardingPages, Onboarding!StoreAccount(p)
      PROVE  IInv'
  BY <1>6 DEF Onboarding!StoreAccount, Onboarding!Show, Onboarding!PageLeaves
<1>7. ASSUME NEW p \in OnboardingPages, Onboarding!VerifyKfn(p)
      PROVE  IInv'
  BY <1>7 DEF Onboarding!VerifyKfn, Onboarding!Show, Onboarding!PageLeaves
<1>8. ASSUME NEW p \in OnboardingPages, Onboarding!ActivateTenant(p)
      PROVE  IInv'
  BY <1>8 DEF Onboarding!ActivateTenant, Onboarding!Show, Onboarding!PageLeaves
<1>9. ASSUME NEW p \in OnboardingPages, Onboarding!MarkAsUsed(p)
      PROVE  IInv'
  BY <1>9 DEF Onboarding!MarkAsUsed, Onboarding!Show
<1>10. ASSUME NEW p \in OnboardingPages, Onboarding!Setup(p) \/ Onboarding!InsertUser(p)
       PROVE  IInv'
  <2>1. CASE Onboarding!Setup(p)
    BY <2>1 DEF Onboarding!Setup, Onboarding!Show, Onboarding!PageLeaves
  <2>2. CASE Onboarding!InsertUser(p)
    BY <2>2 DEF Onboarding!InsertUser, Onboarding!Show, Onboarding!PageLeaves
  <2> QED
    BY <1>10, <2>1, <2>2
<1>11. ASSUME NEW p \in OnboardingPages, Onboarding!PageFails(p)
       PROVE  IInv'
  <2>1. PICK from, to \in {"account", "store", "activate", "mark", "insert", "stripe", "kfn",
                           "password"} :
           page[p] = from /\ to # "activate" /\ page' = [page EXCEPT ![p] = to]
    BY <1>11 DEF Onboarding!PageFails, Onboarding!Show
  <2>2. /\ UNCHANGED <<status, account, invite, mailed, made, sent, hook, about, reinstate,
                       office, overtaken>>
        /\ status # "none"
    BY <1>11, <2>1 DEF Onboarding!PageFails
  <2>3. \A q \in OnboardingPages : page'[q] = "activate" => page[q] = "activate"
    BY <2>1
  <2>4. StatesOK'
    BY <2>1, <2>2
  <2>5. FreshInv' /\ WriterInv' /\ Onboarding!InServiceCanCharge'
    BY <2>2, <2>3
  <2> QED
    BY <2>4, <2>5
<1>12. ASSUME NEW a \in Accounts, Onboarding!SendEvent(a)
       PROVE  IInv'
  BY <1>12 DEF Onboarding!SendEvent
<1>13. ASSUME NEW a \in Accounts, Onboarding!ReceiveConnected(a)
       PROVE  IInv'
  BY <1>13 DEF Onboarding!ReceiveConnected, Onboarding!HookLeaves
<1>14. CASE Onboarding!StoreConnected \/ Onboarding!MarkConnected \/ Onboarding!HookFails
  <2>1. CASE Onboarding!StoreConnected
    BY <2>1 DEF Onboarding!StoreConnected, Onboarding!HookLeaves
  <2>2. CASE Onboarding!MarkConnected
    BY <2>2 DEF Onboarding!MarkConnected, Onboarding!HookLeaves
  <2>3. CASE Onboarding!HookFails
    BY <2>3 DEF Onboarding!HookFails, Onboarding!HookLeaves
  <2> QED
    BY <1>14, <2>1, <2>2, <2>3
<1>15. ASSUME NEW able \in BOOLEAN, Onboarding!ReceiveAccount(able)
       PROVE  IInv'
  BY <1>15 DEF Onboarding!ReceiveAccount, Onboarding!HookLeaves
<1>16. CASE Onboarding!WriteReinstated
  BY <1>16 DEF Onboarding!WriteReinstated, Onboarding!HookLeaves
<1>17. CASE Onboarding!AskStatus \/ Onboarding!WriteStatus
  <2>1. CASE Onboarding!AskStatus
    BY <2>1 DEF Onboarding!AskStatus, Onboarding!HookLeaves
  <2>2. CASE Onboarding!WriteStatus
    BY <2>2 DEF Onboarding!WriteStatus, Onboarding!HookLeaves
  <2> QED
    BY <1>17, <2>1, <2>2
<1>18. CASE Onboarding!UpdateKfnLicense
  BY <1>18 DEF Onboarding!UpdateKfnLicense
<1>19. CASE UNCHANGED Onboarding!vars
  BY <1>19 DEF Onboarding!vars
<1> QED
  BY <1>1, <1>2, <1>3, <1>4, <1>5, <1>6, <1>7, <1>8, <1>9, <1>10, <1>11, <1>12, <1>13,
     <1>14, <1>15, <1>16, <1>17, <1>18, <1>19 DEF Onboarding!Next

(* The account a tenant in service would be paid to can charge, unless a   *)
(* Connect request stored its new account after the event of another       *)
(* (admin-tenants.service.ts:128-208).                                     *)
THEOREM ServiceMeansCharges == Onboarding!Spec => []Onboarding!InServiceCanCharge
<1>1. Onboarding!Init => IInv
  BY IInvInit
<1>2. IInv /\ [Onboarding!Next]_Onboarding!vars => IInv'
  BY IInvStep
<1>3. IInv => Onboarding!InServiceCanCharge
  BY DEF IInv
<1> QED
  BY <1>1, <1>2, <1>3, PTL DEF Onboarding!Spec
-----------------------------------------------------------------------------
(* Among the other requests of the API: those of an onboarding are the     *)
(* only ones that write its rows.                                          *)
OnboardingInv == side = "onboarding" => IInv

LEMMA OnboardingUntouched ==
  ASSUME IInv, UNCHANGED onboardingVars
  PROVE  IInv'
  BY DEF onboardingVars, IInv, StatesOK, FreshInv, WriterInv, CanCharge, Begun,
         Onboarding!Status, Onboarding!InServiceCanCharge

(* What ServiceMeansCharges says of the onboarding alone holds in the API. *)
THEOREM ServiceInTheApi == RequestsSpec => []InServiceCanCharge
<1>1. RequestsInit => OnboardingInv
  BY IInvInit DEF RequestsInit, OnboardingInv
<1>2. ASSUME OnboardingInv, [RequestsNext]_<<side, faults, apiVars, screenVars>>
      PROVE  OnboardingInv'
  <2> SUFFICES ASSUME side' = "onboarding"
               PROVE  IInv'
    BY DEF OnboardingInv
  <2>1. CASE UNCHANGED <<side, faults, apiVars, screenVars>>
    BY <1>2, <2>1, OnboardingUntouched DEF OnboardingInv, apiVars
  <2>2. CASE RequestsNext
    <3>1. side = "onboarding" /\ IInv
      BY <1>2, <2>2 DEF RequestsNext, OnboardingInv
    <3>2. Onboarding!Next \/ UNCHANGED onboardingVars
      BY <2>2, <3>1 DEF RequestsNext, ApiNext, apiVars
    <3> QED
      BY <3>1, <3>2, IInvStep, OnboardingUntouched
  <2> QED
    BY <1>2, <2>1, <2>2
<1>3. OnboardingInv => InServiceCanCharge
  BY DEF OnboardingInv, IInv, InServiceCanCharge
<1> QED
  BY <1>1, <1>2, <1>3, PTL DEF RequestsSpec

-----------------------------------------------------------------------------
(***************************************************************************)
(* The quotes of a session.  What a request's rows and the calls behind    *)
(* them can be follows from where the request is; nothing of another       *)
(* request touches them.                                                   *)
(***************************************************************************)
Calls(r) == {x \in Requests \X Insurers : x[1] = r}
Marks(r) == {x \in marked : x[1] = r}

RowOK(where, s, c) ==
  /\ where \in {"idle", "check", "insurers"} => s = "none" /\ c = "none"
  /\ where = "create" => s = "none" /\ c \in {"none", "calling"}
  /\ where = "call" =>
       \/ s = "none" /\ c = "none"
       \/ s = "pending" /\ c \in {"calling", "price", "timeout", "error"}
  /\ where = "store" =>
       \/ s = "none" /\ c = "none"
       \/ s = "pending" /\ c \in {"price", "timeout", "error"}
       \/ s \in {"success", "timeout", "error"} /\ c = "stored"
  /\ where \in {"score", "audit", "find", "done"} => s # "pending"

RowsOK(r) == \A x \in Calls(r) : RowOK(qpc[r], quote[x], result[x])

MarksOK(r) ==
  /\ \A x, y \in Marks(r) : x = y
  /\ \A x \in Marks(r) : quote[x] = "success"
  /\ qpc[r] \in {"idle", "check", "insurers", "create", "call", "store", "score"} =>
       Marks(r) = {}
  /\ qpc[r] = "score" => \E x \in Calls(r) : quote[x] = "success"
  /\ qpc[r] = "audit" => Marks(r) # {}
  /\ qpc[r] \in {"find", "done"} /\ Marks(r) = {} => \A x \in Calls(r) : quote[x] # "success"

AnswerOK(r) ==
  /\ answer[r] \in {"complete", "pending"} => qpc[r] = "done"
  /\ answer[r] = "pending" => \E q \in Requests \ {r} : qpc[q] # "idle"

QuotesTypeOK ==
  /\ quote \in [Requests \X Insurers -> {"none", "pending", "success", "timeout", "error"}]
  /\ result \in [Requests \X Insurers ->
                   {"none", "calling", "price", "timeout", "error", "stored"}]
  /\ DOMAIN qpc = Requests /\ DOMAIN answer = Requests
  /\ marked \subseteq Requests \X Insurers

QuotesInv == QuotesTypeOK /\ \A r \in Requests : RowsOK(r) /\ MarksOK(r) /\ AnswerOK(r)

LEMMA QuotesInit == Quotes!Init => QuotesInv
<1> SUFFICES ASSUME Quotes!Init PROVE QuotesInv
  OBVIOUS
<1>1. QuotesTypeOK
  BY DEF Quotes!Init, Quotes!Rows, QuotesTypeOK
<1>2. \A r \in Requests : \A x \in Calls(r) : quote[x] = "none" /\ result[x] = "none"
  BY DEF Quotes!Init, Quotes!Rows, Calls
<1>3. \A r \in Requests : qpc[r] = "idle" /\ answer[r] = "none" /\ Marks(r) = {}
  BY DEF Quotes!Init, Marks
<1> QED
  BY <1>1, <1>2, <1>3 DEF QuotesInv, RowsOK, RowOK, MarksOK, AnswerOK

(* A step of one request: the others keep what they had. *)
LEMMA RequestKeeps ==
  ASSUME QuotesInv, NEW r \in Requests, QuotesTypeOK',
         \A q \in Requests \ {r} : qpc'[q] = qpc[q] /\ answer'[q] = answer[q],
         \A q \in Requests \ {r} : \A x \in Calls(q) :
           quote'[x] = quote[x] /\ result'[x] = result[x],
         \A q \in Requests \ {r} : Marks(q)' = Marks(q),
         qpc'[r] # "idle",
         RowsOK(r)', MarksOK(r)', AnswerOK(r)'
  PROVE  QuotesInv'
<1> SUFFICES ASSUME NEW q \in Requests \ {r}
             PROVE  RowsOK(q)' /\ MarksOK(q)' /\ AnswerOK(q)'
  BY DEF QuotesInv
<1>1. RowsOK(q) /\ MarksOK(q) /\ AnswerOK(q)
  BY DEF QuotesInv
<1>2. RowsOK(q)'
  <2>1. \A x \in Calls(q) : RowOK(qpc'[q], quote'[x], result'[x])
    BY <1>1 DEF RowsOK
  <2> QED
    BY <2>1 DEF RowsOK, Calls
<1>3. MarksOK(q)'
  <2>1. \A x \in Marks(q) : x \in Calls(q)
    BY DEF Marks, Calls, QuotesInv, QuotesTypeOK
  <2> DEFINE C == Calls(q)
  <2>2. C' = C
    BY DEF Calls
  <2>3. (\E x \in C : quote[x] = "success") => \E x \in C : quote'[x] = "success"
    OBVIOUS
  <2>4. (\A x \in C : quote[x] # "success") => \A x \in C : quote'[x] # "success"
    OBVIOUS
  <2> QED
    BY <1>1, <2>1, <2>2, <2>3, <2>4 DEF MarksOK
<1>4. AnswerOK(q)'
  BY <1>1 DEF AnswerOK
<1> QED
  BY <1>2, <1>3, <1>4

(* A request that only goes on, with its rows as they are. *)
LEMMA GotoKeeps ==
  ASSUME QuotesInv, NEW r \in Requests, NEW from, NEW to, to # "idle",
         Quotes!Goto(r, from, to), UNCHANGED <<quote, result>>,
         marked' \subseteq Requests \X Insurers, DOMAIN answer' = Requests,
         \A q \in Requests \ {r} : answer'[q] = answer[q],
         \A q \in Requests \ {r} : Marks(q)' = Marks(q),
         \A x \in Calls(r) : RowOK(from, quote[x], result[x]) => RowOK(to, quote[x], result[x]),
         qpc'[r] = to => MarksOK(r)' /\ AnswerOK(r)'
  PROVE  QuotesInv'
<1>1. qpc[r] = from /\ qpc'[r] = to /\ DOMAIN qpc' = Requests
      /\ \A q \in Requests \ {r} : qpc'[q] = qpc[q]
  BY DEF Quotes!Goto, QuotesInv, QuotesTypeOK
<1>2. QuotesTypeOK'
  BY <1>1 DEF QuotesInv, QuotesTypeOK
<1>3. RowsOK(r)'
  <2>1. \A x \in Calls(r) : RowOK(to, quote[x], result[x])
    BY <1>1 DEF QuotesInv, RowsOK
  <2> QED
    BY <1>1, <2>1 DEF RowsOK, Calls
<1> QED
  BY <1>1, <1>2, <1>3, RequestKeeps

(* A step that writes a row or a call of the request that is at x. *)
LEMMA RowKeeps ==
  ASSUME QuotesInv, NEW x \in Requests \X Insurers, UNCHANGED <<qpc, answer, marked>>,
         QuotesTypeOK', qpc[x[1]] \in {"call", "store"},
         \A y \in (Requests \X Insurers) \ {x} : quote'[y] = quote[y] /\ result'[y] = result[y],
         RowOK(qpc[x[1]], quote'[x], result'[x])
  PROVE  QuotesInv'
<1> PICK r \in Requests : r = x[1]
  OBVIOUS
<1>1. RowsOK(r) /\ MarksOK(r) /\ AnswerOK(r)
  BY DEF QuotesInv
<1>2. \A q \in Requests \ {r} : \A y \in Calls(q) : quote'[y] = quote[y]
      /\ result'[y] = result[y]
  BY DEF Calls
<1>3. \A q \in Requests : Marks(q)' = Marks(q)
  BY DEF Marks
<1>4. RowsOK(r)'
  <2>1. \A y \in Calls(r) : RowOK(qpc[r], quote'[y], result'[y])
    <3> SUFFICES ASSUME NEW y \in Calls(r)
                 PROVE  RowOK(qpc[r], quote'[y], result'[y])
      OBVIOUS
    <3>1. CASE y = x
      BY <3>1
    <3>2. CASE y # x
      <4>1. quote'[y] = quote[y] /\ result'[y] = result[y]
        BY <3>2 DEF Calls
      <4>2. RowOK(qpc[r], quote[y], result[y])
        BY <1>1 DEF RowsOK
      <4> QED
        BY <4>1, <4>2
    <3> QED
      BY <3>1, <3>2
  <2> QED
    BY <2>1 DEF RowsOK, Calls
<1>5. MarksOK(r)'
  <2>1. Marks(r) = {}
    BY <1>1 DEF MarksOK
  <2> QED
    BY <1>3, <2>1 DEF MarksOK
<1>6. AnswerOK(r)'
  BY <1>1 DEF AnswerOK
<1>7. qpc'[r] # "idle"
  OBVIOUS
<1> QED
  BY <1>2, <1>3, <1>4, <1>5, <1>6, <1>7, RequestKeeps

LEMMA InsurersKeep ==
  ASSUME QuotesInv, NEW r \in Requests, Quotes!FindActiveInsurers(r)
  PROVE  QuotesInv'
<1>1. qpc[r] = "insurers" /\ qpc'[r] = "create" /\ DOMAIN qpc' = Requests
      /\ \A q \in Requests \ {r} : qpc'[q] = qpc[q]
  BY DEF Quotes!FindActiveInsurers, Quotes!Goto, QuotesInv, QuotesTypeOK
<1>2. RowsOK(r) /\ MarksOK(r) /\ AnswerOK(r) /\ QuotesTypeOK
  BY DEF QuotesInv
<1>3. PICK active \in SUBSET Insurers : result' =
        [x \in Requests \X Insurers |->
           IF x \in Calls(r) /\ x[2] \in active THEN "calling" ELSE result[x]]
  BY DEF Quotes!FindActiveInsurers, Quotes!Rows, Quotes!Of, Calls
<1>4. QuotesTypeOK'
  BY <1>1, <1>2, <1>3 DEF QuotesTypeOK, Quotes!FindActiveInsurers
<1>5. \A q \in Requests \ {r} : \A x \in Calls(q) : quote'[x] = quote[x]
      /\ result'[x] = result[x]
  BY <1>3 DEF Calls, Quotes!FindActiveInsurers
<1>6. RowsOK(r)'
  <2>1. \A x \in Calls(r) : RowOK("create", quote[x], result'[x])
    BY <1>1, <1>2, <1>3 DEF RowsOK, RowOK, Calls
  <2> QED
    BY <1>1, <2>1 DEF RowsOK, Calls, Quotes!FindActiveInsurers
<1>7. \A q \in Requests : Marks(q)' = Marks(q)
  BY DEF Marks, Quotes!FindActiveInsurers
<1>8. MarksOK(r)' /\ AnswerOK(r)'
  BY <1>1, <1>2, <1>7 DEF MarksOK, AnswerOK, Quotes!FindActiveInsurers
<1> QED
  BY <1>1, <1>4, <1>5, <1>6, <1>7, <1>8, RequestKeeps DEF Quotes!FindActiveInsurers

LEMMA CreateKeeps ==
  ASSUME QuotesInv, NEW r \in Requests, Quotes!BulkCreate(r)
  PROVE  QuotesInv'
<1>1. qpc[r] = "create" /\ qpc'[r] = "call" /\ DOMAIN qpc' = Requests
      /\ \A q \in Requests \ {r} : qpc'[q] = qpc[q]
  BY DEF Quotes!BulkCreate, Quotes!Goto, QuotesInv, QuotesTypeOK
<1>2. RowsOK(r) /\ MarksOK(r) /\ AnswerOK(r) /\ QuotesTypeOK
  BY DEF QuotesInv
<1>3. quote' = [x \in Requests \X Insurers |->
                  IF x \in Calls(r) /\ result[x] = "calling" THEN "pending" ELSE quote[x]]
  BY DEF Quotes!BulkCreate, Quotes!Rows, Quotes!Of, Calls
<1>4. QuotesTypeOK'
  BY <1>1, <1>2, <1>3 DEF QuotesTypeOK, Quotes!BulkCreate
<1>5. \A q \in Requests \ {r} : \A x \in Calls(q) : quote'[x] = quote[x]
      /\ result'[x] = result[x]
  BY <1>3 DEF Calls, Quotes!BulkCreate
<1>6. RowsOK(r)'
  <2>1. \A x \in Calls(r) : RowOK("call", quote'[x], result[x])
    BY <1>1, <1>2, <1>3 DEF RowsOK, RowOK, Calls
  <2> QED
    BY <1>1, <2>1 DEF RowsOK, Calls, Quotes!BulkCreate
<1>7. \A q \in Requests : Marks(q)' = Marks(q)
  BY DEF Marks, Quotes!BulkCreate
<1>8. MarksOK(r)' /\ AnswerOK(r)'
  BY <1>1, <1>2, <1>7 DEF MarksOK, AnswerOK, Quotes!BulkCreate
<1> QED
  BY <1>1, <1>4, <1>5, <1>6, <1>7, <1>8, RequestKeeps DEF Quotes!BulkCreate

LEMMA MarkKeeps ==
  ASSUME QuotesInv, NEW r \in Requests, Quotes!MarkRecommended(r)
  PROVE  QuotesInv'
<1>1. PICK x \in Calls(r) : quote[x] = "success" /\ marked' = marked \union {x}
  BY DEF Quotes!MarkRecommended, Quotes!Priced, Quotes!Of, Quotes!Rows, Calls
<1>2. Quotes!Goto(r, "score", "audit") /\ UNCHANGED <<quote, result, answer>>
  BY DEF Quotes!MarkRecommended
<1>3. MarksOK(r) /\ AnswerOK(r) /\ Marks(r) = {} /\ QuotesTypeOK /\ qpc[r] = "score"
  BY <1>2 DEF QuotesInv, MarksOK, Quotes!Goto
<1>4. Marks(r)' = {x}
  BY <1>1, <1>3 DEF Marks, Calls
<1>5. \A q \in Requests \ {r} : Marks(q)' = Marks(q)
  BY <1>1 DEF Marks, Calls
<1>6. qpc'[r] = "audit" => MarksOK(r)' /\ AnswerOK(r)'
  BY <1>1, <1>2, <1>3, <1>4 DEF MarksOK, AnswerOK
<1>7. \A y \in Calls(r) :
        RowOK("score", quote[y], result[y]) => RowOK("audit", quote[y], result[y])
  BY DEF RowOK
<1>8. marked' \subseteq Requests \X Insurers /\ DOMAIN answer' = Requests
      /\ \A q \in Requests \ {r} : answer'[q] = answer[q]
  BY <1>1, <1>2, <1>3 DEF QuotesTypeOK, Calls
<1> QED
  BY <1>2, <1>5, <1>6, <1>7, <1>8, GotoKeeps

LEMMA RespondKeeps ==
  ASSUME QuotesInv, NEW r \in Requests, Quotes!Respond(r)
  PROVE  QuotesInv'
<1>1. Quotes!Goto(r, "find", "done") /\ UNCHANGED <<quote, marked, result>>
      /\ answer' = [answer EXCEPT ![r] =
           IF \E x \in Requests \X Insurers : quote[x] = "pending" THEN "pending"
           ELSE "complete"]
  BY DEF Quotes!Respond, Quotes!Rows
<1>2. RowsOK(r) /\ MarksOK(r) /\ QuotesTypeOK /\ qpc[r] = "find"
  BY <1>1 DEF QuotesInv, Quotes!Goto
<1>3. \A q \in Requests : Marks(q)' = Marks(q)
  BY <1>1 DEF Marks
<1>4. DOMAIN answer' = Requests /\ \A q \in Requests \ {r} : answer'[q] = answer[q]
  BY <1>1, <1>2 DEF QuotesTypeOK
<1>5. ASSUME answer'[r] = "pending"
      PROVE  \E q \in Requests \ {r} : qpc[q] # "idle"
  <2>1. PICK x \in Requests \X Insurers : quote[x] = "pending"
    BY <1>1, <1>2, <1>5 DEF QuotesTypeOK
  <2> PICK q \in Requests : q = x[1]
    OBVIOUS
  <2>2. RowOK(qpc[q], "pending", result[x])
    BY <2>1 DEF QuotesInv, RowsOK, Calls
  <2>3. qpc[q] # "idle" /\ q # r
    BY <1>2, <2>2 DEF RowOK
  <2> QED
    BY <2>3
<1>6. ASSUME qpc'[r] = "done"
      PROVE  MarksOK(r)' /\ AnswerOK(r)'
  <2>1. \A q \in Requests \ {r} : qpc'[q] = qpc[q]
    BY <1>1 DEF Quotes!Goto
  <2>2. AnswerOK(r)'
    BY <1>5, <1>6, <2>1 DEF AnswerOK
  <2>3. MarksOK(r)'
    BY <1>1, <1>2, <1>3, <1>6 DEF MarksOK, Calls
  <2> QED
    BY <2>2, <2>3
<1>7. \A y \in Calls(r) :
        RowOK("find", quote[y], result[y]) => RowOK("done", quote[y], result[y])
  BY DEF RowOK
<1>8. marked' \subseteq Requests \X Insurers
  BY <1>1, <1>2 DEF QuotesTypeOK
<1> QED
  BY <1>1, <1>3, <1>4, <1>6, <1>7, <1>8, GotoKeeps

LEMMA FailureKeeps ==
  ASSUME QuotesInv, NEW r \in Requests, NEW from, Quotes!Goto(r, from, "failed"),
         answer' = [answer EXCEPT ![r] = "error"], UNCHANGED <<quote, marked, result>>
  PROVE  QuotesInv'
<1>1. \A q \in Requests : Marks(q)' = Marks(q)
  BY DEF Marks
<1>2. MarksOK(r) /\ QuotesTypeOK
  BY DEF QuotesInv
<1>3. ASSUME qpc'[r] = "failed"
      PROVE  MarksOK(r)' /\ AnswerOK(r)'
  <2>1. answer'[r] = "error"
    BY <1>2 DEF QuotesTypeOK
  <2> QED
    BY <1>1, <1>2, <1>3, <2>1 DEF MarksOK, AnswerOK
<1>4. \A x \in Calls(r) : RowOK("failed", quote[x], result[x])
  BY DEF RowOK
<1>5. marked' \subseteq Requests \X Insurers /\ DOMAIN answer' = Requests
      /\ \A q \in Requests \ {r} : answer'[q] = answer[q]
  BY <1>2 DEF QuotesTypeOK
<1> QED
  BY <1>1, <1>3, <1>4, <1>5, GotoKeeps

(* A step of r that only moves it on. *)
LEMMA MovesOnKeep ==
  ASSUME QuotesInv, NEW r \in Requests, NEW from, NEW to, to # "idle",
         from \in {"idle", "check", "call", "store", "audit"},
         Quotes!Goto(r, from, to), UNCHANGED <<quote, result, marked, answer>>,
         \A x \in Calls(r) : RowOK(from, quote[x], result[x]) => RowOK(to, quote[x], result[x]),
         MarksOK(r) /\ qpc[r] = from /\ qpc'[r] = to => MarksOK(r)'
  PROVE  QuotesInv'
<1>1. \A q \in Requests : Marks(q)' = Marks(q)
  BY DEF Marks
<1>2. MarksOK(r) /\ AnswerOK(r) /\ QuotesTypeOK /\ qpc[r] = from
  BY DEF QuotesInv, Quotes!Goto
<1>3. qpc'[r] = to => MarksOK(r)' /\ AnswerOK(r)'
  BY <1>2 DEF AnswerOK
<1>4. marked' \subseteq Requests \X Insurers /\ DOMAIN answer' = Requests
      /\ \A q \in Requests \ {r} : answer'[q] = answer[q]
  BY <1>2 DEF QuotesTypeOK
<1> QED
  BY <1>1, <1>3, <1>4, GotoKeeps

LEMMA QuotesStep ==
  ASSUME QuotesInv, [Quotes!Next]_Quotes!vars
  PROVE  QuotesInv'
<1>1. CASE UNCHANGED <<quote, marked, result, qpc, answer>>
  BY <1>1 DEF QuotesInv, QuotesTypeOK, RowsOK, RowOK, MarksOK, AnswerOK, Calls, Marks
<1>2. ASSUME NEW r \in Requests, Quotes!Submit(r) PROVE QuotesInv'
  <2>1. Quotes!Goto(r, "idle", "check") /\ UNCHANGED <<quote, result, marked, answer>>
    BY <1>2 DEF Quotes!Submit
  <2>2. \A x \in Calls(r) :
          RowOK("idle", quote[x], result[x]) => RowOK("check", quote[x], result[x])
    BY DEF RowOK
  <2>3. MarksOK(r) /\ qpc[r] = "idle" /\ qpc'[r] = "check" => MarksOK(r)'
    BY <2>1 DEF MarksOK, Marks
  <2> QED
    BY <2>1, <2>2, <2>3, MovesOnKeep
<1>3. ASSUME NEW r \in Requests, Quotes!CheckTenant(r) PROVE QuotesInv'
  <2>1. CASE Quotes!Goto(r, "check", "insurers") /\ UNCHANGED answer
    <3>1. UNCHANGED <<quote, result, marked, answer>>
      BY <1>3, <2>1 DEF Quotes!CheckTenant
    <3>2. \A x \in Calls(r) :
            RowOK("check", quote[x], result[x]) => RowOK("insurers", quote[x], result[x])
      BY DEF RowOK
    <3>3. MarksOK(r) /\ qpc[r] = "check" /\ qpc'[r] = "insurers" => MarksOK(r)'
      BY <3>1 DEF MarksOK, Marks
    <3> QED
      BY <2>1, <3>1, <3>2, <3>3, MovesOnKeep
  <2>2. CASE Quotes!Goto(r, "check", "failed") /\ answer' = [answer EXCEPT ![r] = "error"]
    BY <1>3, <2>2, FailureKeeps DEF Quotes!CheckTenant
  <2> QED
    BY <1>3, <2>1, <2>2 DEF Quotes!CheckTenant
<1>4. ASSUME NEW r \in Requests, Quotes!AllSettled(r) PROVE QuotesInv'
  <2>1. Quotes!Goto(r, "call", "store") /\ UNCHANGED <<quote, result, marked, answer>>
    BY <1>4 DEF Quotes!AllSettled
  <2>2. \A x \in Calls(r) :
          RowOK("call", quote[x], result[x]) => RowOK("store", quote[x], result[x])
    <3>1. \A x \in Calls(r) : result[x] # "calling"
      BY <1>4 DEF Quotes!AllSettled, Quotes!Of, Quotes!Rows, Calls
    <3> QED
      BY <3>1 DEF RowOK
  <2>3. MarksOK(r) /\ qpc[r] = "call" /\ qpc'[r] = "store" => MarksOK(r)'
    BY <2>1 DEF MarksOK, Marks
  <2> QED
    BY <2>1, <2>2, <2>3, MovesOnKeep
<1>5. ASSUME NEW r \in Requests, Quotes!ScoreOffers(r) PROVE QuotesInv'
  <2>1. UNCHANGED <<quote, result, marked, answer>>
    BY <1>5 DEF Quotes!ScoreOffers
  <2>2. \A x \in Calls(r) : result[x] \in {"none", "stored"}
    BY <1>5 DEF Quotes!ScoreOffers, Quotes!Of, Quotes!Rows, Calls
  <2>3. PICK to \in {"score", "find"} : Quotes!Goto(r, "store", to)
          /\ (to = "score" => \E x \in Calls(r) : quote[x] = "success")
          /\ (to = "find" => \A x \in Calls(r) : quote[x] # "success")
    BY <1>5 DEF Quotes!ScoreOffers, Quotes!Priced, Quotes!Of, Quotes!Rows, Calls
  <2>4. \A x \in Calls(r) :
          RowOK("store", quote[x], result[x]) => RowOK(to, quote[x], result[x])
    BY <2>2, <2>3 DEF RowOK
  <2>5. MarksOK(r) /\ qpc[r] = "store" /\ qpc'[r] = to => MarksOK(r)'
    <3>1. Marks(r)' = Marks(r) /\ Calls(r)' = Calls(r)
      BY <2>1 DEF Marks, Calls
    <3>2. (\A x \in Calls(r) : quote'[x] = quote[x])
      BY <2>1
    <3> QED
      BY <2>1, <2>3, <3>1, <3>2 DEF MarksOK
  <2> QED
    BY <2>1, <2>3, <2>4, <2>5, MovesOnKeep
<1>6. ASSUME NEW r \in Requests, Quotes!LogScoringAudit(r) PROVE QuotesInv'
  <2>1. Quotes!Goto(r, "audit", "find") /\ UNCHANGED <<quote, result, marked, answer>>
    BY <1>6 DEF Quotes!LogScoringAudit
  <2>2. \A x \in Calls(r) :
          RowOK("audit", quote[x], result[x]) => RowOK("find", quote[x], result[x])
    BY DEF RowOK
  <2>3. MarksOK(r) /\ qpc[r] = "audit" /\ qpc'[r] = "find" => MarksOK(r)'
    BY <2>1 DEF MarksOK, Marks
  <2> QED
    BY <2>1, <2>2, <2>3, MovesOnKeep
<1>7. ASSUME NEW r \in Requests, Quotes!RequestFails(r) PROVE QuotesInv'
  BY <1>7, FailureKeeps DEF Quotes!RequestFails
<1>8. ASSUME NEW x \in Requests \X Insurers, Quotes!CallSettles(x) PROVE QuotesInv'
  <2>1. PICK s \in {"price", "timeout", "error"} : result' = [result EXCEPT ![x] = s]
    BY <1>8 DEF Quotes!CallSettles
  <2>2. QuotesTypeOK'
    BY <1>8, <2>1 DEF Quotes!CallSettles, QuotesInv, QuotesTypeOK
  <2>3. RowOK("call", quote[x], result[x])
    <3> PICK r \in Requests : r = x[1]
      OBVIOUS
    <3> QED
      BY <1>8 DEF Quotes!CallSettles, QuotesInv, RowsOK, Calls
  <2>4. RowOK("call", quote'[x], result'[x])
    BY <1>8, <2>1, <2>3 DEF Quotes!CallSettles, RowOK, QuotesInv, QuotesTypeOK
  <2>5. \A y \in (Requests \X Insurers) \ {x} : quote'[y] = quote[y] /\ result'[y] = result[y]
    BY <1>8, <2>1 DEF Quotes!CallSettles, QuotesInv, QuotesTypeOK
  <2> QED
    BY <1>8, <2>2, <2>4, <2>5, RowKeeps DEF Quotes!CallSettles
<1>9. ASSUME NEW x \in Requests \X Insurers, Quotes!StoreResult(x) PROVE QuotesInv'
  <2>1. PICK s \in {"success", "timeout", "error"} :
          quote' = [quote EXCEPT ![x] = s] /\ result' = [result EXCEPT ![x] = "stored"]
    BY <1>9 DEF Quotes!StoreResult
  <2>2. QuotesTypeOK'
    BY <1>9, <2>1 DEF Quotes!StoreResult, QuotesInv, QuotesTypeOK
  <2>3. RowOK("store", quote'[x], result'[x])
    BY <2>1 DEF RowOK, QuotesInv, QuotesTypeOK
  <2>4. \A y \in (Requests \X Insurers) \ {x} : quote'[y] = quote[y] /\ result'[y] = result[y]
    BY <2>1 DEF QuotesInv, QuotesTypeOK
  <2> QED
    BY <1>9, <2>2, <2>3, <2>4, RowKeeps DEF Quotes!StoreResult
<1>10. CASE UNCHANGED Quotes!vars
  BY <1>1, <1>10 DEF Quotes!vars
<1>11. CASE Quotes!Next
  BY <1>2, <1>3, <1>4, <1>5, <1>6, <1>7, <1>8, <1>9, <1>11,
     InsurersKeep, CreateKeeps, MarkKeeps, RespondKeeps
     DEF Quotes!Next, Quotes!Step, Quotes!Rows
<1> QED
  BY <1>10, <1>11

LEMMA OffersFollow ==
  ASSUME QuotesInv
  PROVE  Quotes!OffersExplained
<1> DEFINE Rows == Requests \X Insurers
<1>1. Quotes!Rows = Rows /\ Quotes!Pending = {x \in Rows : quote[x] = "pending"}
      /\ \A r \in Requests : /\ Quotes!Of(r) = Calls(r)
                             /\ Quotes!Priced(r) = {x \in Calls(r) : quote[x] = "success"}
                             /\ marked \intersect Calls(r) = Marks(r)
  BY DEF Quotes!Rows, Quotes!Pending, Quotes!Of, Quotes!Priced, Calls, Marks, QuotesInv,
         QuotesTypeOK
<1>2. ASSUME NEW x \in Rows, quote[x] = "pending"
      PROVE  qpc[x[1]] # "done"
  <2> PICK r \in Requests : r = x[1]
    OBVIOUS
  <2>1. RowOK(qpc[r], "pending", result[x])
    BY <1>2 DEF QuotesInv, RowsOK, Calls
  <2> QED
    BY <2>1 DEF RowOK
<1>3. ASSUME NEW r \in Requests
      PROVE  Cardinality(Marks(r)) <= 1
  <2>1. CASE Marks(r) = {}
    BY <2>1, FS_EmptySet
  <2>2. CASE Marks(r) # {}
    <3>1. PICK x \in Marks(r) : Marks(r) = {x}
      BY <2>2 DEF QuotesInv, MarksOK
    <3>2. Cardinality({x}) = 1
      BY FS_Singleton
    <3>3. Cardinality(Marks(r)) = 1
      BY <3>1, <3>2
    <3> QED
      BY <3>3
  <2> QED
    BY <2>1, <2>2
<1>4. ASSUME NEW r \in Requests
      PROVE  \A x \in Marks(r) : x \in Calls(r) /\ quote[x] = "success"
  BY DEF QuotesInv, QuotesTypeOK, MarksOK, Marks, Calls
<1>5. ASSUME NEW r \in Requests, answer[r] = "complete", NEW x \in Calls(r),
             quote[x] = "success"
      PROVE  Marks(r) # {}
  BY <1>5 DEF QuotesInv, AnswerOK, MarksOK
<1>6. ASSUME NEW r \in Requests, \A q \in Requests \ {r} : qpc[q] = "idle"
      PROVE  /\ answer[r] # "pending"
             /\ \A x \in Calls(r) : quote[x] = "success" => Quotes!Ranked(x) = {x}
  <2>1. answer[r] # "pending"
    BY <1>6 DEF QuotesInv, AnswerOK
  <2>2. ASSUME NEW x \in Calls(r), quote[x] = "success"
        PROVE  Quotes!Ranked(x) = {x}
    <3>1. ASSUME NEW y \in Rows, quote[y] # "none", y[2] = x[2]
          PROVE  y = x
      <4> PICK q \in Requests : q = y[1]
        OBVIOUS
      <4>1. RowOK(qpc[q], quote[y], result[y])
        BY DEF QuotesInv, RowsOK, Calls
      <4>2. q = r
        BY <1>6, <3>1, <4>1 DEF RowOK
      <4> QED
        <5>1. x \in Requests \X Insurers /\ x[1] = r
          BY DEF Calls
        <5>2. x = <<x[1], x[2]>> /\ y = <<y[1], y[2]>>
          BY <5>1
        <5> QED
          BY <3>1, <4>2, <5>1, <5>2
    <3> QED
      BY <1>1, <2>2, <3>1 DEF Quotes!Ranked, Calls
  <2> QED
    BY <2>1, <2>2
<1>7. ASSUME Quotes!BulkStatus = "success", NEW r \in Requests, NEW x \in Calls(r)
      PROVE  quote[x] \in {"none", "success"}
  <2>1. x \in Rows
    BY DEF Calls
  <2>2. {y \in Rows : quote[y] # "none"
        /\ quote[y] = "success"} = {y \in Rows : quote[y] # "none"}
    BY <1>1, <1>7 DEF Quotes!BulkStatus
  <2> QED
    BY <2>1, <2>2
<1>8. \A r \in Requests : Cardinality(marked \intersect Quotes!Of(r)) <= 1
  BY <1>1, <1>3
<1>9. \A x \in Quotes!Pending : qpc[x[1]] # "done"
  BY <1>1, <1>2
<1>10. ASSUME NEW r \in Requests
       PROVE  /\ marked \intersect Quotes!Of(r) \subseteq Quotes!Priced(r)
              /\ answer[r] = "complete" /\ Quotes!Priced(r) # {} =>
                   marked \intersect Quotes!Of(r) # {}
  BY <1>1, <1>4, <1>5
<1>11. ASSUME NEW r \in Requests, \A q \in Requests \ {r} : qpc[q] = "idle"
       PROVE  /\ answer[r] # "pending"
              /\ \A x \in Quotes!Priced(r) : Quotes!Ranked(x) = {x}
              /\ Quotes!BulkStatus = "success" =>
                   \A x \in Quotes!Of(r) : quote[x] \in {"none", "success"}
  BY <1>1, <1>6, <1>7, <1>11
<1> QED
  BY <1>8, <1>9, <1>10, <1>11 DEF Quotes!OffersExplained, Quotes!Cardinality, Cardinality

(* Each request of a session gets one recommended offer, a priced one, and *)
(* an answer that leaves nothing pending but for another request's sake    *)
(* (quotes.service.ts:125-183, 206-256).                                   *)
THEOREM OffersInTheApi == RequestsSpec => []OffersExplained
<1> DEFINE Inv == side = "quotes" => QuotesInv
<1>1. RequestsInit => Inv
  BY QuotesInit DEF RequestsInit
<1>2. ASSUME Inv, [RequestsNext]_<<side, faults, apiVars, screenVars>>
      PROVE  Inv'
  <2> SUFFICES ASSUME side' = "quotes"
               PROVE  QuotesInv'
    OBVIOUS
  <2>1. side = "quotes" /\ QuotesInv
    BY <1>2 DEF RequestsNext
  <2>2. Quotes!Next \/ UNCHANGED <<faults, quoteVars>>
    BY <1>2, <2>1 DEF RequestsNext, ApiNext, StaffNext, ScreensNext, apiVars
  <2>3. [Quotes!Next]_Quotes!vars
    BY <2>2 DEF quoteVars, Quotes!vars
  <2> QED
    BY <2>1, <2>3, QuotesStep
<1>3. Inv => OffersExplained
  BY OffersFollow DEF OffersExplained
<1> QED
  BY <1>1, <1>2, <1>3, PTL DEF RequestsSpec

-----------------------------------------------------------------------------
(***************************************************************************)
(* The plan and the flags of a tenant.  What an actor is about to write    *)
(* suits the row it has read; so as long as each writes over the row it    *)
(* read, the flags are allowed.  Whatever the actors read, what the cached *)
(* configuration has wrong is about to be cleared or has slipped.          *)
(***************************************************************************)
Statements == {"idle", "upgrade", "schedule", "enforce", "flags", "clear", "cache"}

SettingsTypeOK ==
  /\ tenant \in Settings!Row /\ pending \in Plans \union {None}
  /\ cache \in Settings!Row \union {None}
  /\ tpc \in [SettingsActors -> Statements]
  /\ DOMAIN tcopy = SettingsActors /\ DOMAIN goal = SettingsActors
  /\ DOMAIN flips = SettingsActors
  /\ ttorn \in BOOLEAN

ActorOK(a) ==
  /\ tpc[a] \in {"upgrade", "schedule", "enforce", "flags", "cache"} =>
       tcopy[a] \in Settings!Row
  /\ tpc[a] \in {"upgrade", "schedule", "enforce"} => goal[a] \in Plans
  /\ tpc[a] = "schedule" => goal[a] < tcopy[a].plan
  /\ tpc[a] = "flags" =>
       /\ flips[a] \subseteq Flags
       /\ flips[a] \ tcopy[a].features \subseteq Settings!Allowed(tcopy[a].plan)

PlanOK ==
  /\ tenant.features \subseteq Settings!Allowed(tenant.plan)
  /\ pending # None => pending < tenant.plan

CacheOK ==
  \/ Settings!Wrong(cache) \subseteq slips
  \/ \E a \in SettingsActors : tpc[a] \in {"flags", "clear"}

SettingsInv ==
  /\ SettingsTypeOK
  /\ \A a \in SettingsActors : ActorOK(a)
  /\ ttorn = TRUE \/ PlanOK
  /\ CacheOK

LEMMA SettingsInit == Settings!Init => SettingsInv
<1> SUFFICES ASSUME Settings!Init PROVE SettingsInv
  OBVIOUS
<1>1. SettingsTypeOK
  BY DEF Settings!Init, SettingsTypeOK, Statements
<1>2. \A a \in SettingsActors : tpc[a] = "idle"
  BY DEF Settings!Init
<1>3. PlanOK /\ CacheOK
  BY DEF Settings!Init, PlanOK, CacheOK, Settings!Wrong
<1> QED
  BY <1>1, <1>2, <1>3 DEF SettingsInv, ActorOK

(* A step of one actor. *)
LEMMA ActorKeeps ==
  ASSUME SettingsInv, NEW a \in SettingsActors, SettingsTypeOK', ActorOK(a)',
         \A b \in SettingsActors \ {a} :
           tpc'[b] = tpc[b] /\ tcopy'[b] = tcopy[b] /\ goal'[b] = goal[b]
           /\ flips'[b] = flips[b],
         ttorn' = TRUE \/ PlanOK', CacheOK'
  PROVE  SettingsInv'
<1>1. ASSUME NEW b \in SettingsActors \ {a}
      PROVE  ActorOK(b)'
  <2>1. ActorOK(b)
    BY DEF SettingsInv
  <2> QED
    BY <2>1 DEF ActorOK
<1> QED
  BY <1>1 DEF SettingsInv

(* A step that leaves the row and the cache, of an actor with nothing to   *)
(* clear.                                                                  *)
LEMMA PlanStays ==
  ASSUME SettingsInv, UNCHANGED <<tenant, pending>>,
         ttorn' = TRUE \/ ttorn' = ttorn
  PROVE  ttorn' = TRUE \/ PlanOK'
  BY DEF SettingsInv, PlanOK, Settings!Allowed

LEMMA CacheStays ==
  ASSUME SettingsInv, UNCHANGED <<tenant, cache, slips>>, NEW a \in SettingsActors,
         tpc[a] \notin {"flags", "clear"},
         \A b \in SettingsActors \ {a} : tpc'[b] = tpc[b]
  PROVE  CacheOK'
  BY DEF SettingsInv, CacheOK, Settings!Wrong, Settings!SamePlan

(* Everything the cache has wrong is counted. *)
LEMMA CacheCounted ==
  ASSUME UNCHANGED <<tenant, cache>>, slips' = slips \union Settings!Wrong(cache)
  PROVE  CacheOK'
  BY DEF CacheOK, Settings!Wrong, Settings!SamePlan

(* What Goto, Read, Forget and Torn do, one actor at a time. *)
LEMMA Moved ==
  ASSUME SettingsTypeOK, NEW a \in SettingsActors, NEW from, NEW to, Settings!Goto(a, from, to)
  PROVE  /\ tpc[a] = from /\ tpc'[a] = to
         /\ to \in Statements => tpc' \in [SettingsActors -> Statements]
         /\ \A b \in SettingsActors \ {a} : tpc'[b] = tpc[b]
  BY DEF SettingsTypeOK, Settings!Goto

LEMMA Forgotten ==
  ASSUME SettingsTypeOK, NEW a \in SettingsActors, Settings!Forget(a)
  PROVE  /\ DOMAIN tcopy' = SettingsActors /\ DOMAIN goal' = SettingsActors
         /\ \A b \in SettingsActors \ {a} : tcopy'[b] = tcopy[b] /\ goal'[b] = goal[b]
  BY DEF SettingsTypeOK, Settings!Forget

LEMMA WasRead ==
  ASSUME SettingsTypeOK, NEW a \in SettingsActors, Settings!Read(a)
  PROVE  /\ DOMAIN tcopy' = SettingsActors /\ tcopy'[a] = tenant
         /\ \A b \in SettingsActors \ {a} : tcopy'[b] = tcopy[b]
  BY DEF SettingsTypeOK, Settings!Read

LEMMA NotTorn ==
  ASSUME NEW a \in SettingsActors, Settings!Torn(a)
  PROVE  ttorn' \in BOOLEAN /\ (ttorn' # TRUE => ttorn # TRUE /\ tcopy[a].plan = tenant.plan)
  BY Zenon DEF Settings!Torn, Settings!SamePlan

(* changeTier's upgrade and the nightly job's downgrade. *)
LEMMA ApplyKeeps ==
  ASSUME SettingsInv, NEW a \in SettingsActors, NEW from \in {"upgrade", "enforce"},
         Settings!ApplyPlan(a, from)
  PROVE  SettingsInv'
<1>1. SettingsTypeOK /\ ActorOK(a)
  BY DEF SettingsInv
<1>2. Settings!Goto(a, from, "clear") /\ Settings!Torn(a) /\ Settings!Forget(a)
      /\ tenant' = [tenant EXCEPT !.plan = goal[a],
                                  !.features = Settings!ForPlan(tcopy[a], goal[a])]
      /\ pending' = None /\ UNCHANGED <<cache, flips>>
  BY DEF Settings!ApplyPlan
<1>3. /\ tpc[a] = from /\ tpc'[a] = "clear" /\ tpc' \in [SettingsActors -> Statements]
      /\ \A b \in SettingsActors \ {a} : tpc'[b] = tpc[b]
  BY <1>1, <1>2, Moved DEF Statements
<1>4. /\ DOMAIN tcopy' = SettingsActors /\ DOMAIN goal' = SettingsActors
      /\ \A b \in SettingsActors \ {a} : tcopy'[b] = tcopy[b] /\ goal'[b] = goal[b]
  BY <1>1, <1>2, Forgotten
<1>5. tcopy[a] \in Settings!Row /\ goal[a] \in Plans
  BY <1>1, <1>3 DEF ActorOK
<1>6. tenant' \in Settings!Row /\ tenant'.features \subseteq Settings!Allowed(tenant'.plan)
  <2> DEFINE G == tcopy[a].features \intersect Settings!Allowed(goal[a])
  <2>1. tcopy[a].features \in SUBSET Flags /\ tenant.status \in {"active", "revoked"}
        /\ tenant = [plan |-> tenant.plan, features |-> tenant.features,
                     status |-> tenant.status]
    BY <1>1, <1>5 DEF SettingsTypeOK, Settings!Row
  <2>2. tenant' = [plan |-> goal[a], features |-> G, status |-> tenant.status]
    BY <1>2, <2>1 DEF Settings!ForPlan
  <2>3. G \in SUBSET Flags
    BY <2>1
  <2>4. tenant'.features = G /\ tenant'.plan = goal[a]
    BY <2>2
  <2>5. tenant' \in Settings!Row
    BY <1>5, <2>1, <2>2, <2>3 DEF Settings!Row
  <2> QED
    BY <2>4, <2>5
<1>7. ttorn' \in BOOLEAN
  BY <1>2, NotTorn
<1>8. SettingsTypeOK'
  BY <1>1, <1>2, <1>3, <1>4, <1>6, <1>7 DEF SettingsTypeOK
<1>9. ActorOK(a)'
  BY <1>3 DEF ActorOK
<1>10. PlanOK' /\ CacheOK'
  BY <1>2, <1>3, <1>6 DEF PlanOK, CacheOK, Settings!Allowed
<1> QED
  BY <1>2, <1>3, <1>4, <1>8, <1>9, <1>10, ActorKeeps

LEMMA ScheduleKeeps ==
  ASSUME SettingsInv, NEW a \in SettingsActors, Settings!SchedulePendingDowngrade(a)
  PROVE  SettingsInv'
<1>1. SettingsTypeOK /\ ActorOK(a)
  BY DEF SettingsInv
<1>2. Settings!Goto(a, "schedule", "idle") /\ Settings!Torn(a) /\ Settings!Forget(a)
      /\ pending' = goal[a] /\ UNCHANGED <<tenant, cache, flips, slips>>
  BY DEF Settings!SchedulePendingDowngrade
<1>3. /\ tpc[a] = "schedule" /\ tpc'[a] = "idle" /\ tpc' \in [SettingsActors -> Statements]
      /\ \A b \in SettingsActors \ {a} : tpc'[b] = tpc[b]
  BY <1>1, <1>2, Moved DEF Statements
<1>4. /\ DOMAIN tcopy' = SettingsActors /\ DOMAIN goal' = SettingsActors
      /\ \A b \in SettingsActors \ {a} : tcopy'[b] = tcopy[b] /\ goal'[b] = goal[b]
  BY <1>1, <1>2, Forgotten
<1>5. goal[a] \in Plans /\ goal[a] < tcopy[a].plan
  BY <1>1, <1>3 DEF ActorOK
<1>6. ttorn' \in BOOLEAN /\ (ttorn' # TRUE => ttorn # TRUE /\ tcopy[a].plan = tenant.plan)
  BY <1>2, NotTorn
<1>7. SettingsTypeOK'
  BY <1>1, <1>2, <1>3, <1>4, <1>5, <1>6 DEF SettingsTypeOK
<1>8. ActorOK(a)'
  BY <1>3 DEF ActorOK
<1>9. ASSUME ttorn' # TRUE
      PROVE  PlanOK'
  <2>1. ttorn # TRUE /\ tcopy[a].plan = tenant.plan
    BY <1>6, <1>9
  <2> QED
    BY <1>2, <1>5, <2>1 DEF SettingsInv, PlanOK, Settings!Allowed
<1>10. CacheOK'
  BY <1>2, <1>3, CacheStays
<1> QED
  BY <1>2, <1>3, <1>4, <1>7, <1>8, <1>9, <1>10, ActorKeeps

LEMMA ConfigKeeps ==
  ASSUME SettingsInv, NEW a \in SettingsActors, Settings!SetConfigCache(a)
  PROVE  SettingsInv'
<1>1. SettingsTypeOK /\ ActorOK(a)
  BY DEF SettingsInv
<1>2. Settings!Goto(a, "cache", "idle") /\ Settings!Forget(a) /\ cache' = tcopy[a]
      /\ slips' = Settings!Wrong(tcopy[a]) /\ UNCHANGED <<tenant, pending, flips, ttorn>>
  BY DEF Settings!SetConfigCache
<1>3. /\ tpc[a] = "cache" /\ tpc'[a] = "idle" /\ tpc' \in [SettingsActors -> Statements]
      /\ \A b \in SettingsActors \ {a} : tpc'[b] = tpc[b]
  BY <1>1, <1>2, Moved DEF Statements
<1>4. /\ DOMAIN tcopy' = SettingsActors /\ DOMAIN goal' = SettingsActors
      /\ \A b \in SettingsActors \ {a} : tcopy'[b] = tcopy[b] /\ goal'[b] = goal[b]
  BY <1>1, <1>2, Forgotten
<1>5. tcopy[a] \in Settings!Row
  BY <1>1, <1>3 DEF ActorOK
<1>6. SettingsTypeOK'
  BY <1>1, <1>2, <1>3, <1>4, <1>5 DEF SettingsTypeOK
<1>7. ActorOK(a)'
  BY <1>3 DEF ActorOK
<1>8. CacheOK'
  BY <1>2 DEF CacheOK, Settings!Wrong, Settings!SamePlan
<1>9. ttorn' = TRUE \/ PlanOK'
  BY <1>2, PlanStays
<1> QED
  BY <1>2, <1>3, <1>4, <1>6, <1>7, <1>8, <1>9, ActorKeeps

LEMMA FlagKeeps ==
  ASSUME SettingsInv, NEW a \in SettingsActors, Settings!UpdateFlag(a)
  PROVE  SettingsInv'
<1>1. SettingsTypeOK /\ ActorOK(a) /\ tpc[a] = "flags"
  BY DEF SettingsInv, Settings!UpdateFlag
<1>2. /\ tcopy[a] \in Settings!Row /\ flips[a] \subseteq Flags
      /\ flips[a] \ tcopy[a].features \subseteq Settings!Allowed(tcopy[a].plan)
  BY <1>1 DEF ActorOK
<1>3. PICK f \in flips[a] :
        /\ ttorn' = (ttorn \/ tcopy[a].plan # tenant.plan
                       \/ (f \in tenant.features) = (f \notin tcopy[a].features))
        /\ tenant' = [tenant EXCEPT !.features = IF f \notin tcopy[a].features THEN @ \union {f}
                                                 ELSE @ \ {f}]
        /\ flips' = [flips EXCEPT ![a] = @ \ {f}]
  BY Zenon DEF Settings!UpdateFlag
<1>4. ttorn' \in BOOLEAN /\ (ttorn' # TRUE => ttorn # TRUE /\ tcopy[a].plan = tenant.plan)
  BY <1>3, Zenon
<1>5. /\ tenant' \in Settings!Row /\ tenant'.plan = tenant.plan
      /\ tenant'.features \subseteq tenant.features
           \union (IF f \notin tcopy[a].features THEN {f} ELSE {})
  <2> DEFINE G == IF f \notin tcopy[a].features THEN tenant.features \union {f}
                  ELSE tenant.features \ {f}
  <2>1. tenant.features \in SUBSET Flags /\ tenant.plan \in Plans
        /\ tenant.status \in {"active", "revoked"}
        /\ tenant = [plan |-> tenant.plan, features |-> tenant.features,
                     status |-> tenant.status]
    BY <1>1 DEF SettingsTypeOK, Settings!Row
  <2>2. tenant' = [plan |-> tenant.plan, features |-> G, status |-> tenant.status]
    BY <1>3, <2>1
  <2>3. G \in SUBSET Flags
    BY <1>2, <2>1
  <2> QED
    BY <2>2, <2>3, <2>1 DEF Settings!Row
<1>6. /\ DOMAIN flips' = SettingsActors /\ flips'[a] = flips[a] \ {f}
      /\ \A b \in SettingsActors \ {a} : flips'[b] = flips[b]
  BY <1>1, <1>3 DEF SettingsTypeOK
<1>7. \/ Settings!Goto(a, "flags", "clear") /\ Settings!Forget(a)
      \/ UNCHANGED <<tpc, tcopy, goal>>
  BY DEF Settings!UpdateFlag
<1>8. /\ tpc' \in [SettingsActors -> Statements] /\ tpc'[a] \in {"flags", "clear"}
      /\ \A b \in SettingsActors \ {a} : tpc'[b] = tpc[b]
  BY <1>1, <1>7, Moved DEF Statements, SettingsTypeOK
<1>9. /\ DOMAIN tcopy' = SettingsActors /\ DOMAIN goal' = SettingsActors
      /\ \A b \in SettingsActors \ {a} : tcopy'[b] = tcopy[b] /\ goal'[b] = goal[b]
  BY <1>1, <1>7, Forgotten DEF SettingsTypeOK
<1>10. UNCHANGED <<pending, cache>>
  BY DEF Settings!UpdateFlag
<1>11. SettingsTypeOK'
  BY <1>1, <1>4, <1>5, <1>6, <1>8, <1>9, <1>10 DEF SettingsTypeOK
<1>12. ActorOK(a)'
  <2>1. tpc'[a] = "flags" => UNCHANGED <<tpc, tcopy, goal>>
    BY <1>1, <1>7, Moved
  <2> QED
    BY <1>2, <1>6, <1>8, <2>1 DEF ActorOK, Settings!Allowed
<1>13. ASSUME ttorn' # TRUE
       PROVE  PlanOK'
  <2>1. ttorn # TRUE /\ tcopy[a].plan = tenant.plan
    BY <1>4, <1>13
  <2>2. PlanOK
    BY <2>1 DEF SettingsInv
  <2>3. f \in tcopy[a].features \/ f \in Settings!Allowed(tenant.plan)
    BY <1>2, <2>1
  <2>4. tenant'.features \subseteq Settings!Allowed(tenant.plan)
    BY <1>5, <2>2, <2>3 DEF PlanOK
  <2> QED
    BY <1>5, <1>10, <2>2, <2>4 DEF PlanOK, Settings!Allowed
<1>14. CacheOK'
  BY <1>8 DEF CacheOK
<1> QED
  BY <1>6, <1>8, <1>9, <1>11, <1>12, <1>13, <1>14, ActorKeeps

(* A write of the status alone. *)
LEMMA StatusWritten ==
  ASSUME SettingsInv, Settings!WriteStatus
  PROVE  /\ tenant' \in Settings!Row
         /\ tenant'.plan = tenant.plan /\ tenant'.features = tenant.features
         /\ ttorn' = TRUE \/ PlanOK'
<1>1. PICK s \in {"active", "revoked"} : tenant' = [tenant EXCEPT !.status = s]
  BY DEF Settings!WriteStatus
<1>2. UNCHANGED <<pending, ttorn>>
  BY DEF Settings!WriteStatus
<1>3. tenant' \in Settings!Row
      /\ tenant'.plan = tenant.plan /\ tenant'.features = tenant.features
  BY <1>1 DEF SettingsInv, SettingsTypeOK, Settings!Row
<1> QED
  BY <1>2, <1>3 DEF SettingsInv, PlanOK, Settings!Allowed

LEMMA UpdateStatusKeeps ==
  ASSUME SettingsInv, NEW a \in SettingsActors, Settings!UpdateTenantStatus(a)
  PROVE  SettingsInv'
<1>1. SettingsTypeOK
  BY DEF SettingsInv
<1>2. Settings!Goto(a, "idle", "clear") /\ Settings!WriteStatus
      /\ UNCHANGED <<pending, cache, tcopy, goal, flips, ttorn>>
  BY DEF Settings!UpdateTenantStatus, Settings!WriteStatus
<1>3. /\ tpc'[a] = "clear" /\ tpc' \in [SettingsActors -> Statements]
      /\ \A b \in SettingsActors \ {a} : tpc'[b] = tpc[b]
  BY <1>1, <1>2, Moved DEF Statements
<1>4. tenant' \in Settings!Row /\ (ttorn' = TRUE \/ PlanOK')
  BY <1>2, StatusWritten
<1>5. SettingsTypeOK'
  BY <1>1, <1>2, <1>3, <1>4 DEF SettingsTypeOK
<1>6. ActorOK(a)' /\ CacheOK'
  BY <1>3 DEF ActorOK, CacheOK
<1> QED
  BY <1>2, <1>3, <1>4, <1>5, <1>6, ActorKeeps

(* What the cache has wrong grows by the status only, and that is counted. *)
LEMMA StripeStatusKeeps ==
  ASSUME SettingsInv, Settings!StatusFollowsStripe
  PROVE  SettingsInv'
<1>1. Settings!WriteStatus /\ UNCHANGED <<pending, cache, tpc, tcopy, goal, flips, ttorn>>
      /\ slips' = (slips \union IF cache = None THEN {} ELSE {"status"})
  BY DEF Settings!StatusFollowsStripe, Settings!WriteStatus
<1>2. /\ tenant' \in Settings!Row /\ (ttorn' = TRUE \/ PlanOK')
      /\ tenant'.plan = tenant.plan /\ tenant'.features = tenant.features
  BY <1>1, StatusWritten
<1>3. SettingsTypeOK'
  BY <1>1, <1>2 DEF SettingsInv, SettingsTypeOK
<1>4. \A a \in SettingsActors : ActorOK(a)'
  BY <1>1 DEF SettingsInv, ActorOK, Settings!Allowed
<1>5. CacheOK'
  <2>1. CASE cache = None
    BY <1>1, <2>1 DEF CacheOK, Settings!Wrong
  <2>2. CASE cache # None
    <3>1. Settings!Wrong(cache)' \subseteq Settings!Wrong(cache) \union {"status"}
      BY <1>1, <1>2, <2>2 DEF Settings!Wrong, Settings!SamePlan
    <3>2. slips' = slips \union {"status"}
      BY <1>1, <2>2
    <3> QED
      BY <1>1, <3>1, <3>2 DEF SettingsInv, CacheOK
  <2> QED
    BY <2>1, <2>2
<1> QED
  BY <1>2, <1>3, <1>4, <1>5 DEF SettingsInv

(* A request that begins: it has read the row. *)
LEMMA BeginKeeps ==
  ASSUME SettingsInv, NEW a \in SettingsActors, NEW to \in Statements,
         to \in {"upgrade", "schedule", "enforce", "flags", "cache"},
         Settings!Goto(a, "idle", to), Settings!Read(a),
         UNCHANGED <<tenant, pending, cache, ttorn, slips>>,
         DOMAIN goal' = SettingsActors, DOMAIN flips' = SettingsActors,
         \A b \in SettingsActors \ {a} : goal'[b] = goal[b] /\ flips'[b] = flips[b],
         to \in {"upgrade", "schedule", "enforce"} => goal'[a] \in Plans,
         to = "schedule" => goal'[a] < tenant.plan,
         to = "flags" => /\ flips'[a] \subseteq Flags
                         /\ flips'[a] \ tenant.features \subseteq Settings!Allowed(tenant.plan)
  PROVE  SettingsInv'
<1>1. SettingsTypeOK
  BY DEF SettingsInv
<1>2. /\ tpc[a] = "idle" /\ tpc'[a] = to /\ tpc' \in [SettingsActors -> Statements]
      /\ \A b \in SettingsActors \ {a} : tpc'[b] = tpc[b]
  BY <1>1, Moved
<1>3. /\ DOMAIN tcopy' = SettingsActors /\ tcopy'[a] = tenant
      /\ \A b \in SettingsActors \ {a} : tcopy'[b] = tcopy[b]
  BY <1>1, WasRead
<1>4. SettingsTypeOK'
  BY <1>1, <1>2, <1>3 DEF SettingsTypeOK
<1>5. ActorOK(a)'
  BY <1>1, <1>2, <1>3 DEF ActorOK, SettingsTypeOK, Settings!Allowed
<1>6. (ttorn' = TRUE \/ PlanOK') /\ CacheOK'
  BY <1>2, PlanStays, CacheStays
<1> QED
  BY <1>2, <1>3, <1>4, <1>5, <1>6, ActorKeeps

LEMMA SettingsStep ==
  ASSUME SettingsInv, [Settings!Next]_Settings!vars, Plans \subseteq Nat, None \notin Plans
  PROVE  SettingsInv'
<1> USE DEF Statements
<1>1. SettingsTypeOK
  BY DEF SettingsInv
<1>2. tenant.plan \in Plans
  BY <1>1 DEF SettingsTypeOK, Settings!Row
<1>3. CASE UNCHANGED <<tenant, pending, cache, tpc, tcopy, goal, flips, ttorn, slips>>
  BY <1>3 DEF SettingsInv, SettingsTypeOK, ActorOK, PlanOK, CacheOK, Settings!Allowed,
              Settings!Wrong, Settings!SamePlan
<1>4. CASE Settings!CacheExpires
  <2>1. cache' = None /\ UNCHANGED <<tenant, pending, tpc, tcopy, goal, flips, ttorn>>
    BY <1>4 DEF Settings!CacheExpires
  <2>2. SettingsTypeOK' /\ \A a \in SettingsActors : ActorOK(a)'
    BY <2>1 DEF SettingsInv, SettingsTypeOK, ActorOK, Settings!Allowed
  <2>3. (ttorn' = TRUE \/ PlanOK') /\ CacheOK'
    BY <2>1, PlanStays DEF CacheOK, Settings!Wrong
  <2> QED
    BY <2>2, <2>3 DEF SettingsInv
<1>5. ASSUME NEW a \in SettingsActors, Settings!AskTier(a) PROVE SettingsInv'
  <2>1. PICK plan \in Plans \ {tenant.plan} :
          /\ Settings!Goto(a, "idle", IF plan > tenant.plan THEN "upgrade" ELSE "schedule")
          /\ goal' = [goal EXCEPT ![a] = plan]
    BY <1>5 DEF Settings!AskTier
  <2>2. PICK to \in {"upgrade", "schedule"} :
          Settings!Goto(a, "idle", to) /\ (to = "schedule" => plan < tenant.plan)
    <3>1. CASE plan > tenant.plan
      <4>1. Settings!Goto(a, "idle", "upgrade")
        BY <2>1, <3>1
      <4> QED
        BY <4>1
    <3>2. CASE ~(plan > tenant.plan)
      <4>1. Settings!Goto(a, "idle", "schedule")
        BY <2>1, <3>2
      <4>2. plan \in Nat /\ tenant.plan \in Nat /\ plan # tenant.plan
        BY <1>2
      <4>3. \A m, n \in Nat : m # n /\ ~(m > n) => m < n
        OBVIOUS
      <4>4. plan < tenant.plan
        BY <3>2, <4>2, <4>3
      <4> QED
        BY <4>1, <4>4
    <3> QED
      BY <3>1, <3>2
  <2>3. Settings!Read(a) /\ UNCHANGED <<tenant, pending, cache, flips, ttorn, slips>>
    BY <1>5 DEF Settings!AskTier
  <2>4. DOMAIN goal' = SettingsActors /\ goal'[a] = plan /\ DOMAIN flips' = SettingsActors
        /\ \A b \in SettingsActors \ {a} : goal'[b] = goal[b] /\ flips'[b] = flips[b]
    BY <1>1, <2>1, <2>3 DEF SettingsTypeOK
  <2> QED
    BY <2>2, <2>3, <2>4, BeginKeeps
<1>6. ASSUME NEW a \in SettingsActors, Settings!FindDue(a) PROVE SettingsInv'
  <2>1. /\ Settings!Goto(a, "idle", "enforce") /\ Settings!Read(a) /\ pending # None
        /\ UNCHANGED <<tenant, pending, cache, flips, ttorn, slips>>
        /\ goal' = [goal EXCEPT ![a] = pending]
    BY <1>6 DEF Settings!FindDue
  <2>2. DOMAIN goal' = SettingsActors /\ goal'[a] \in Plans /\ DOMAIN flips' = SettingsActors
        /\ \A b \in SettingsActors \ {a} : goal'[b] = goal[b] /\ flips'[b] = flips[b]
    BY <1>1, <2>1 DEF SettingsTypeOK
  <2> QED
    BY <2>1, <2>2, BeginKeeps
<1>7. ASSUME NEW a \in SettingsActors, Settings!AskFlags(a) PROVE SettingsInv'
  <2>1. /\ Settings!Goto(a, "idle", "flags") /\ Settings!Read(a)
        /\ UNCHANGED <<tenant, pending, cache, goal, ttorn, slips>>
    BY <1>7 DEF Settings!AskFlags
  <2>2. PICK f \in SUBSET Flags :
          /\ f \ tenant.features \subseteq Settings!Allowed(tenant.plan)
          /\ flips' = [flips EXCEPT ![a] = f]
    BY <1>7 DEF Settings!AskFlags
  <2>3. DOMAIN goal' = SettingsActors /\ flips'[a] = f /\ DOMAIN flips' = SettingsActors
        /\ \A b \in SettingsActors \ {a} : goal'[b] = goal[b] /\ flips'[b] = flips[b]
    BY <1>1, <2>1, <2>2 DEF SettingsTypeOK
  <2> QED
    BY <2>1, <2>2, <2>3, BeginKeeps
<1>8. ASSUME NEW a \in SettingsActors, Settings!ReadConfig(a) PROVE SettingsInv'
  <2>1. /\ Settings!Goto(a, "idle", "cache") /\ Settings!Read(a)
        /\ UNCHANGED <<tenant, pending, cache, goal, flips, ttorn, slips>>
    BY <1>8 DEF Settings!ReadConfig
  <2>2. DOMAIN goal' = SettingsActors /\ DOMAIN flips' = SettingsActors
        /\ \A b \in SettingsActors \ {a} : goal'[b] = goal[b] /\ flips'[b] = flips[b]
    BY <1>1, <2>1 DEF SettingsTypeOK
  <2> QED
    BY <2>1, <2>2, BeginKeeps
<1>9. ASSUME NEW a \in SettingsActors, Settings!ClearCache(a) PROVE SettingsInv'
  <2>1. /\ tpc[a] = "clear" /\ tpc'[a] = "idle" /\ tpc' \in [SettingsActors -> Statements]
        /\ \A b \in SettingsActors \ {a} : tpc'[b] = tpc[b]
    BY <1>1, <1>9, Moved DEF Settings!ClearCache
  <2>2. /\ UNCHANGED <<tenant, pending, tcopy, goal, flips, ttorn>>
        /\ \/ cache' = None
           \/ cache' = cache /\ slips' = slips \union Settings!Wrong(cache)
    BY <1>9 DEF Settings!ClearCache
  <2>3. SettingsTypeOK'
    BY <1>1, <2>1, <2>2 DEF SettingsTypeOK
  <2>4. ActorOK(a)'
    BY <2>1 DEF ActorOK
  <2>5. CacheOK'
    <3>1. CASE cache' = None
      BY <3>1 DEF CacheOK, Settings!Wrong
    <3>2. CASE cache' = cache /\ slips' = slips \union Settings!Wrong(cache)
      BY <2>2, <3>2, CacheCounted
    <3> QED
      BY <2>2, <3>1, <3>2
  <2>6. ttorn' = TRUE \/ PlanOK'
    BY <2>2, PlanStays
  <2> QED
    BY <2>1, <2>2, <2>3, <2>4, <2>5, <2>6, ActorKeeps
<1>10. ASSUME NEW a \in SettingsActors, Settings!ChangeFails(a) PROVE SettingsInv'
  <2>1. /\ Settings!Goto(a, tpc[a], "idle") /\ Settings!Forget(a)
        /\ slips' = slips \union Settings!Wrong(cache)
        /\ flips' = [flips EXCEPT ![a] = {}] /\ UNCHANGED <<tenant, pending, cache, ttorn>>
    BY <1>10 DEF Settings!ChangeFails
  <2>2. /\ tpc'[a] = "idle" /\ tpc' \in [SettingsActors -> Statements]
        /\ \A b \in SettingsActors \ {a} : tpc'[b] = tpc[b]
    BY <1>1, <2>1, Moved
  <2>3. /\ DOMAIN tcopy' = SettingsActors /\ DOMAIN goal' = SettingsActors
        /\ \A b \in SettingsActors \ {a} : tcopy'[b] = tcopy[b] /\ goal'[b] = goal[b]
    BY <1>1, <2>1, Forgotten
  <2>4. DOMAIN flips' = SettingsActors /\ \A b \in SettingsActors \ {a} : flips'[b] = flips[b]
    BY <1>1, <2>1 DEF SettingsTypeOK
  <2>5. SettingsTypeOK'
    BY <1>1, <2>1, <2>2, <2>3, <2>4 DEF SettingsTypeOK
  <2>6. ActorOK(a)'
    BY <2>2 DEF ActorOK
  <2>7. (ttorn' = TRUE \/ PlanOK') /\ CacheOK'
    BY <2>1, PlanStays, CacheCounted
  <2> QED
    BY <2>2, <2>3, <2>4, <2>5, <2>6, <2>7, ActorKeeps
<1>11. CASE Settings!GraceEnds
  BY <1>3, <1>11 DEF Settings!GraceEnds
<1>12. CASE UNCHANGED Settings!vars
  BY <1>3, <1>12 DEF Settings!vars
<1> QED
  BY <1>4, <1>5, <1>6, <1>7, <1>8, <1>9, <1>10, <1>11, <1>12,
     ApplyKeeps, ScheduleKeeps, ConfigKeeps, FlagKeeps, UpdateStatusKeeps, StripeStatusKeeps
     DEF Settings!Next, Settings!ApplyUpgrade, Settings!ApplyPendingDowngrade

LEMMA SettingsFollow ==
  ASSUME SettingsInv
  PROVE  Settings!SettingsExplained
<1>1. ttorn = TRUE => ttorn
  OBVIOUS
<1>2. ttorn \/ PlanOK
  BY <1>1, Zenon DEF SettingsInv
<1>3. Settings!PlanKept
  BY <1>2, Zenon DEF PlanOK, Settings!PlanKept
<1>4. Settings!CacheExplained
  BY DEF SettingsInv, CacheOK, Settings!CacheExplained
<1> QED
  BY <1>3, <1>4 DEF Settings!SettingsExplained

(* Plans and flags agree unless a write followed a read that was out of    *)
(* date, and the cached configuration is the row but for a change about to *)
(* clear it and for what slipped since the key was last absent             *)
(* (feature-flags.service.ts:133, admin-subscription.service.ts:48-158,    *)
(* tenants.service.ts:33-67, 108, stripe-webhook.service.ts:109).          *)
THEOREM SettingsInTheApi ==
  ASSUME Plans \subseteq Nat, None \notin Plans
  PROVE  RequestsSpec => []SettingsExplained
<1> DEFINE Inv == side \in {"settings", "status"} => SettingsInv
<1>1. RequestsInit => Inv
  BY SettingsInit DEF RequestsInit
<1>2. ASSUME Inv, [RequestsNext]_<<side, faults, apiVars, screenVars>>
      PROVE  Inv'
  <2> SUFFICES ASSUME side' \in {"settings", "status"}
               PROVE  SettingsInv'
    OBVIOUS
  <2>1. side \in {"settings", "status"} /\ SettingsInv
    BY <1>2 DEF RequestsNext
  <2>2. Settings!Next \/ UNCHANGED <<faults, settingsVars>>
    BY <1>2, <2>1 DEF RequestsNext, ApiNext, StaffNext, ScreensNext, apiVars
  <2>3. [Settings!Next]_Settings!vars
    BY <2>2 DEF settingsVars, Settings!vars
  <2> QED
    BY <2>1, <2>3, SettingsStep
<1>3. Inv => SettingsExplained
  BY SettingsFollow DEF SettingsExplained
<1> QED
  BY <1>1, <1>2, <1>3, PTL DEF RequestsSpec

-----------------------------------------------------------------------------
(***************************************************************************)
(* The audit log of a tenant.  As long as the entries were written at      *)
(* ever later milliseconds, each hangs on the one inserted before it, and  *)
(* what the holder of the lock has read is the last of them.               *)
(***************************************************************************)
InTime == \A i, k \in DOMAIN log : i < k => log[i].time < log[k].time

LogOK ==
  /\ \E S : log \in Seq(S)
  /\ \A i \in DOMAIN log : log[i].time \in Nat /\ log[i].id \in Nat
  /\ clock \in [Processes -> Nat]
  /\ DOMAIN prev = Processes

Linked ==
  /\ \A i \in DOMAIN log : log[i].prev = i - 1
  /\ \A p \in Processes : prev[p] # None => lock = p /\ prev[p] = Len(log)

AuditInv == LogOK /\ (InTime => Linked)

LEMMA AuditInit == Audit!Init => AuditInv
  BY DEF Audit!Init, AuditInv, LogOK, Linked, InTime

(* In time, the last entry in the verifier's order is the last inserted. *)
LEMMA LastInserted ==
  ASSUME LogOK, InTime, NEW n \in Nat, n <= Len(log)
  PROVE  Audit!Predecessor(1..n) = n
<1>1. PICK S : log \in Seq(S)
  BY DEF LogOK
<1>2. DOMAIN log = 1..Len(log) /\ Len(log) \in Nat
  BY <1>1
<1>3. CASE n = 0
  BY <1>3 DEF Audit!Predecessor, Audit!Genesis
<1>4. CASE n # 0
  <2>1. n \in 1..n /\ 1..n \subseteq DOMAIN log /\ 1..n # {}
    BY <1>2, <1>4
  <2>2. \A k \in (1..n) \ {n} : log[k].time < log[n].time
    BY <2>1, <1>2 DEF InTime
  <2>3. \A k \in 1..n : log[k].time \in Nat
    BY <2>1 DEF LogOK
  <2>4. n \in Audit!LastOf(1..n)
    BY <2>1, <2>2 DEF Audit!LastOf, Audit!Before
  <2>5. \A i \in Audit!LastOf(1..n) : i = n
    <3> SUFFICES ASSUME NEW i \in 1..n, i # n, Audit!Before(log[n], log[i])
                 PROVE  FALSE
      BY <2>1 DEF Audit!LastOf
    <3>1. log[i].time < log[n].time
      BY <2>2
    <3>2. log[n].time < log[i].time \/ log[n].time = log[i].time
      BY DEF Audit!Before
    <3> QED
      BY <3>1, <3>2, <2>1, <2>3
  <2> QED
    BY <2>1, <2>4, <2>5 DEF Audit!Predecessor
<1> QED
  BY <1>3, <1>4

LEMMA ChainHolds ==
  ASSUME AuditInv, InTime
  PROVE  Audit!ChainIsValid
<1>1. PICK S : log \in Seq(S)
  BY DEF AuditInv, LogOK
<1>2. DOMAIN log = 1..Len(log) /\ Len(log) \in Nat
  BY <1>1
<1> SUFFICES ASSUME NEW i \in DOMAIN log
             PROVE  log[i].prev = Audit!Predecessor(Audit!Earlier(i))
  BY DEF Audit!ChainIsValid
<1>3. \A k \in DOMAIN log : log[k].time \in Nat /\ log[k].id \in Nat
  BY DEF AuditInv, LogOK
<1>4. ASSUME NEW k \in DOMAIN log
      PROVE  Audit!Before(log[k], log[i]) <=> k < i
  <2>1. CASE k < i
    BY <1>2, <2>1 DEF InTime, Audit!Before
  <2>2. CASE i < k
    <3>1. log[i].time < log[k].time
      BY <2>2 DEF InTime
    <3> QED
      BY <1>2, <1>3, <2>2, <3>1 DEF Audit!Before
  <2>3. CASE i = k
    <3>1. ~(log[i].time < log[i].time) /\ ~(log[i].id < log[i].id)
      BY <1>3
    <3> QED
      BY <1>2, <2>3, <3>1 DEF Audit!Before
  <2> QED
    BY <1>2, <2>1, <2>2, <2>3
<1>5. Audit!Earlier(i) = 1..(i - 1)
  BY <1>2, <1>4 DEF Audit!Earlier
<1>6. Audit!Predecessor(1..(i - 1)) = i - 1
  BY <1>2, LastInserted DEF AuditInv
<1> QED
  BY <1>5, <1>6 DEF AuditInv, Linked

(* A new entry at the end. *)
LEMMA InsertKeeps ==
  ASSUME AuditInv, Ids \subseteq Nat,
         NEW p \in Processes, prev[p] # None, NEW id \in Ids,
         log' = Append(log, [time |-> clock[p], id |-> id, prev |-> prev[p]]),
         prev' = [prev EXCEPT ![p] = None], UNCHANGED clock
  PROVE  AuditInv'
<1> DEFINE e == [time |-> clock[p], id |-> id, prev |-> prev[p]]
<1>1. PICK S : log \in Seq(S)
  BY DEF AuditInv, LogOK
<1>2. /\ DOMAIN log = 1..Len(log) /\ Len(log) \in Nat
      /\ DOMAIN log' = 1..(Len(log) + 1) /\ Len(log') = Len(log) + 1
      /\ log' \in Seq(S \union {e})
      /\ \A i \in DOMAIN log : log'[i] = log[i]
      /\ log'[Len(log) + 1] = e
  BY <1>1
<1>3. clock[p] \in Nat /\ id \in Nat
  BY DEF AuditInv, LogOK
<1>4. e.time = clock[p] /\ e.id = id /\ e.prev = prev[p]
  OBVIOUS
<1> HIDE DEF e
<1>5. LogOK'
  <2>1. \A i \in DOMAIN log' : i \in DOMAIN log \/ i = Len(log) + 1
    BY <1>2
  <2>2. \A i \in DOMAIN log' : log'[i].time \in Nat /\ log'[i].id \in Nat
    BY <2>1, <1>2, <1>3, <1>4 DEF AuditInv, LogOK
  <2>3. clock' \in [Processes -> Nat] /\ DOMAIN prev' = Processes
    BY DEF AuditInv, LogOK
  <2> QED
    BY <1>2, <2>2, <2>3 DEF LogOK
<1>6. ASSUME InTime'
      PROVE  Linked'
  <2>1. InTime
    BY <1>2, <1>6 DEF InTime
  <2>2. Linked
    BY <2>1 DEF AuditInv
  <2>3. e.prev = Len(log)
    BY <1>4, <2>2 DEF Linked
  <2>4. \A i \in DOMAIN log' : log'[i].prev = i - 1
    BY <1>2, <2>2, <2>3 DEF Linked
  <2>5. \A q \in Processes : prev'[q] = None
    BY <2>2 DEF Linked, AuditInv, LogOK
  <2> QED
    BY <2>4, <2>5 DEF Linked
<1> QED
  BY <1>5, <1>6 DEF AuditInv

LEMMA AuditStep ==
  ASSUME AuditInv, [Audit!Next]_Audit!vars, Ids \subseteq Nat, None \notin Processes
  PROVE  AuditInv'
<1>1. CASE UNCHANGED Audit!vars
  BY <1>1 DEF Audit!vars, AuditInv, LogOK, Linked, InTime
<1> SUFFICES ASSUME NEW p \in Processes,
                    \/ Audit!ClockTicks(p) \/ Audit!TakeLock(p) \/ Audit!FindLast(p)
                    \/ Audit!InsertEntry(p) \/ Audit!LogFails(p)
             PROVE  AuditInv'
  BY <1>1 DEF Audit!Next
<1>2. CASE Audit!ClockTicks(p)
  <2>1. clock' \in [Processes -> Nat]
    <3>1. clock \in [Processes -> Nat] /\ clock[p] + 1 \in Nat
      BY DEF AuditInv, LogOK
    <3> QED
      BY <1>2, <3>1 DEF Audit!ClockTicks
  <2> QED
    BY <1>2, <2>1 DEF Audit!ClockTicks, AuditInv, LogOK, Linked, InTime
<1>3. CASE Audit!TakeLock(p)
  <2>1. Linked => Linked'
    BY <1>3 DEF Audit!TakeLock, Linked
  <2> QED
    BY <1>3, <2>1 DEF Audit!TakeLock, AuditInv, LogOK, InTime
<1>4. CASE Audit!FindLast(p)
  <2>1. ASSUME InTime
        PROVE  Linked'
    <3>1. PICK S : log \in Seq(S)
      BY DEF AuditInv, LogOK
    <3>2. Audit!Predecessor(DOMAIN log) = Len(log)
      BY <2>1, <3>1, LastInserted DEF AuditInv
    <3>3. prev' = [prev EXCEPT ![p] = Len(log)] /\ lock = p
      BY <1>4, <3>2 DEF Audit!FindLast
    <3> QED
      BY <1>4, <2>1, <3>3 DEF Audit!FindLast, AuditInv, LogOK, Linked
  <2> QED
    BY <1>4, <2>1 DEF Audit!FindLast, AuditInv, LogOK, InTime
<1>5. CASE Audit!InsertEntry(p)
  BY <1>5, InsertKeeps DEF Audit!InsertEntry
<1>6. CASE Audit!LogFails(p)
  BY <1>6 DEF Audit!LogFails, AuditInv, LogOK, Linked, InTime
<1> QED
  BY <1>2, <1>3, <1>4, <1>5, <1>6

(* Whichever processes write, the chain verifies unless an entry is no     *)
(* later than one inserted before it (audit.service.ts:16-135).            *)
THEOREM ChainInTheApi ==
  ASSUME Ids \subseteq Nat, None \notin Processes
  PROVE  RequestsSpec => []BrokenChainExplained
<1> DEFINE Inv == side = "audit" => AuditInv
<1>1. RequestsInit => Inv
  BY AuditInit DEF RequestsInit
<1>2. ASSUME Inv, [RequestsNext]_<<side, faults, apiVars, screenVars>>
      PROVE  Inv'
  <2> SUFFICES ASSUME side' = "audit"
               PROVE  AuditInv'
    OBVIOUS
  <2>1. side = "audit" /\ AuditInv
    BY <1>2 DEF RequestsNext
  <2>2. Audit!Next \/ UNCHANGED <<faults, auditVars>>
    BY <1>2, <2>1 DEF RequestsNext, ApiNext, StaffNext, ScreensNext, apiVars
  <2>3. [Audit!Next]_Audit!vars
    BY <2>2 DEF auditVars, Audit!vars
  <2> QED
    BY <2>1, <2>3, AuditStep
<1>3. Inv => BrokenChainExplained
  <2> SUFFICES ASSUME side = "audit", AuditInv, ~InTime
               PROVE  \E i, k \in DOMAIN log : i < k /\ log[i].time >= log[k].time
    BY ChainHolds DEF BrokenChainExplained, Audit!BrokenChainExplained
  <2>1. PICK i, k \in DOMAIN log : i < k /\ ~(log[i].time < log[k].time)
    BY DEF InTime
  <2>2. log[i].time \in Nat /\ log[k].time \in Nat
    BY DEF AuditInv, LogOK
  <2>3. \A m, n \in Nat : ~(m < n) => m >= n
    OBVIOUS
  <2> QED
    BY <2>1, <2>2, <2>3
<1> QED
  BY <1>1, <1>2, <1>3, PTL DEF RequestsSpec

-----------------------------------------------------------------------------
(***************************************************************************)
(* The panels.  A switch that is set has its save on the way, a preview is *)
(* of the plan that is selected unless it was asked for before; and a tab  *)
(* that no other tab's save has passed holds what is stored, or has a save *)
(* answered still to come, after which it loads again.                     *)
(***************************************************************************)
Watched == {"flags", "plan", "rates"}

(* The placeholder is no function, and not the record of a load either.    *)
PanelBounds ==
  /\ MaxLoads \in Nat
  /\ \A x, y : None # [stage |-> x, answer |-> y]
  /\ \A g : g = [x \in DOMAIN g |-> g[x]] => g # None

PanelTypesOK ==
  /\ DOMAIN form = Tabs /\ DOMAIN shown = Tabs /\ DOMAIN load = Tabs /\ DOMAIN saves = Tabs
  /\ DOMAIN preview = Tabs /\ DOMAIN undone = Tabs
  /\ stale \in [Tabs -> BOOLEAN]
  /\ used \in [saves : Nat, loads : Nat, faults : Nat]
  /\ \A t \in Tabs : \A s \in saves[t] : DOMAIN s = {"values", "touched", "stage", "answer"}

(* The plan that is selected and the one of the preview.                   *)
PlanInv ==
  /\ misapplied => reselected
  /\ \A t \in Tabs :
       /\ preview[t] # None => panel = "plan" /\ preview[t] \in [plan : Values, stage : {"sent", "shown"}]
       /\ panel = "plan" /\ form[t] # None => form[t] \in [{"a"} -> Values]
       /\ preview[t] # None /\ form[t] # None /\ form[t].a # preview[t].plan => reselected

(* A save of a flag or a plan sends what was touched.                      *)
TouchedInv ==
  \A t \in Tabs :
    /\ panel \in {"flags", "plan"} => \A s \in saves[t] : DOMAIN s.values \subseteq s.touched
    /\ undone[t] => panel \notin {"flags", "plan"}

FlagInv ==
  panel = "flags" =>
    \A t \in Tabs : form[t] # None => \A f \in DOMAIN form[t] : \E s \in saves[t] : f \in s.touched

(* The saves of a tab are of different switches, each set in its form.     *)
SwitchInv ==
  panel = "flags" =>
    \A t \in Tabs :
      /\ \A s \in saves[t] :
           form[t] # None /\ s.touched # {} /\ s.touched \subseteq DOMAIN form[t]
      /\ \A r, s \in saves[t] : r # s => r.touched \intersect s.touched = {}

Settled(t) == ~stale[t] /\ used.loads < MaxLoads /\ \A s \in saves[t] : s.stage # "done"

LoadInv ==
  panel \in Watched =>
    \A t \in Tabs : Settled(t) =>
      /\ load[t] = None /\ shown[t] # None => shown[t] = record
      /\ load[t] # None /\ load[t].stage = "done" => load[t].answer = record

PanelInv == PanelTypesOK /\ PlanInv /\ TouchedInv /\ FlagInv /\ SwitchInv /\ LoadInv

LEMMA PanelsBegin ==
  ASSUME PanelBounds, Panels!Init
  PROVE  PanelInv
<1> USE DEF Panels!Init
<1>1. PanelTypesOK
  BY DEF PanelTypesOK
<1>2. PlanInv /\ TouchedInv /\ FlagInv /\ SwitchInv /\ LoadInv
  BY DEF PlanInv, TouchedInv, FlagInv, SwitchInv, LoadInv
<1> QED
  BY <1>1, <1>2 DEF PanelInv

(* A load that is sent holds nothing yet.                                  *)
LEMMA PanelReloads ==
  ASSUME PanelBounds, PanelInv, NEW t \in Tabs, Panels!Reload(t)
  PROVE  /\ DOMAIN load' = Tabs /\ used' \in [saves : Nat, loads : Nat, faults : Nat]
         /\ \A u \in Tabs : u # t => load'[u] = load[u]
         /\ used'.loads < MaxLoads =>
              used.loads < MaxLoads /\ load'[t] # None /\ load'[t].stage = "sent"
         /\ used'.loads >= used.loads
<1>1. used \in [saves : Nat, loads : Nat, faults : Nat] /\ DOMAIN load = Tabs /\ MaxLoads \in Nat
  BY DEF PanelInv, PanelTypesOK, PanelBounds
<1> DEFINE r == [stage |-> "sent", answer |-> None]
<1>2. r # None /\ r.stage = "sent"
  BY DEF PanelBounds
<1> HIDE DEF r
<1>3. CASE used.loads < MaxLoads
  <2>1. load' = [load EXCEPT ![t] = r] /\ used' = [used EXCEPT !.loads = @ + 1]
    BY <1>3 DEF Panels!Reload, r
  <2> QED
    BY <1>1, <1>2, <1>3, <2>1
<1>4. CASE ~(used.loads < MaxLoads)
  <2>1. load' = [load EXCEPT ![t] = None] /\ used' = used
    BY <1>4 DEF Panels!Reload
  <2> QED
    BY <1>1, <1>4, <2>1
<1> QED
  BY <1>3, <1>4

-----------------------------------------------------------------------------
(* The copy.                                                               *)
LEMMA PanelOpen ==
  ASSUME PanelBounds, PanelInv, NEW t \in Tabs, Panels!Open(t)
  PROVE  PanelInv'
<1>1. /\ Panels!Reload(t)
      /\ UNCHANGED <<panel, record, shown, form, typed, saves, preview, modal, stale, undone, misapplied,
                     reselected>>
  BY DEF Panels!Open, Panels!ghosts
<1>2. /\ DOMAIN load' = Tabs /\ used' \in [saves : Nat, loads : Nat, faults : Nat]
      /\ \A u \in Tabs : u # t => load'[u] = load[u]
      /\ used'.loads < MaxLoads =>
           used.loads < MaxLoads /\ load'[t] # None /\ load'[t].stage = "sent"
  BY <1>1, PanelReloads
<1>3. PanelTypesOK'
  BY <1>1, <1>2 DEF PanelInv, PanelTypesOK
<1>4. PlanInv' /\ TouchedInv' /\ FlagInv' /\ SwitchInv'
  BY <1>1 DEF PanelInv, PlanInv, TouchedInv, FlagInv, SwitchInv
<1>5. LoadInv'
  BY <1>1, <1>2 DEF PanelInv, LoadInv, Settled
<1> QED
  BY <1>3, <1>4, <1>5 DEF PanelInv

LEMMA PanelServeLoad ==
  ASSUME PanelBounds, PanelInv, NEW t \in Tabs, Panels!ServeLoad(t)
  PROVE  PanelInv'
<1> DEFINE r == [stage |-> "done", answer |-> record]
<1>1. /\ load' = [load EXCEPT ![t] = r] /\ stale' = [stale EXCEPT ![t] = FALSE]
      /\ UNCHANGED <<panel, record, shown, form, typed, saves, preview, modal, undone, misapplied,
                     reselected, used>>
  BY DEF Panels!ServeLoad
<1>2. r # None /\ r.answer = record
  BY DEF PanelBounds
<1> HIDE DEF r
<1>3. PanelTypesOK'
  BY <1>1 DEF PanelInv, PanelTypesOK
<1>4. PlanInv' /\ TouchedInv' /\ FlagInv' /\ SwitchInv'
  BY <1>1 DEF PanelInv, PlanInv, TouchedInv, FlagInv, SwitchInv
<1>5. LoadInv'
  <2>1. load'[t] = r /\ \A u \in Tabs : u # t => load'[u] = load[u] /\ stale'[u] = stale[u]
    BY <1>1 DEF PanelInv, PanelTypesOK
  <2> QED
    BY <1>1, <1>2, <2>1 DEF PanelInv, LoadInv, Settled
<1> QED
  BY <1>3, <1>4, <1>5 DEF PanelInv

LEMMA PanelLoaded ==
  ASSUME PanelBounds, PanelInv, NEW t \in Tabs, Panels!Loaded(t)
  PROVE  PanelInv'
<1>1. /\ load[t] # None /\ load[t].stage = "done"
      /\ shown' = [shown EXCEPT ![t] = load[t].answer] /\ load' = [load EXCEPT ![t] = None]
      /\ form' = IF panel = "role" THEN [form EXCEPT ![t] = load[t].answer] ELSE form
      /\ UNCHANGED <<panel, record, saves, preview, modal, stale, undone, misapplied, reselected, used>>
  BY DEF Panels!Loaded, Panels!ghosts
<1>2. PanelTypesOK'
  BY <1>1 DEF PanelInv, PanelTypesOK
<1>3. TouchedInv'
  BY <1>1 DEF PanelInv, TouchedInv
<1>4. PlanInv' /\ FlagInv' /\ SwitchInv'
  <2>1. CASE panel = "role"
    <3>1. \A u \in Tabs : preview[u] = None
      BY <2>1 DEF PanelInv, PlanInv
    <3>2. PlanInv'
      BY <1>1, <2>1, <3>1 DEF PanelInv, PlanInv
    <3>3. FlagInv' /\ SwitchInv'
      BY <1>1, <2>1 DEF FlagInv, SwitchInv
    <3> QED
      BY <3>2, <3>3
  <2>2. CASE panel # "role"
    BY <1>1, <2>2 DEF PanelInv, PlanInv, FlagInv, SwitchInv
  <2> QED
    BY <2>1, <2>2
<1>5. LoadInv'
  <2>1. shown'[t] = load[t].answer /\ load'[t] = None
        /\ \A u \in Tabs : u # t => load'[u] = load[u] /\ shown'[u] = shown[u]
    BY <1>1 DEF PanelInv, PanelTypesOK
  <2> QED
    BY <1>1, <2>1 DEF PanelInv, LoadInv, Settled
<1> QED
  BY <1>2, <1>3, <1>4, <1>5 DEF PanelInv

-----------------------------------------------------------------------------
(* The forms.                                                              *)
LEMMA PanelFill ==
  ASSUME PanelBounds, PanelInv, NEW t \in Tabs, Panels!Fill(t)
  PROVE  PanelInv'
<1>1. /\ panel \in {"branding", "wizard", "rates"}
      /\ UNCHANGED <<panel, record, shown, load, saves, preview, modal, stale, undone, misapplied,
                     reselected, used>>
      /\ DOMAIN form' = DOMAIN form
  BY DEF Panels!Fill, Panels!BrandingForm, Panels!WizardForm, Panels!RateForm, Panels!ghosts
<1>2. PanelTypesOK'
  BY <1>1 DEF PanelInv, PanelTypesOK
<1>3. TouchedInv' /\ FlagInv' /\ SwitchInv' /\ LoadInv'
  BY <1>1 DEF PanelInv, TouchedInv, FlagInv, SwitchInv, LoadInv, Settled
<1>4. PlanInv'
  <2>1. \A u \in Tabs : preview[u] = None
    BY <1>1 DEF PanelInv, PlanInv
  <2> QED
    BY <1>1, <2>1 DEF PanelInv, PlanInv
<1> QED
  BY <1>2, <1>3, <1>4 DEF PanelInv

LEMMA PanelType ==
  ASSUME PanelBounds, PanelInv, NEW t \in Tabs, Panels!Type(t)
  PROVE  PanelInv'
<1>1. PICK f \in DOMAIN form[t], v \in Values : form' = [form EXCEPT ![t][f] = v]
  BY DEF Panels!Type
<1>2. /\ panel \notin {"flags", "plan"} /\ form[t] # None
      /\ UNCHANGED <<panel, record, shown, load, saves, preview, modal, stale, undone, misapplied,
                     reselected, used>>
  BY DEF Panels!Type, Panels!ghosts
<1>3. /\ DOMAIN form' = Tabs /\ DOMAIN form'[t] = DOMAIN form[t]
      /\ \A u \in Tabs : u # t => form'[u] = form[u]
  BY <1>1 DEF PanelInv, PanelTypesOK
<1>4. PanelTypesOK'
  BY <1>2, <1>3 DEF PanelInv, PanelTypesOK
<1>5. TouchedInv' /\ LoadInv'
  BY <1>2 DEF PanelInv, TouchedInv, LoadInv, Settled
<1>6. FlagInv' /\ SwitchInv'
  BY <1>2 DEF FlagInv, SwitchInv
<1>7. PlanInv'
  <2>1. \A u \in Tabs : preview[u] = None
    BY <1>2 DEF PanelInv, PlanInv
  <2> QED
    BY <1>2, <2>1 DEF PanelInv, PlanInv
<1> QED
  BY <1>4, <1>5, <1>6, <1>7 DEF PanelInv

LEMMA PanelPlanSelect ==
  ASSUME PanelBounds, PanelInv, NEW t \in Tabs, Panels!handlePlanSelect(t)
  PROVE  PanelInv'
<1>1. PICK v \in Values : form' = [form EXCEPT ![t] = [f \in {"a"} |-> v]]
  BY DEF Panels!handlePlanSelect
<1>2. /\ panel = "plan"
      /\ preview' = IF preview[t] # None /\ preview[t].stage = "shown"
                    THEN [preview EXCEPT ![t] = None] ELSE preview
      /\ reselected' = (reselected \/ (preview[t] # None /\ preview[t].stage = "sent"))
      /\ UNCHANGED <<panel, record, shown, load, saves, modal, stale, undone, misapplied, used>>
  BY DEF Panels!handlePlanSelect
<1>3. DOMAIN form' = Tabs /\ form'[t] \in [{"a"} -> Values] /\ \A u \in Tabs : u # t => form'[u] = form[u]
  BY <1>1 DEF PanelInv, PanelTypesOK
<1>4. /\ DOMAIN preview' = Tabs /\ \A u \in Tabs : u # t => preview'[u] = preview[u]
      /\ preview'[t] # None => preview'[t] = preview[t] /\ preview[t].stage # "shown"
  BY <1>2 DEF PanelInv, PanelTypesOK
<1>5. PanelTypesOK'
  BY <1>2, <1>3, <1>4 DEF PanelInv, PanelTypesOK
<1>6. TouchedInv' /\ LoadInv' /\ FlagInv' /\ SwitchInv'
  BY <1>2 DEF PanelInv, TouchedInv, LoadInv, Settled, FlagInv, SwitchInv
<1>7. PlanInv'
  <2>1. preview'[t] # None => reselected'
    BY <1>2, <1>4 DEF PanelInv, PlanInv
  <2>2. reselected => reselected'
    BY <1>2
  <2> QED
    BY <1>2, <1>3, <1>4, <2>1, <2>2 DEF PanelInv, PlanInv
<1> QED
  BY <1>5, <1>6, <1>7 DEF PanelInv

LEMMA PanelCancel ==
  ASSUME PanelBounds, PanelInv, NEW t \in Tabs, Panels!Cancel(t)
  PROVE  PanelInv'
<1>1. /\ UNCHANGED <<panel, record, shown, load, saves, preview, stale, undone, misapplied, reselected,
                     used>>
      /\ \/ form' = form
         \/ panel = "rates" /\ form' = [form EXCEPT ![t] = None]
  BY DEF Panels!Cancel, Panels!ghosts
<1>2. DOMAIN form' = Tabs /\ \A u \in Tabs : form'[u] # None => form'[u] = form[u]
  BY <1>1 DEF PanelInv, PanelTypesOK
<1>3. PanelTypesOK'
  BY <1>1, <1>2 DEF PanelInv, PanelTypesOK
<1>4. TouchedInv' /\ LoadInv' /\ FlagInv' /\ SwitchInv'
  BY <1>1 DEF PanelInv, TouchedInv, LoadInv, Settled, FlagInv, SwitchInv
<1>5. PlanInv'
  BY <1>1, <1>2 DEF PanelInv, PlanInv
<1> QED
  BY <1>3, <1>4, <1>5 DEF PanelInv

-----------------------------------------------------------------------------
(* The preview of a plan.                                                  *)
LEMMA PanelPreview ==
  ASSUME PanelBounds, PanelInv, NEW t \in Tabs, Panels!handlePreview(t) \/ Panels!PreviewArrives(t)
  PROVE  PanelInv'
<1>1. /\ UNCHANGED <<panel, record, shown, form, load, saves, stale, undone, misapplied, reselected,
                     used>>
      /\ \/ /\ panel = "plan" /\ form[t] # None
            /\ preview' = [preview EXCEPT ![t] = [plan |-> form[t].a, stage |-> "sent"]]
         \/ preview[t] # None /\ preview' = [preview EXCEPT ![t].stage = "shown"]
  BY DEF Panels!handlePreview, Panels!PreviewArrives, Panels!ghosts
<1>2. DOMAIN preview' = Tabs /\ DOMAIN preview = Tabs /\ \A u \in Tabs : u # t => preview'[u] = preview[u]
  BY <1>1 DEF PanelInv, PanelTypesOK
<1>3. PanelTypesOK'
  BY <1>1, <1>2 DEF PanelInv, PanelTypesOK
<1>4. TouchedInv' /\ LoadInv' /\ FlagInv' /\ SwitchInv'
  BY <1>1 DEF PanelInv, TouchedInv, LoadInv, Settled, FlagInv, SwitchInv
<1>5. /\ panel = "plan" /\ preview'[t] \in [plan : Values, stage : {"sent", "shown"}]
      /\ preview'[t].plan = form[t].a \/ (preview[t] # None /\ preview'[t].plan = preview[t].plan)
  <2>1. CASE /\ panel = "plan" /\ form[t] # None
             /\ preview' = [preview EXCEPT ![t] = [plan |-> form[t].a, stage |-> "sent"]]
    <3>1. form[t].a \in Values
      BY <2>1 DEF PanelInv, PlanInv
    <3>2. preview'[t] = [plan |-> form[t].a, stage |-> "sent"]
      BY <1>2, <2>1
    <3> QED
      BY <2>1, <3>1, <3>2
  <2>2. CASE preview[t] # None /\ preview' = [preview EXCEPT ![t].stage = "shown"]
    <3>1. panel = "plan" /\ preview[t] \in [plan : Values, stage : {"sent", "shown"}]
      BY <2>2 DEF PanelInv, PlanInv
    <3>2. preview'[t] = [preview[t] EXCEPT !.stage = "shown"]
      BY <1>2, <2>2
    <3> QED
      BY <2>2, <3>1, <3>2
  <2> QED
    BY <1>1, <2>1, <2>2
<1>6. PlanInv'
  BY <1>1, <1>2, <1>5 DEF PanelInv, PlanInv
<1> QED
  BY <1>3, <1>4, <1>6 DEF PanelInv

-----------------------------------------------------------------------------
(* A save is sent.                                                         *)
LEMMA PanelSends ==
  ASSUME PanelBounds, PanelInv, NEW t \in Tabs, NEW values, NEW touch, Panels!Send(t, values, touch),
         UNCHANGED <<panel, record, shown, load, preview, stale, undone, reselected>>,
         panel \in {"flags", "plan"} => DOMAIN values \subseteq touch,
         DOMAIN form' = Tabs, PlanInv',
         panel = "flags" =>
           \A u \in Tabs : form'[u] # None =>
             \A f \in DOMAIN form'[u] :
               (u = t /\ f \in touch) \/ (form[u] # None /\ f \in DOMAIN form[u]),
         panel = "flags" =>
           /\ touch # {} /\ \A s \in saves[t] : s.touched \intersect touch = {}
           /\ form'[t] # None /\ touch \subseteq DOMAIN form'[t]
           /\ form[t] # None => DOMAIN form[t] \subseteq DOMAIN form'[t]
           /\ \A u \in Tabs : u # t => form'[u] = form[u]
  PROVE  PanelInv'
<1> DEFINE new == [values |-> values, touched |-> touch, stage |-> "sent", answer |-> None]
<1>1. /\ used' = [used EXCEPT !.saves = @ + 1]
      /\ saves' = [saves EXCEPT ![t] = @ \union {new}]
  BY DEF Panels!Send
<1>2. /\ DOMAIN saves' = Tabs /\ saves'[t] = saves[t] \union {new}
      /\ \A u \in Tabs : u # t => saves'[u] = saves[u]
  BY <1>1 DEF PanelInv, PanelTypesOK
<1>3. /\ DOMAIN new = {"values", "touched", "stage", "answer"} /\ new.values = values
      /\ new.touched = touch /\ new.stage = "sent"
  OBVIOUS
<1>4. used' \in [saves : Nat, loads : Nat, faults : Nat] /\ used'.loads = used.loads
  BY <1>1 DEF PanelInv, PanelTypesOK
<1> HIDE DEF new
<1>5. \A u \in Tabs : \A s \in saves'[u] : s \in saves[u] \/ (u = t /\ s = new)
  BY <1>2
<1>6. PanelTypesOK'
  BY <1>2, <1>3, <1>4, <1>5 DEF PanelInv, PanelTypesOK
<1>7. TouchedInv'
  BY <1>3, <1>5 DEF PanelInv, TouchedInv
<1>8. FlagInv'
  <2> SUFFICES ASSUME panel = "flags", NEW u \in Tabs, form'[u] # None, NEW f \in DOMAIN form'[u]
               PROVE  \E s \in saves'[u] : f \in s.touched
    BY DEF FlagInv
  <2>1. CASE u = t /\ f \in touch
    BY <1>2, <1>3, <2>1
  <2>2. CASE form[u] # None /\ f \in DOMAIN form[u]
    <3>1. PICK s \in saves[u] : f \in s.touched
      BY <2>2 DEF PanelInv, FlagInv
    <3> QED
      BY <1>2, <3>1
  <2> QED
    BY <2>1, <2>2
<1>9. SwitchInv'
  <2> SUFFICES ASSUME panel = "flags", NEW u \in Tabs
               PROVE  /\ \A s \in saves'[u] :
                           form'[u] # None /\ s.touched # {} /\ s.touched \subseteq DOMAIN form'[u]
                      /\ \A r, s \in saves'[u] : r # s => r.touched \intersect s.touched = {}
    BY DEF SwitchInv
  <2>1. /\ \A s \in saves[u] : form[u] # None /\ s.touched # {} /\ s.touched \subseteq DOMAIN form[u]
        /\ \A r, s \in saves[u] : r # s => r.touched \intersect s.touched = {}
    BY DEF PanelInv, SwitchInv
  <2>2. CASE u # t
    BY <1>2, <2>1, <2>2
  <2>3. CASE u = t
    <3>1. ASSUME NEW s \in saves'[t]
          PROVE  form'[t] # None /\ s.touched # {} /\ s.touched \subseteq DOMAIN form'[t]
      BY <1>2, <1>3, <2>1, <2>3, <3>1
    <3>2. ASSUME NEW r \in saves'[t], NEW s \in saves'[t], r # s
          PROVE  r.touched \intersect s.touched = {}
      BY <1>2, <1>3, <2>1, <2>3, <3>2
    <3> QED
      BY <2>3, <3>1, <3>2
  <2> QED
    BY <2>2, <2>3
<1>10. LoadInv'
  <2>1. \A u \in Tabs : Settled(u)' => Settled(u)
    BY <1>2, <1>4 DEF Settled
  <2> QED
    BY <2>1 DEF PanelInv, LoadInv
<1> QED
  BY <1>6, <1>7, <1>8, <1>9, <1>10 DEF PanelInv

LEMMA PanelToggle ==
  ASSUME PanelBounds, PanelInv, NEW t \in Tabs, Panels!handleToggle(t)
  PROVE  PanelInv'
<1>1. PICK f \in Panels!Fields(panel) :
        LET v == IF Panels!Shown(t, f) = 0 THEN 1 ELSE 0 IN
        /\ \A s \in saves[t] : f \notin s.touched
        /\ Panels!updateFeatureFlag(t, f, v)
        /\ form' = [form EXCEPT ![t] = [g \in {f} \union (IF @ = None THEN {} ELSE DOMAIN @) |->
                                         IF g = f THEN v ELSE @[g]]]
  BY DEF Panels!handleToggle
<1>2. /\ panel = "flags"
      /\ UNCHANGED <<panel, record, shown, load, preview, stale, undone, misapplied, reselected>>
  BY DEF Panels!handleToggle, Panels!ghosts
<1> DEFINE v == IF Panels!Shown(t, f) = 0 THEN 1 ELSE 0
           values == [g \in {f} |-> v]
<1>3. Panels!Send(t, values, {f}) /\ DOMAIN values \subseteq {f}
  BY <1>1 DEF Panels!updateFeatureFlag
<1>4. /\ DOMAIN form' = Tabs /\ \A u \in Tabs : u # t => form'[u] = form[u]
      /\ form'[t] = [g \in {f} \union (IF form[t] = None THEN {} ELSE DOMAIN form[t]) |->
                        IF g = f THEN v ELSE form[t][g]]
      /\ DOMAIN form'[t] = {f} \union (IF form[t] = None THEN {} ELSE DOMAIN form[t])
  BY <1>1 DEF PanelInv, PanelTypesOK
<1>5. \A u \in Tabs : form'[u] # None =>
        \A g \in DOMAIN form'[u] : (u = t /\ g \in {f}) \/ (form[u] # None /\ g \in DOMAIN form[u])
  BY <1>4
<1>6. PlanInv'
  <2>1. \A u \in Tabs : preview[u] = None
    BY <1>2 DEF PanelInv, PlanInv
  <2> QED
    BY <1>2, <2>1 DEF PanelInv, PlanInv
<1>7. form'[t] # None
  <2>1. form'[t] = [g \in DOMAIN form'[t] |-> form'[t][g]]
    BY <1>4
  <2> QED
    BY <2>1 DEF PanelBounds
<1>8. \A s \in saves[t] : s.touched \intersect {f} = {}
  BY <1>1
<1> HIDE DEF values
<1>9. /\ {f} # {} /\ \A s \in saves[t] : s.touched \intersect {f} = {}
      /\ form'[t] # None /\ {f} \subseteq DOMAIN form'[t]
      /\ form[t] # None => DOMAIN form[t] \subseteq DOMAIN form'[t]
      /\ \A u \in Tabs : u # t => form'[u] = form[u]
  BY <1>4, <1>7, <1>8
<1> QED
  BY <1>2, <1>3, <1>4, <1>5, <1>6, <1>9, PanelSends

LEMMA PanelSubmit ==
  ASSUME PanelBounds, PanelInv, NEW t \in Tabs, Panels!handleSubmit(t)
  PROVE  PanelInv'
<1>1. PICK values \in Panels!Sent(t) : Panels!Send(t, values, typed[t])
  BY DEF Panels!handleSubmit
<1>2. /\ panel \notin {"flags", "plan"}
      /\ UNCHANGED <<panel, record, shown, form, load, preview, stale, undone, misapplied, reselected>>
  BY DEF Panels!handleSubmit, Panels!ghosts
<1>3. PlanInv' /\ DOMAIN form' = Tabs
  BY <1>2 DEF PanelInv, PlanInv, PanelTypesOK
<1> QED
  BY <1>1, <1>2, <1>3, PanelSends

LEMMA PanelConfirm ==
  ASSUME PanelBounds, PanelInv, NEW t \in Tabs, Panels!handleConfirm(t)
  PROVE  PanelInv'
<1>1. /\ preview[t] # None /\ form[t] # None /\ Panels!Send(t, form[t], {"a"})
      /\ misapplied' = (misapplied \/ form[t].a # preview[t].plan)
      /\ UNCHANGED <<panel, record, shown, form, load, preview, stale, undone, reselected>>
  BY DEF Panels!handleConfirm
<1>2. panel = "plan" /\ form[t] \in [{"a"} -> Values]
  BY <1>1 DEF PanelInv, PlanInv
<1>3. misapplied' => reselected
  BY <1>1 DEF PanelInv, PlanInv
<1>4. PlanInv' /\ DOMAIN form' = Tabs
  BY <1>1, <1>3 DEF PanelInv, PlanInv, PanelTypesOK
<1>5. DOMAIN form[t] \subseteq {"a"}
  BY <1>2
<1> QED
  BY <1>1, <1>2, <1>4, <1>5, PanelSends

-----------------------------------------------------------------------------
(* The server's answer to a save.                                          *)
LEMMA PanelHandle ==
  ASSUME PanelBounds, PanelInv, NEW t \in Tabs, Panels!Handle(t)
  PROVE  PanelInv'
<1>1. PICK s \in saves[t] :
        /\ saves' = [saves EXCEPT ![t] = (@ \ {s}) \union {[s EXCEPT !.stage = "done", !.answer = record']}]
        /\ stale' = [u \in Tabs |-> stale[u] \/ u # t]
        /\ undone' = [undone EXCEPT ![t] = @ \/ \E f \in DOMAIN s.values \ s.touched :
                                                  s.values[f] # record[f]]
        /\ UNCHANGED <<panel, shown, form, load, preview, modal, misapplied, reselected, used>>
  BY DEF Panels!Handle
<1> DEFINE new == [s EXCEPT !.stage = "done", !.answer = record']
<1>2. DOMAIN s = {"values", "touched", "stage", "answer"} /\ DOMAIN saves = Tabs /\ DOMAIN undone = Tabs
      /\ stale \in [Tabs -> BOOLEAN]
  BY DEF PanelInv, PanelTypesOK
<1>3. /\ DOMAIN new = {"values", "touched", "stage", "answer"} /\ new.values = s.values
      /\ new.touched = s.touched /\ new.stage = "done"
  BY <1>2
<1> HIDE DEF new
<1>4. /\ DOMAIN saves' = Tabs /\ saves'[t] = (saves[t] \ {s}) \union {new}
      /\ \A u \in Tabs : u # t => saves'[u] = saves[u]
  BY <1>1, <1>2 DEF new
<1>5. stale' \in [Tabs -> BOOLEAN] /\ \A u \in Tabs : u # t => stale'[u] = TRUE
  BY <1>1, <1>2
<1>6. /\ DOMAIN undone' = Tabs /\ \A u \in Tabs : u # t => undone'[u] = undone[u]
      /\ DOMAIN s.values \subseteq s.touched => (undone'[t] => undone[t])
  BY <1>1, <1>2
<1>7. PanelTypesOK'
  BY <1>1, <1>3, <1>4, <1>5, <1>6 DEF PanelInv, PanelTypesOK
<1>8. PlanInv'
  BY <1>1 DEF PanelInv, PlanInv
<1>9. TouchedInv'
  BY <1>1, <1>3, <1>4, <1>6 DEF PanelInv, TouchedInv
<1>10. FlagInv'
  <2> SUFFICES ASSUME panel = "flags", NEW u \in Tabs, form[u] # None, NEW f \in DOMAIN form[u]
               PROVE  \E r \in saves'[u] : f \in r.touched
    BY <1>1 DEF FlagInv
  <2>1. PICK r \in saves[u] : f \in r.touched
    BY DEF PanelInv, FlagInv
  <2>2. CASE u = t /\ r = s
    BY <1>3, <1>4, <2>1, <2>2
  <2>3. CASE ~(u = t /\ r = s)
    BY <1>4, <2>1, <2>3
  <2> QED
    BY <2>2, <2>3
<1>11. LoadInv'
  <2>1. \A u \in Tabs : ~Settled(u)'
    BY <1>3, <1>4, <1>5 DEF Settled
  <2> QED
    BY <2>1 DEF LoadInv
<1>12. SwitchInv'
  <2> SUFFICES ASSUME panel = "flags", NEW u \in Tabs
               PROVE  /\ \A r \in saves'[u] :
                           form[u] # None /\ r.touched # {} /\ r.touched \subseteq DOMAIN form[u]
                      /\ \A q, r \in saves'[u] : q # r => q.touched \intersect r.touched = {}
    BY <1>1 DEF SwitchInv
  <2>1. /\ \A r \in saves[u] : form[u] # None /\ r.touched # {} /\ r.touched \subseteq DOMAIN form[u]
        /\ \A q, r \in saves[u] : q # r => q.touched \intersect r.touched = {}
    BY DEF PanelInv, SwitchInv
  <2>2. CASE u # t
    BY <1>4, <2>1, <2>2
  <2>3. CASE u = t
    <3>1. \A r \in saves'[t] : (r \in saves[t] /\ r # s) \/ r = new
      BY <1>4
    <3>2. ASSUME NEW q \in saves'[t], NEW r \in saves'[t], q # r
          PROVE  q.touched \intersect r.touched = {}
      BY <1>3, <2>1, <2>3, <3>1, <3>2
    <3>3. ASSUME NEW r \in saves'[t]
          PROVE  form[t] # None /\ r.touched # {} /\ r.touched \subseteq DOMAIN form[t]
      BY <1>3, <2>1, <2>3, <3>1
    <3> QED
      BY <2>3, <3>2, <3>3
  <2> QED
    BY <2>2, <2>3
<1> QED
  BY <1>7, <1>8, <1>9, <1>10, <1>11, <1>12 DEF PanelInv

LEMMA PanelRefuse ==
  ASSUME PanelBounds, PanelInv, NEW t \in Tabs, Panels!Refuse(t)
  PROVE  PanelInv'
<1>1. PICK s \in saves[t] :
        /\ s.stage = "sent"
        /\ used' = [used EXCEPT !.faults = @ + 1]
        /\ saves' = [saves EXCEPT ![t] = (@ \ {s}) \union {[s EXCEPT !.stage = "failed"]}]
        /\ UNCHANGED <<panel, record, shown, form, load, preview, modal, stale, undone, misapplied,
                       reselected>>
  BY DEF Panels!Refuse, Panels!ghosts
<1> DEFINE new == [s EXCEPT !.stage = "failed"]
<1>2. DOMAIN s = {"values", "touched", "stage", "answer"} /\ DOMAIN saves = Tabs
      /\ used \in [saves : Nat, loads : Nat, faults : Nat]
  BY DEF PanelInv, PanelTypesOK
<1>3. /\ DOMAIN new = {"values", "touched", "stage", "answer"} /\ new.values = s.values
      /\ new.touched = s.touched /\ new.stage = "failed"
  BY <1>2
<1> HIDE DEF new
<1>4. /\ DOMAIN saves' = Tabs /\ saves'[t] = (saves[t] \ {s}) \union {new}
      /\ \A u \in Tabs : u # t => saves'[u] = saves[u]
  BY <1>1, <1>2 DEF new
<1>5. used' \in [saves : Nat, loads : Nat, faults : Nat] /\ used'.loads = used.loads
  BY <1>1, <1>2
<1>6. PanelTypesOK'
  BY <1>1, <1>3, <1>4, <1>5 DEF PanelInv, PanelTypesOK
<1>7. PlanInv'
  BY <1>1 DEF PanelInv, PlanInv
<1>8. TouchedInv'
  BY <1>1, <1>3, <1>4 DEF PanelInv, TouchedInv
<1>9. FlagInv'
  <2> SUFFICES ASSUME panel = "flags", NEW u \in Tabs, form[u] # None, NEW f \in DOMAIN form[u]
               PROVE  \E r \in saves'[u] : f \in r.touched
    BY <1>1 DEF FlagInv
  <2>1. PICK r \in saves[u] : f \in r.touched
    BY DEF PanelInv, FlagInv
  <2>2. CASE u = t /\ r = s
    BY <1>3, <1>4, <2>1, <2>2
  <2>3. CASE ~(u = t /\ r = s)
    BY <1>4, <2>1, <2>3
  <2> QED
    BY <2>2, <2>3
<1>10. LoadInv'
  <2>1. \A u \in Tabs : Settled(u)' => Settled(u)
    <3> SUFFICES ASSUME NEW u \in Tabs, Settled(u)'
                 PROVE  Settled(u)
      OBVIOUS
    <3>1. ~stale[u] /\ used.loads < MaxLoads
      BY <1>1, <1>5 DEF Settled
    <3>2. \A r \in saves[u] : r.stage # "done"
      BY <1>1, <1>4 DEF Settled
    <3> QED
      BY <3>1, <3>2 DEF Settled
  <2> QED
    BY <1>1, <2>1 DEF PanelInv, LoadInv
<1>11. SwitchInv'
  <2> SUFFICES ASSUME panel = "flags", NEW u \in Tabs
               PROVE  /\ \A r \in saves'[u] :
                           form[u] # None /\ r.touched # {} /\ r.touched \subseteq DOMAIN form[u]
                      /\ \A q, r \in saves'[u] : q # r => q.touched \intersect r.touched = {}
    BY <1>1 DEF SwitchInv
  <2>1. /\ \A r \in saves[u] : form[u] # None /\ r.touched # {} /\ r.touched \subseteq DOMAIN form[u]
        /\ \A q, r \in saves[u] : q # r => q.touched \intersect r.touched = {}
    BY DEF PanelInv, SwitchInv
  <2>2. CASE u # t
    BY <1>4, <2>1, <2>2
  <2>3. CASE u = t
    <3>1. \A r \in saves'[t] : (r \in saves[t] /\ r # s) \/ r = new
      BY <1>4
    <3>2. ASSUME NEW q \in saves'[t], NEW r \in saves'[t], q # r
          PROVE  q.touched \intersect r.touched = {}
      BY <1>3, <2>1, <2>3, <3>1, <3>2
    <3>3. ASSUME NEW r \in saves'[t]
          PROVE  form[t] # None /\ r.touched # {} /\ r.touched \subseteq DOMAIN form[t]
      BY <1>3, <2>1, <2>3, <3>1
    <3> QED
      BY <2>3, <3>2, <3>3
  <2> QED
    BY <2>2, <2>3
<1> QED
  BY <1>6, <1>7, <1>8, <1>9, <1>10, <1>11 DEF PanelInv

LEMMA PanelAnswer ==
  ASSUME PanelBounds, PanelInv, NEW t \in Tabs, Panels!Answer(t)
  PROVE  PanelInv'
<1>1. PICK s \in saves[t] :
        /\ s.stage # "sent" /\ saves' = [saves EXCEPT ![t] = @ \ {s}]
        /\ form' = [form EXCEPT ![t] = Panels!Forget(t, s)]
        /\ IF s.stage = "done"
           THEN /\ IF panel \in {"flags", "plan", "rates"} THEN Panels!Reload(t)
                                                           ELSE UNCHANGED <<load, used>>
                /\ shown' = IF panel = "wizard" THEN [shown EXCEPT ![t] = s.answer] ELSE shown
                /\ preview' = [preview EXCEPT ![t] = None]
           ELSE UNCHANGED <<load, used, shown, preview>>
        /\ UNCHANGED <<panel, record, stale, undone, misapplied, reselected>>
  BY DEF Panels!Answer
<1>2. /\ DOMAIN saves = Tabs /\ DOMAIN form = Tabs /\ DOMAIN shown = Tabs /\ DOMAIN preview = Tabs
      /\ DOMAIN load = Tabs /\ used \in [saves : Nat, loads : Nat, faults : Nat]
  BY DEF PanelInv, PanelTypesOK
<1>3. /\ DOMAIN saves' = Tabs /\ saves'[t] = saves[t] \ {s}
      /\ \A u \in Tabs : u # t => saves'[u] = saves[u]
  BY <1>1, <1>2
<1>4. /\ DOMAIN form' = Tabs /\ form'[t] = Panels!Forget(t, s)
      /\ \A u \in Tabs : u # t => form'[u] = form[u]
  BY <1>1, <1>2
<1>5. /\ DOMAIN preview' = Tabs /\ \A u \in Tabs : preview'[u] # None => preview'[u] = preview[u]
      /\ s.stage = "done" => preview'[t] = None
  BY <1>1, <1>2
<1>6. DOMAIN shown' = Tabs /\ (panel # "wizard" => shown' = shown)
  BY <1>1, <1>2
<1>7. /\ DOMAIN load' = Tabs /\ used' \in [saves : Nat, loads : Nat, faults : Nat]
      /\ \A u \in Tabs : u # t => load'[u] = load[u]
      /\ used'.loads < MaxLoads => used.loads < MaxLoads
      /\ used'.loads < MaxLoads /\ panel \in Watched /\ s.stage = "done" =>
           load'[t] # None /\ load'[t].stage = "sent"
      /\ s.stage # "done" => load' = load
  <2>1. CASE s.stage = "done" /\ panel \in {"flags", "plan", "rates"}
    BY <1>1, <2>1, PanelReloads
  <2>2. CASE s.stage = "done" /\ panel \notin {"flags", "plan", "rates"}
    BY <1>1, <1>2, <2>2 DEF Watched
  <2>3. CASE s.stage # "done"
    BY <1>1, <1>2, <2>3
  <2> QED
    BY <2>1, <2>2, <2>3
<1>8. \A u \in Tabs : saves'[u] \subseteq saves[u]
  BY <1>3
<1>9. PanelTypesOK'
  BY <1>1, <1>3, <1>4, <1>5, <1>6, <1>7, <1>8 DEF PanelInv, PanelTypesOK
<1>10. PlanInv'
  <2>1. panel = "plan" => form'[t] = form[t] \/ form'[t] = None
    BY <1>4 DEF Panels!Forget
  <2>2. CASE panel = "plan"
    BY <1>1, <1>4, <1>5, <2>1, <2>2 DEF PanelInv, PlanInv
  <2>3. CASE panel # "plan"
    BY <1>1, <1>5, <2>3 DEF PanelInv, PlanInv
  <2> QED
    BY <2>2, <2>3
<1>11. TouchedInv'
  BY <1>1, <1>8 DEF PanelInv, TouchedInv
<1>12. FlagInv'
  <2> SUFFICES ASSUME panel = "flags", NEW u \in Tabs, form'[u] # None, NEW f \in DOMAIN form'[u]
               PROVE  \E r \in saves'[u] : f \in r.touched
    BY <1>1 DEF FlagInv
  <2>1. CASE u # t
    BY <1>3, <1>4, <2>1 DEF PanelInv, FlagInv
  <2>2. CASE u = t
    <3> DEFINE left == DOMAIN form[t] \ s.touched
    <3>1. Panels!Forget(t, s) = IF left = {} THEN None ELSE [g \in left |-> form[t][g]]
      BY DEF Panels!Forget
    <3>2. f \in DOMAIN form[t] /\ f \notin s.touched
      BY <1>4, <2>2, <3>1
    <3>3. form[t] # None
      BY DEF PanelInv, SwitchInv
    <3>4. PICK r \in saves[t] : f \in r.touched
      BY <3>2, <3>3 DEF PanelInv, FlagInv
    <3> QED
      BY <1>3, <2>2, <3>2, <3>4
  <2> QED
    BY <2>1, <2>2
<1>13. LoadInv'
  <2> SUFFICES ASSUME panel \in Watched, NEW u \in Tabs, Settled(u)'
               PROVE  /\ load'[u] = None /\ shown[u] # None => shown[u] = record
                      /\ load'[u] # None /\ load'[u].stage = "done" => load'[u].answer = record
    BY <1>1, <1>6 DEF LoadInv, Watched
  <2>1. ~stale[u] /\ used'.loads < MaxLoads /\ \A r \in saves'[u] : r.stage # "done"
    BY <1>1 DEF Settled
  <2>2. CASE u = t /\ s.stage = "done"
    BY <1>7, <2>1, <2>2
  <2>3. CASE ~(u = t /\ s.stage = "done")
    <3>1. \A r \in saves[u] : r.stage # "done"
      BY <1>3, <2>1, <2>3
    <3>2. Settled(u)
      BY <1>7, <2>1, <3>1 DEF Settled
    <3>3. load'[u] = load[u]
      BY <1>7, <2>3
    <3> QED
      BY <3>2, <3>3 DEF PanelInv, LoadInv
  <2> QED
    BY <2>2, <2>3
<1>14. SwitchInv'
  <2> SUFFICES ASSUME panel = "flags", NEW u \in Tabs
               PROVE  /\ \A r \in saves'[u] :
                           form'[u] # None /\ r.touched # {} /\ r.touched \subseteq DOMAIN form'[u]
                      /\ \A q, r \in saves'[u] : q # r => q.touched \intersect r.touched = {}
    BY <1>1 DEF SwitchInv
  <2>1. /\ \A r \in saves[u] : form[u] # None /\ r.touched # {} /\ r.touched \subseteq DOMAIN form[u]
        /\ \A q, r \in saves[u] : q # r => q.touched \intersect r.touched = {}
    BY DEF PanelInv, SwitchInv
  <2>2. CASE u # t
    BY <1>3, <1>4, <2>1, <2>2
  <2>3. CASE u = t
    <3> DEFINE left == DOMAIN form[t] \ s.touched
    <3>1. Panels!Forget(t, s) = IF left = {} THEN None ELSE [g \in left |-> form[t][g]]
      BY DEF Panels!Forget
    <3>2. ASSUME NEW r \in saves'[t]
          PROVE  r \in saves[t] /\ r.touched # {} /\ r.touched \subseteq left
      BY <1>3, <2>1, <2>3
    <3>3. ASSUME NEW r \in saves'[t]
          PROVE  form'[t] # None /\ DOMAIN form'[t] = left
      <4>1. form'[t] = [g \in left |-> form[t][g]]
        BY <1>4, <3>1, <3>2
      <4>2. DOMAIN form'[t] = left /\ form'[t] = [g \in DOMAIN form'[t] |-> form'[t][g]]
        BY <4>1
      <4> QED
        BY <4>2 DEF PanelBounds
    <3> QED
      BY <2>1, <2>3, <3>2, <3>3
  <2> QED
    BY <2>2, <2>3
<1> QED
  BY <1>9, <1>10, <1>11, <1>12, <1>13, <1>14 DEF PanelInv

-----------------------------------------------------------------------------
LEMMA PanelStep ==
  ASSUME PanelBounds, PanelInv, [Panels!Next]_Panels!vars
  PROVE  PanelInv'
<1>1. CASE UNCHANGED Panels!vars
  <2>1. UNCHANGED <<panel, record, shown, form, load, saves, preview, stale, undone, misapplied,
                    reselected, used>>
    BY <1>1 DEF Panels!vars
  <2> QED
    BY <2>1 DEF PanelInv, PanelTypesOK, PlanInv, TouchedInv, FlagInv, SwitchInv, LoadInv, Settled
<1>2. CASE Panels!Next
  BY <1>2, PanelOpen, PanelServeLoad, PanelLoaded, PanelFill, PanelType, PanelPlanSelect, PanelToggle,
     PanelSubmit, PanelPreview, PanelConfirm, PanelCancel, PanelHandle, PanelRefuse, PanelAnswer
     DEF Panels!Next
<1> QED
  BY <1>1, <1>2

LEMMA PanelFollows ==
  ASSUME PanelBounds, PanelInv
  PROVE  Panels!PanelsExplained
<1>1. Panels!UntouchedStays
  BY DEF Panels!UntouchedStays, PanelInv, TouchedInv
<1>2. Panels!ConfirmedIsApplied
  BY DEF Panels!ConfirmedIsApplied, PanelInv, PlanInv
<1>3. Panels!QuietShowsStored
  <2> SUFFICES ASSUME NEW t \in Tabs, panel \in {"flags", "plan", "rates"}, shown[t] # None,
                      saves[t] = {}, load[t] = None, ~stale[t], used.loads < MaxLoads,
                      NEW f \in Panels!Fields(panel)
               PROVE  (IF panel = "flags" THEN Panels!Shown(t, f) ELSE shown[t][f]) = record[f]
    BY DEF Panels!QuietShowsStored
  <2>1. shown[t] = record
    BY DEF PanelInv, LoadInv, Settled, Watched
  <2>2. panel = "flags" => Panels!Shown(t, f) = shown[t][f]
    BY DEF Panels!Shown, PanelInv, FlagInv
  <2> QED
    BY <2>1, <2>2
<1> QED
  BY <1>1, <1>2, <1>3 DEF Panels!PanelsExplained

(* A save of a flag or a plan changes only what its user touched, the plan *)
(* that is applied is the one that was confirmed unless another was        *)
(* selected meanwhile, and a tab no other tab's save has passed shows what *)
(* is stored (platform-feature-flags.tsx, subscription-panel.tsx,          *)
(* commission-rates-editor.tsx), for every number of tabs, values, saves   *)
(* and loads.                                                              *)
THEOREM PanelsAreExplained ==
  ASSUME PanelBounds
  PROVE  RequestsSpec => [](side = "panels" => Panels!PanelsExplained)
<1> DEFINE Inv == side = "panels" => PanelInv
<1>1. RequestsInit => Inv
  BY PanelsBegin DEF RequestsInit
<1>2. ASSUME Inv, [RequestsNext]_<<side, faults, apiVars, screenVars>>
      PROVE  Inv'
  <2> SUFFICES ASSUME side' = "panels"
               PROVE  PanelInv'
    OBVIOUS
  <2>1. side = "panels" /\ PanelInv
    BY <1>2 DEF RequestsNext
  <2>2. Panels!Next \/ UNCHANGED <<faults, panelVars>>
    BY <1>2, <2>1 DEF RequestsNext, ApiNext, StaffNext, ScreensNext, PanelsNext, screenVars
  <2>3. [Panels!Next]_Panels!vars
    BY <2>2 DEF panelVars, Panels!vars
  <2> QED
    BY <2>1, <2>3, PanelStep
<1>3. Inv => (side = "panels" => Panels!PanelsExplained)
  BY PanelFollows
<1> QED
  BY <1>1, <1>2, <1>3, PTL DEF RequestsSpec

-----------------------------------------------------------------------------
(***************************************************************************)
(* The catalog's page.  A gallery that has been on one model only has the  *)
(* source of that one; a request for pictures is waited for unless the end *)
(* of another passed for its own.                                          *)
(***************************************************************************)
GalleryInv ==
  /\ images \in {None, model}
  /\ source \in {None, model} \/ kept
  /\ asked => awaited \/ passed

PageInv == GalleryInv /\ CatalogPage!FiltersAreOffered

(* Where nothing is offered, nothing is filtered. *)
LEMMA NothingOffered ==
  ASSUME CatalogPage!FiltersAreOffered, CatalogPage!Mods = {}, ~refetched
  PROVE  filters = {}
<1>1. Cardinality({}) = 0 /\ ~(0 > 1)
  BY FS_EmptySet
<1>2. CatalogPage!Offered = {}
  BY <1>1 DEF CatalogPage!Offered
<1> QED
  BY <1>2 DEF CatalogPage!FiltersAreOffered

LEMMA PageBegin ==
  ASSUME CatalogPage!Init
  PROVE  PageInv
  BY DEF CatalogPage!Init, PageInv, GalleryInv, CatalogPage!FiltersAreOffered

LEMMA PageStep ==
  ASSUME PageInv, [CatalogPage!Next]_CatalogPage!vars
  PROVE  PageInv'
<1> USE DEF PageInv
<1>1. ASSUME UNCHANGED <<model, filters, refetched, cached, CatalogPage!galleryVars>>
      PROVE  PageInv'
  BY <1>1 DEF GalleryInv, CatalogPage!galleryVars, CatalogPage!FiltersAreOffered,
              CatalogPage!Offered, CatalogPage!Shown, CatalogPage!Mods
<1>2. CASE UNCHANGED CatalogPage!vars
  BY <1>1, <1>2 DEF CatalogPage!vars, CatalogPage!listVars, CatalogPage!galleryVars
<1>3. ASSUME NEW m \in Makes, CatalogPage!SelectModel(m)
      PROVE  PageInv'
  <2>1. CatalogPage!FiltersAreOffered'
    BY <1>3 DEF CatalogPage!SelectModel, CatalogPage!Refilter, CatalogPage!FiltersAreOffered
  <2>2. GalleryInv'
    BY <1>3 DEF CatalogPage!SelectModel, CatalogPage!Mount, CatalogPage!Remodel,
                CatalogPage!Unmount, GalleryInv
  <2> QED
    BY <2>1, <2>2
<1>4. ASSUME NEW m \in Makes, CatalogPage!FetchList(m)
      PROVE  PageInv'
  <2>1. GalleryInv'
    BY <1>4 DEF CatalogPage!FetchList, CatalogPage!galleryVars, GalleryInv
  <2>2. CASE cached[m] # None
    BY <1>4, <2>1, <2>2 DEF CatalogPage!FetchList, CatalogPage!FiltersAreOffered
  <2>3. CASE cached[m] = None
    <3>1. CatalogPage!Mods = {}
      BY <1>4, <2>3 DEF CatalogPage!FetchList, CatalogPage!Mods
    <3>2. refetched \/ filters = {}
      BY <3>1, NothingOffered
    <3>3. CatalogPage!FiltersAreOffered'
      BY <1>4, <3>2 DEF CatalogPage!FetchList, CatalogPage!FiltersAreOffered
    <3> QED
      BY <2>1, <3>3
  <2>4. CatalogPage!FiltersAreOffered'
    BY <2>2, <2>3
  <2> QED
    BY <2>1, <2>4
<1>5. ASSUME NEW m \in Makes, NEW set \in SUBSET Values, CatalogPage!Change(m, set)
      PROVE  PageInv'
  BY <1>1, <1>5 DEF CatalogPage!Change
<1>6. CASE CatalogPage!Age
  BY <1>1, <1>6 DEF CatalogPage!Age
<1>7. CASE CatalogPage!SelectMake
  BY <1>7 DEF CatalogPage!SelectMake, CatalogPage!Unmount, CatalogPage!Refilter, GalleryInv,
              CatalogPage!FiltersAreOffered
<1>8. CASE CatalogPage!Pictures \/ CatalogPage!AbortedEnds
  <2>1. CatalogPage!FiltersAreOffered'
    BY <1>8 DEF CatalogPage!Pictures, CatalogPage!AbortedEnds, CatalogPage!listVars,
                CatalogPage!FiltersAreOffered, CatalogPage!Offered, CatalogPage!Shown,
                CatalogPage!Mods
  <2>2. GalleryInv'
    <3>1. CASE CatalogPage!Pictures
      BY <3>1 DEF CatalogPage!Pictures, GalleryInv
    <3>2. CASE CatalogPage!AbortedEnds
      BY <3>2 DEF CatalogPage!AbortedEnds, GalleryInv
    <3> QED
      BY <1>8, <3>1, <3>2
  <2> QED
    BY <2>1, <2>2
<1>9. ASSUME NEW v \in Values, CatalogPage!Toggle(v)
      PROVE  PageInv'
  <2>1. CatalogPage!Mods' = CatalogPage!Mods /\ CatalogPage!Offered' = CatalogPage!Offered
    BY <1>9 DEF CatalogPage!Toggle, CatalogPage!Mods, CatalogPage!Offered, CatalogPage!listVars
  <2>2. v \in CatalogPage!Offered /\ CatalogPage!Offered = CatalogPage!Mods
    BY <1>9 DEF CatalogPage!Toggle, CatalogPage!Offered
  <2>3. refetched \/ filters' \subseteq CatalogPage!Offered
    BY <1>9, <2>2 DEF CatalogPage!Toggle, CatalogPage!FiltersAreOffered
  <2>4. CatalogPage!Shown' = IF filters' = {} THEN CatalogPage!Mods ELSE CatalogPage!Mods \intersect filters'
    BY <2>1 DEF CatalogPage!Shown
  <2>5. refetched' = refetched
    BY <1>9 DEF CatalogPage!Toggle
  <2>6. CatalogPage!FiltersAreOffered'
    BY <2>1, <2>2, <2>3, <2>4, <2>5 DEF CatalogPage!FiltersAreOffered
  <2>7. GalleryInv'
    BY <1>9 DEF CatalogPage!Toggle, CatalogPage!galleryVars, GalleryInv
  <2> QED
    BY <2>6, <2>7
<1>10. CASE CatalogPage!ClearAll
  BY <1>10 DEF CatalogPage!ClearAll, CatalogPage!galleryVars, GalleryInv,
               CatalogPage!FiltersAreOffered
<1> QED
  BY <1>2, <1>3, <1>4, <1>5, <1>6, <1>7, <1>8, <1>9, <1>10 DEF CatalogPage!Next

(* The pictures are of the model that is shown, an empty gallery has its   *)
(* answer, and a filter can be taken back, but for an API that names no    *)
(* source, an aborted request that ends late and a list fetched anew       *)
(* (model-gallery.tsx:21-40, modifications-table.tsx:296-418).             *)
THEOREM PageIsExplained == RequestsSpec => [](side = "catalog" => CatalogPage!PageExplained)
<1> DEFINE Inv == side = "catalog" => PageInv
<1>1. RequestsInit => Inv
  BY PageBegin DEF RequestsInit
<1>2. ASSUME Inv, [RequestsNext]_<<side, faults, apiVars, screenVars>>
      PROVE  Inv'
  <2> SUFFICES ASSUME side' = "catalog"
               PROVE  PageInv'
    OBVIOUS
  <2>1. side = "catalog" /\ PageInv
    BY <1>2 DEF RequestsNext
  <2>2. CatalogPage!Next \/ UNCHANGED <<faults, pageVars>>
    BY <1>2, <2>1 DEF RequestsNext, ApiNext, StaffNext, ScreensNext, screenVars
  <2>3. [CatalogPage!Next]_CatalogPage!vars
    BY <2>2 DEF pageVars, CatalogPage!vars, CatalogPage!listVars, CatalogPage!galleryVars
  <2> QED
    BY <2>1, <2>3, PageStep
<1>3. Inv => (side = "catalog" => CatalogPage!PageExplained)
  BY DEF CatalogPage!PageExplained, PageInv, GalleryInv, CatalogPage!GalleryShowsModel,
         CatalogPage!EmptyIsAnswered
<1> QED
  BY <1>1, <1>2, <1>3, PTL DEF RequestsSpec

-----------------------------------------------------------------------------
(***************************************************************************)
(* The log of an import.  An open stream has sent its run's lines up to    *)
(* the last it counted, unless some were read too late or wiped.           *)
(***************************************************************************)
ImportRuns == [kind : {"sync", "import"}, status : {"active", "done", "failed"}, lines : Nat,
               owes : BOOLEAN]
LogLines == [run : Nat, no : Nat]
Streams == [run : Nat, last : Nat, looks : SUBSET {"new", "old"}]

LogTypesOK ==
  /\ runs \in Seq(ImportRuns) /\ logs \in Seq(LogLines)
  /\ watched \in 0..Len(runs) /\ open \in BOOLEAN
  /\ stream \in {None} \union Streams
  /\ known \in [run : Nat, lines : Nat, busy : BOOLEAN] /\ known.run <= Len(runs)
  /\ ended \in BOOLEAN /\ dropped \in BOOLEAN /\ cleared \in BOOLEAN

(* A run's last line comes after its end, and only then. *)
RunsInv ==
  /\ \A r \in 1..Len(runs) :
       runs[r].owes => runs[r].status # "active" /\ (runs[r].kind = "sync" \/ runs[r].status = "failed")
  /\ known.run # 0 => known.lines <= runs[known.run].lines

StreamInv ==
  /\ stream # None =>
       /\ open /\ watched # 0 /\ stream.run = watched /\ stream.last <= runs[watched].lines
       /\ ~ended
  /\ ended => watched # 0
  /\ watched = 0 => logs = <<>>

(* What has been sent, in its order. *)
OrderInv ==
  open =>
    \A i \in 1..Len(logs) :
      /\ logs[i].run = watched
      /\ stream # None => logs[i].no <= stream.last
      /\ \A j \in 1..(i - 1) : logs[j].no < logs[i].no

AllTo(n) == Len(logs) = n /\ \A i \in 1..Len(logs) : logs[i] = SyncLog!Line(watched, i)

SentInv ==
  open /\ ~dropped /\ ~cleared =>
    /\ stream # None => AllTo(stream.last)
    /\ ended =>
         /\ runs[watched].status # "active"
         /\ \/ AllTo(runs[watched].lines)
            \/ /\ ~runs[watched].owes
               /\ Len(logs) + 1 = runs[watched].lines
               /\ runs[watched].kind = "sync" \/ runs[watched].status = "failed"

LogInv == LogTypesOK /\ RunsInv /\ StreamInv /\ OrderInv /\ SentInv

LEMMA LogBegin ==
  ASSUME SyncLog!Init
  PROVE  LogInv
<1> USE DEF SyncLog!Init
<1>1. <<>> \in Seq(ImportRuns) /\ <<>> \in Seq(LogLines) /\ Len(<<>>) = 0
  OBVIOUS
<1>2. [run |-> 0, lines |-> 0, busy |-> FALSE] \in [run : Nat, lines : Nat, busy : BOOLEAN]
  OBVIOUS
<1>3. known.run = 0
  OBVIOUS
<1>4. LogTypesOK
  <2>1. runs \in Seq(ImportRuns) /\ logs \in Seq(LogLines) /\ watched \in 0..Len(runs)
    BY <1>1
  <2>2. known \in [run : Nat, lines : Nat, busy : BOOLEAN] /\ known.run <= Len(runs)
    BY <1>1, <1>2, <1>3
  <2> QED
    BY <2>1, <2>2 DEF LogTypesOK
<1>5. RunsInv
  <2>1. 1..Len(runs) = {}
    BY <1>1
  <2> QED
    BY <1>3, <2>1 DEF RunsInv
<1>6. StreamInv
  BY DEF StreamInv
<1>7. OrderInv /\ SentInv
  BY DEF OrderInv, SentInv
<1> QED
  BY <1>4, <1>5, <1>6, <1>7 DEF LogInv

-----------------------------------------------------------------------------
(* A run that goes on: what it has lines of stays, and an end is an end. *)
LEMMA RunGoesOn ==
  ASSUME LogInv, NEW r \in 1..Len(runs), NEW ran \in ImportRuns, runs' = [runs EXCEPT ![r] = ran],
         ran.lines >= runs[r].lines, ran.kind = runs[r].kind,
         ran.owes => ran.status # "active" /\ (ran.kind = "sync" \/ ran.status = "failed"),
         \/ runs[r].status = "active"
         \/ /\ runs[r].status # "active" /\ ran.status = runs[r].status /\ runs[r].owes /\ ~ran.owes
            /\ ran.lines = runs[r].lines + 1,
         UNCHANGED <<watched, open, stream, logs, known, ended, dropped, cleared>>
  PROVE  LogInv'
<1> USE DEF LogInv
<1>1. /\ runs \in Seq(ImportRuns) /\ Len(runs) \in Nat /\ runs[r] \in ImportRuns
      /\ DOMAIN runs = 1..Len(runs)
  BY DEF LogTypesOK
<1>2. runs' \in Seq(ImportRuns) /\ Len(runs') = Len(runs)
  BY <1>1
<1>3. runs'[r] = ran /\ \A q \in 1..Len(runs) : q # r => runs'[q] = runs[q]
  BY <1>1
<1>4. LogTypesOK'
  BY <1>2 DEF LogTypesOK
<1>5. \A q \in 1..Len(runs) : runs'[q].lines >= runs[q].lines /\ runs[q].lines \in Nat /\ runs'[q].lines \in Nat
  <2> SUFFICES ASSUME NEW q \in 1..Len(runs)
               PROVE  runs'[q].lines >= runs[q].lines /\ runs[q].lines \in Nat /\ runs'[q].lines \in Nat
    OBVIOUS
  <2>1. runs[q] \in ImportRuns /\ runs'[q] \in ImportRuns
    BY <1>1, <1>3
  <2>2. runs[q].lines \in Nat /\ runs'[q].lines \in Nat
    BY <2>1 DEF ImportRuns
  <2>3. CASE q = r
    BY <1>3, <2>2, <2>3
  <2>4. CASE q # r
    BY <1>3, <2>2, <2>4
  <2> QED
    BY <2>2, <2>3, <2>4
<1>6. RunsInv'
  <2>1. \A q \in 1..Len(runs) :
          runs'[q].owes => runs'[q].status # "active"
                           /\ (runs'[q].kind = "sync" \/ runs'[q].status = "failed")
    BY <1>3 DEF RunsInv
  <2>2. known.run # 0 => known.lines <= runs'[known.run].lines
    <3>1. known.run \in Nat /\ known.lines \in Nat /\ known.run <= Len(runs)
      BY DEF LogTypesOK
    <3>2. ASSUME known.run # 0
          PROVE  known.lines <= runs'[known.run].lines
      <4>1. known.run \in 1..Len(runs)
        BY <1>1, <3>1, <3>2
      <4>2. known.lines <= runs[known.run].lines
        BY <3>2 DEF RunsInv
      <4> QED
        BY <1>5, <3>1, <4>1, <4>2
    <3> QED
      BY <3>2
  <2> QED
    BY <1>2, <2>1, <2>2 DEF RunsInv
<1>7. watched # 0 => watched \in 1..Len(runs)
  BY <1>1 DEF LogTypesOK
<1>8. StreamInv'
  <2>1. stream # None => stream.last <= runs'[watched].lines
    <3>1. ASSUME stream # None
          PROVE  stream.last <= runs'[watched].lines
      <4>1. stream.last \in Nat /\ watched \in 1..Len(runs) /\ stream.last <= runs[watched].lines
        BY <1>7, <3>1 DEF LogTypesOK, StreamInv, Streams
      <4> QED
        BY <1>5, <4>1
    <3> QED
      BY <3>1
  <2> QED
    BY <2>1 DEF StreamInv
<1>9. OrderInv'
  BY DEF OrderInv
<1>10. SentInv'
  <2> SUFFICES ASSUME open, ~dropped, ~cleared
               PROVE  SentInv'
    BY DEF SentInv
  <2>1. stream # None => AllTo(stream.last)
    BY DEF SentInv
  <2>2. ASSUME ended, r = watched
        PROVE  /\ runs'[watched].status # "active"
               /\ \/ AllTo(runs'[watched].lines)
                  \/ /\ ~runs'[watched].owes
                     /\ Len(logs) + 1 = runs'[watched].lines
                     /\ runs'[watched].kind = "sync" \/ runs'[watched].status = "failed"
    <3>1. /\ runs[watched].status # "active" /\ runs[watched].owes
          /\ ran.status = runs[watched].status /\ ran.lines = runs[watched].lines + 1
      BY <2>2 DEF SentInv
    <3>2. AllTo(runs[watched].lines)
      BY <2>2, <3>1 DEF SentInv
    <3>3. runs[watched].kind = "sync" \/ runs[watched].status = "failed"
      BY <2>2, <3>1 DEF RunsInv
    <3> QED
      BY <1>3, <2>2, <3>1, <3>2, <3>3 DEF AllTo
  <2>3. ASSUME ended, r # watched
        PROVE  runs'[watched] = runs[watched]
    BY <1>3, <1>7, <2>3 DEF StreamInv
  <2> QED
    BY <2>1, <2>2, <2>3 DEF SentInv, AllTo
<1> QED
  BY <1>4, <1>6, <1>8, <1>9, <1>10

(* What becomes of a run. *)
LEMMA RunEnds ==
  ASSUME NEW run \in ImportRuns, NEW end \in {"done", "failed"}, NEW owing \in BOOLEAN
  PROVE  LET ran == [run EXCEPT !.status = end, !.owes = owing]
         IN  ran \in ImportRuns /\ ran.kind = run.kind /\ ran.status = end
             /\ ran.lines = run.lines /\ ran.owes = owing
  BY DEF ImportRuns

LEMMA RunBreaks ==
  ASSUME NEW run \in ImportRuns, NEW end \in {"done", "failed"}, NEW n \in Nat
  PROVE  LET ran == [run EXCEPT !.status = end, !.lines = n]
         IN  ran \in ImportRuns /\ ran.kind = run.kind /\ ran.status = end
             /\ ran.lines = n /\ ran.owes = run.owes
  BY DEF ImportRuns

LEMMA RunCloses ==
  ASSUME NEW run \in ImportRuns, NEW n \in Nat, NEW owing \in BOOLEAN
  PROVE  LET ran == [run EXCEPT !.lines = n, !.owes = owing]
         IN  ran \in ImportRuns /\ ran.kind = run.kind /\ ran.status = run.status
             /\ ran.lines = n /\ ran.owes = owing
  BY DEF ImportRuns

LEMMA RunLogs ==
  ASSUME NEW run \in ImportRuns, NEW n \in Nat
  PROVE  LET ran == [run EXCEPT !.lines = n]
         IN  ran \in ImportRuns /\ ran.kind = run.kind /\ ran.status = run.status
             /\ ran.lines = n /\ ran.owes = run.owes
  BY DEF ImportRuns

LEMMA LogRuns ==
  ASSUME LogInv, NEW r \in 1..SyncLog!Latest,
         SyncLog!Log(r) \/ SyncLog!Finish(r) \/ SyncLog!LastLine(r)
  PROVE  LogInv'
<1>0. r \in 1..Len(runs)
  BY DEF SyncLog!Latest
<1>1. runs[r] \in ImportRuns
  BY <1>0 DEF LogInv, LogTypesOK
<1>2. UNCHANGED <<watched, open, stream, logs, known, ended, dropped, cleared>>
  BY DEF SyncLog!Log, SyncLog!Finish, SyncLog!LastLine
<1>3. runs[r].owes => runs[r].status # "active" /\ (runs[r].kind = "sync" \/ runs[r].status = "failed")
  BY <1>0 DEF LogInv, RunsInv
<1>4. /\ runs[r].status \in {"active", "done", "failed"} /\ runs[r].owes \in BOOLEAN
      /\ runs[r].kind \in {"sync", "import"} /\ runs[r].lines \in Nat
  BY <1>1 DEF ImportRuns
<1>5. /\ runs[r].lines + 1 \in Nat /\ runs[r].lines + 1 >= runs[r].lines
      /\ runs[r].lines >= runs[r].lines
  BY <1>4
<1>9. "failed" \in {"done", "failed"} /\ "done" \in {"done", "failed"}
  OBVIOUS
<1>6. CASE SyncLog!Log(r)
  <2> DEFINE ran == [runs[r] EXCEPT !.lines = runs[r].lines + 1]
  <2>1. runs' = [runs EXCEPT ![r] = ran]
    BY <1>6 DEF SyncLog!Log, SyncLog!Append1
  <2>2. /\ ran \in ImportRuns /\ ran.lines = runs[r].lines + 1 /\ ran.kind = runs[r].kind
        /\ ran.owes = runs[r].owes /\ ran.status = runs[r].status
    BY <1>1, <1>5, RunLogs, Zenon
  <2>3. runs[r].status = "active"
    BY <1>4, <1>6 DEF SyncLog!Log, SyncLog!Terminal
  <2> HIDE DEF ran
  <2> QED
    BY <1>0, <1>2, <1>3, <1>5, <2>1, <2>2, <2>3, RunGoesOn
<1>7. CASE SyncLog!Finish(r)
  <2>1. runs[r].status = "active" /\ ~runs[r].owes
    BY <1>3, <1>4, <1>7 DEF SyncLog!Finish, SyncLog!Terminal
  <2>2. CASE runs' = [runs EXCEPT ![r] = [@ EXCEPT !.status = "failed", !.owes = TRUE]]
    <3> DEFINE ran == [runs[r] EXCEPT !.status = "failed", !.owes = TRUE]
    <3>1. /\ ran \in ImportRuns /\ ran.lines = runs[r].lines /\ ran.kind = runs[r].kind
          /\ ran.status = "failed"
      BY <1>1, RunEnds
    <3>2. runs' = [runs EXCEPT ![r] = ran]
      BY <2>2
    <3> HIDE DEF ran
    <3> QED
      BY <1>0, <1>2, <1>5, <2>1, <3>1, <3>2, RunGoesOn
  <2>3. CASE runs' = [runs EXCEPT ![r] = [@ EXCEPT !.status = "failed", !.lines = runs[r].lines + 1]]
    <3> DEFINE old == runs[r]
               more == runs[r].lines + 1
               ran == [old EXCEPT !.status = "failed", !.lines = more]
    <3>1. /\ ran \in ImportRuns /\ ran.lines = runs[r].lines + 1 /\ ran.kind = runs[r].kind
          /\ ran.status = "failed"
      <4>1. old \in ImportRuns /\ more \in Nat
        BY <1>1, <1>5
      <4> HIDE DEF old, more
      <4>2. /\ ran \in ImportRuns /\ ran.lines = more /\ ran.kind = old.kind
            /\ ran.status = "failed"
        BY <1>9, <4>1, RunBreaks
      <4> HIDE DEF ran
      <4> QED
        BY <4>2 DEF old, more
    <3>2. runs' = [runs EXCEPT ![r] = ran]
      BY <2>3
    <3> HIDE DEF ran
    <3> QED
      BY <1>0, <1>2, <1>5, <2>1, <3>1, <3>2, RunGoesOn
  <2>4. CASE runs' = [runs EXCEPT ![r] = [@ EXCEPT !.status = "done", !.owes = runs[r].kind = "sync"]]
    <3> DEFINE owing == runs[r].kind = "sync"
               old == runs[r]
               ran == [old EXCEPT !.status = "done", !.owes = owing]
    <3>1. owing \in BOOLEAN
      OBVIOUS
    <3>2. /\ ran \in ImportRuns /\ ran.lines = runs[r].lines /\ ran.kind = runs[r].kind
          /\ ran.status = "done" /\ ran.owes = owing
      <4>1. old \in ImportRuns
        BY <1>1
      <4> HIDE DEF old, owing
      <4>2. /\ ran \in ImportRuns /\ ran.lines = old.lines /\ ran.kind = old.kind
            /\ ran.status = "done" /\ ran.owes = owing
        BY <1>9, <3>1, <4>1, RunEnds
      <4> HIDE DEF ran
      <4> QED
        BY <4>2 DEF old
    <3>3. runs' = [runs EXCEPT ![r] = ran]
      BY <2>4
    <3>4. ran.owes => ran.kind = "sync"
      <4>1. owing => runs[r].kind = "sync"
        OBVIOUS
      <4> HIDE DEF owing, ran
      <4> QED
        BY <3>2, <4>1
    <3> HIDE DEF owing, ran
    <3> QED
      BY <1>0, <1>2, <1>5, <2>1, <3>2, <3>3, <3>4, RunGoesOn
  <2> QED
    BY <1>7, <2>2, <2>3, <2>4 DEF SyncLog!Finish
<1>8. CASE SyncLog!LastLine(r)
  <2> DEFINE ran == [runs[r] EXCEPT !.lines = runs[r].lines + 1, !.owes = FALSE]
  <2>1. runs' = [runs EXCEPT ![r] = ran]
    BY <1>8 DEF SyncLog!LastLine
  <2>2. /\ ran \in ImportRuns /\ ran.lines = runs[r].lines + 1 /\ ran.kind = runs[r].kind
        /\ ~ran.owes /\ ran.status = runs[r].status
    BY <1>1, <1>5, RunCloses, Zenon
  <2>3. runs[r].owes /\ runs[r].status # "active"
    BY <1>3, <1>8 DEF SyncLog!LastLine
  <2> HIDE DEF ran
  <2> QED
    BY <1>0, <1>2, <1>5, <2>1, <2>2, <2>3, RunGoesOn
<1> QED
  BY <1>6, <1>7, <1>8

-----------------------------------------------------------------------------
(* The lines a look finds. *)
LEMMA FreshLines ==
  ASSUME LogInv, stream # None
  PROVE  /\ SyncLog!Fresh \in Seq(LogLines)
         /\ stream \in Streams /\ watched \in 1..Len(runs) /\ runs[watched] \in ImportRuns
         /\ runs[watched].lines \in Nat /\ stream.last \in Nat
         /\ Len(SyncLog!Fresh) = runs[watched].lines - stream.last
         /\ \A i \in 1..Len(SyncLog!Fresh) : SyncLog!Fresh[i] = SyncLog!Line(watched, stream.last + i)
<1>1. /\ stream \in Streams /\ watched \in 1..Len(runs) /\ runs[watched] \in ImportRuns
      /\ stream.run = watched /\ stream.last <= runs[watched].lines
  BY DEF LogInv, LogTypesOK, StreamInv
<1>2. runs[watched].lines \in Nat /\ stream.last \in Nat
  BY <1>1 DEF Streams, ImportRuns
<1> DEFINE n == runs[watched].lines
           all == SyncLog!Lines(watched)
<1>3. all = [k \in 1..n |-> SyncLog!Line(watched, k)]
  BY DEF SyncLog!Lines
<1>4. SyncLog!Fresh = SubSeq(all, stream.last + 1, n)
  BY <1>1 DEF SyncLog!Fresh
<1>5. \A k \in Nat : SyncLog!Line(watched, k) \in LogLines
  BY <1>1 DEF SyncLog!Line, LogLines
<1> HIDE DEF n, all
<1>6. n \in Nat /\ stream.last \in Nat /\ stream.last <= n
  BY <1>1, <1>2 DEF n
<1>7. \A k \in (stream.last + 1)..n : all[k] = SyncLog!Line(watched, k) /\ k \in Nat
  BY <1>3, <1>6
<1>8. \A k \in (stream.last + 1)..n : all[k] \in LogLines
  BY <1>5, <1>7
<1> DEFINE m == stream.last + 1
<1>9. m \in Int /\ n \in Int /\ (IF m <= n THEN n - m + 1 ELSE 0) = n - stream.last
      /\ n - m + 1 = n - stream.last
  BY <1>6
<1>10. /\ SubSeq(all, m, n) \in Seq(LogLines)
       /\ Len(SubSeq(all, m, n)) = IF m <= n THEN n - m + 1 ELSE 0
       /\ \A i \in 1..n - m + 1 : SubSeq(all, m, n)[i] = all[m + i - 1]
  <2> HIDE DEF m
  <2> QED
    BY <1>8, <1>9, SubSeqProperties DEF m
<1>11. \A i \in 1..(n - stream.last) : SyncLog!Fresh[i] = SyncLog!Line(watched, stream.last + i)
  <2> SUFFICES ASSUME NEW i \in 1..(n - stream.last)
               PROVE  SyncLog!Fresh[i] = SyncLog!Line(watched, stream.last + i)
    OBVIOUS
  <2>1. m + i - 1 = stream.last + i /\ stream.last + i \in (stream.last + 1)..n /\ i \in 1..n - m + 1
    BY <1>6
  <2> QED
    BY <1>4, <1>7, <1>10, <2>1
<1> QED
  BY <1>1, <1>2, <1>4, <1>9, <1>10, <1>11 DEF n

LEMMA StreamSeen ==
  ASSUME NEW look \in {"new", "old"}, stream \in Streams, runs[watched].lines \in Nat,
         stream.run = watched, stream' = SyncLog!Seen(look)
  PROVE  stream' \in Streams /\ stream'.run = watched /\ stream'.last = runs[watched].lines
<1> DEFINE old == stream
           n == runs[watched].lines
           rest == stream.looks \ {look}
           new == [old EXCEPT !.last = n, !.looks = rest]
<1>1. stream' = new
  BY DEF SyncLog!Seen
<1>2. old \in Streams /\ n \in Nat /\ old.run = watched /\ rest \in SUBSET {"new", "old"}
  BY DEF Streams
<1> HIDE DEF old, n, rest
<1>3. new \in Streams /\ new.run = old.run /\ new.last = n
  BY <1>2 DEF Streams
<1> HIDE DEF new
<1> QED
  BY <1>1, <1>2, <1>3 DEF n

(* A look that ends the stream found nothing new after the end of the run. *)
LEMMA LogEnds ==
  ASSUME LogInv, SyncLog!Look, SyncLog!Ends
  PROVE  LogInv'
<1> USE DEF LogInv
<1>1. /\ stream # None /\ logs' = logs /\ stream' = None /\ ended' = TRUE
      /\ UNCHANGED <<runs, watched, open, known, dropped, cleared>>
  BY DEF SyncLog!Look
<1>2. /\ stream \in Streams /\ watched \in 1..Len(runs) /\ stream.last \in Nat
      /\ runs[watched] \in ImportRuns /\ runs[watched].lines \in Nat
      /\ Len(SyncLog!Fresh) = runs[watched].lines - stream.last
  BY <1>1, FreshLines
<1>3. SyncLog!Fresh = <<>> /\ stream.run = watched /\ runs[watched].status # "active"
  BY <1>1 DEF SyncLog!Ends, SyncLog!Terminal, StreamInv
<1>4. Len(SyncLog!Fresh) = 0
  BY <1>3
<1>5. stream.last = runs[watched].lines
  BY <1>2, <1>4
<1>6. LogTypesOK'
  BY <1>1 DEF LogTypesOK
<1>7. RunsInv'
  BY <1>1 DEF RunsInv
<1>8. StreamInv'
  BY <1>1 DEF StreamInv
<1>9. OrderInv'
  BY <1>1 DEF OrderInv
<1>10. SentInv'
  <2>1. ~dropped /\ ~cleared /\ open => AllTo(runs[watched].lines)
    BY <1>1, <1>5 DEF SentInv
  <2> QED
    BY <1>1, <1>3, <2>1 DEF SentInv, AllTo
<1> QED
  BY <1>6, <1>7, <1>8, <1>9, <1>10

(* One that does not sends what is new. *)
LEMMA LogGrows ==
  ASSUME LogInv, SyncLog!Look, ~SyncLog!Ends
  PROVE  LogInv'
<1> USE DEF LogInv
<1> DEFINE fresh == SyncLog!Fresh
           all == runs[watched].lines
           k == Len(logs)
<1>1. /\ stream # None /\ logs' = logs \o fresh /\ stream' = SyncLog!Seen("new")
      /\ ended' = ended
      /\ UNCHANGED <<runs, watched, open, known, dropped, cleared>>
  BY DEF SyncLog!Look, LogTypesOK
<1>2. /\ fresh \in Seq(LogLines) /\ stream \in Streams /\ watched \in 1..Len(runs)
      /\ all \in Nat /\ stream.last \in Nat
      /\ Len(fresh) = all - stream.last
      /\ \A i \in 1..Len(fresh) : fresh[i] = SyncLog!Line(watched, stream.last + i)
  BY <1>1, FreshLines
<1>3. stream.run = watched /\ stream.last <= all /\ open /\ ~ended /\ watched # 0
  BY <1>1 DEF StreamInv
<1>4. stream' \in Streams /\ stream'.run = watched /\ stream'.last = all
  <2>1. "new" \in {"new", "old"} /\ stream' = SyncLog!Seen("new")
    BY <1>1
  <2> QED
    BY <1>2, <1>3, <2>1, StreamSeen
<1>5. logs \in Seq(LogLines) /\ k \in Nat
  BY DEF LogTypesOK
<1>6. /\ logs' \in Seq(LogLines) /\ Len(logs') = k + (all - stream.last)
      /\ \A i \in 1..k : logs'[i] = logs[i]
      /\ \A i \in (k + 1)..Len(logs') : logs'[i] = fresh[i - k] /\ i - k \in 1..Len(fresh)
  <2> HIDE DEF fresh, all
  <2>1. logs' \in Seq(LogLines) /\ Len(logs') = k + Len(fresh)
    BY <1>1, <1>2, <1>5
  <2>2. \A i \in 1..k : logs'[i] = logs[i]
    BY <1>1, <1>2, <1>5
  <2>3. \A i \in (k + 1)..Len(logs') : logs'[i] = fresh[i - k] /\ i - k \in 1..Len(fresh)
    BY <1>1, <1>2, <1>5, <2>1
  <2> QED
    BY <1>2, <2>1, <2>2, <2>3
<1>7. \A i \in (k + 1)..Len(logs') : logs'[i] = SyncLog!Line(watched, stream.last + (i - k))
  BY <1>2, <1>6
<1>8. LogTypesOK'
  BY <1>1, <1>4, <1>6 DEF LogTypesOK
<1>9. RunsInv'
  BY <1>1 DEF RunsInv
<1>10. StreamInv'
  <2>1. all <= all
    BY <1>2
  <2> QED
    BY <1>1, <1>3, <1>4, <2>1 DEF StreamInv
<1>11. OrderInv'
  <2>1. \A i \in 1..k : /\ logs[i].run = watched /\ logs[i].no <= stream.last /\ logs[i].no \in Nat
                        /\ \A j \in 1..(i - 1) : logs[j].no < logs[i].no
    <3>1. \A i \in 1..k : logs[i] \in LogLines
      BY <1>5
    <3>2. \A i \in 1..k : logs[i].no \in Nat
      BY <3>1 DEF LogLines
    <3> QED
      BY <1>1, <1>3, <3>2 DEF OrderInv
  <2>2. \A i \in (k + 1)..Len(logs') : logs'[i].run = watched /\ logs'[i].no = stream.last + (i - k)
    <3> SUFFICES ASSUME NEW i \in (k + 1)..Len(logs')
                 PROVE  logs'[i].run = watched /\ logs'[i].no = stream.last + (i - k)
      OBVIOUS
    <3> DEFINE n == stream.last + (i - k)
               line == logs'[i]
    <3>1. line = [run |-> watched, no |-> n]
      BY <1>7 DEF SyncLog!Line
    <3> HIDE DEF n, line
    <3>2. line.run = watched /\ line.no = n
      BY <3>1
    <3> QED
      BY <3>2 DEF n, line
  <2> SUFFICES ASSUME NEW i \in 1..Len(logs')
               PROVE  /\ logs'[i].run = watched /\ logs'[i].no <= all
                      /\ \A j \in 1..(i - 1) : logs'[j].no < logs'[i].no
    BY <1>1, <1>4 DEF OrderInv
  <2> HIDE DEF all, k
  <2>3. CASE i \in 1..k
    <3>1. logs'[i] = logs[i] /\ \A j \in 1..(i - 1) : j \in 1..k /\ logs'[j] = logs[j]
      BY <1>5, <1>6, <2>3
    <3>2. logs[i].no <= all
      BY <1>2, <1>3, <2>1, <2>3
    <3> QED
      BY <2>1, <2>3, <3>1, <3>2
  <2>4. CASE i \notin 1..k
    <3>1. i \in (k + 1)..Len(logs') /\ i \in Nat /\ Len(logs') \in Nat
      BY <1>2, <1>3, <1>5, <1>6, <2>4
    <3>2. logs'[i].run = watched /\ logs'[i].no = stream.last + (i - k)
      BY <2>2, <3>1
    <3>3. stream.last + (i - k) <= all
      BY <1>2, <1>3, <1>5, <1>6, <3>1
    <3>4. ASSUME NEW j \in 1..(i - 1)
          PROVE  logs'[j].no < stream.last + (i - k)
      <4>1. CASE j \in 1..k
        <5>1. logs'[j].no <= stream.last /\ logs'[j].no \in Nat
          BY <1>6, <2>1, <4>1
        <5>2. i - k > 0 /\ i - k \in Int
          BY <1>5, <3>1
        <5> QED
          BY <1>2, <5>1, <5>2
      <4>2. CASE j \notin 1..k
        <5>1. j \in (k + 1)..Len(logs') /\ j < i /\ j \in Nat
          BY <1>5, <3>1, <4>2
        <5>2. logs'[j].no = stream.last + (j - k)
          BY <2>2, <5>1
        <5> QED
          BY <1>2, <1>5, <3>1, <5>1, <5>2
      <4> QED
        BY <4>1, <4>2
    <3> QED
      BY <3>2, <3>3, <3>4
  <2> QED
    BY <2>3, <2>4
<1>12. SentInv'
  <2> SUFFICES ASSUME open, ~dropped, ~cleared
               PROVE  AllTo(all)'
    BY <1>1, <1>3, <1>4 DEF SentInv, AllTo
  <2>1. AllTo(stream.last)
    BY <1>1 DEF SentInv
  <2>2. k = stream.last /\ \A i \in 1..k : logs[i] = SyncLog!Line(watched, i)
    BY <2>1 DEF AllTo
  <2> HIDE DEF k, fresh
  <2>3. Len(logs') = all
    BY <1>2, <1>5, <1>6, <2>2
  <2>4. \A i \in (k + 1)..Len(logs') : logs'[i] = SyncLog!Line(watched, i)
    <3>1. \A i \in (k + 1)..Len(logs') : stream.last + (i - k) = i
      BY <1>2, <2>2, <2>3
    <3> QED
      BY <1>7, <3>1
  <2>5. \A i \in 1..Len(logs') : logs'[i] = SyncLog!Line(watched, i)
    <3> SUFFICES ASSUME NEW i \in 1..Len(logs')
                 PROVE  logs'[i] = SyncLog!Line(watched, i)
      OBVIOUS
    <3>1. CASE i \in 1..k
      BY <1>6, <2>2, <3>1
    <3>2. CASE i \notin 1..k
      <4>1. i \in (k + 1)..Len(logs')
        BY <1>2, <1>5, <2>3, <3>2
      <4> QED
        BY <2>4, <4>1
    <3> QED
      BY <3>1, <3>2
  <2> QED
    BY <1>1, <2>3, <2>5 DEF AllTo, SyncLog!Line
<1> QED
  BY <1>8, <1>9, <1>10, <1>11, <1>12

(* One that comes too late counts the lines it throws away. *)
LEMMA LogLate ==
  ASSUME LogInv, SyncLog!LateLook
  PROVE  LogInv'
<1> USE DEF LogInv
<1> DEFINE all == runs[watched].lines
<1>1. /\ stream # None /\ stream' = SyncLog!Seen("old")
      /\ dropped' = (dropped \/ SyncLog!Fresh # <<>>)
      /\ UNCHANGED <<runs, watched, open, logs, known, ended, cleared>>
  BY DEF SyncLog!LateLook
<1>2. /\ stream \in Streams /\ watched \in 1..Len(runs) /\ all \in Nat /\ stream.last \in Nat
      /\ Len(SyncLog!Fresh) = all - stream.last
  BY <1>1, FreshLines
<1>3. stream.run = watched /\ stream.last <= all /\ open /\ ~ended /\ watched # 0
  BY <1>1 DEF StreamInv
<1>4. stream' \in Streams /\ stream'.run = watched /\ stream'.last = all
  <2>1. "old" \in {"new", "old"} /\ stream' = SyncLog!Seen("old")
    BY <1>1
  <2> QED
    BY <1>2, <1>3, <2>1, StreamSeen
<1>5. ~dropped' => ~dropped /\ stream.last = all
  <2>1. ASSUME SyncLog!Fresh = <<>>
        PROVE  stream.last = all
    <3>1. Len(SyncLog!Fresh) = 0
      BY <2>1
    <3> QED
      BY <1>2, <3>1
  <2> QED
    BY <1>1, <2>1
<1>6. LogTypesOK'
  BY <1>1, <1>4 DEF LogTypesOK
<1>7. RunsInv'
  BY <1>1 DEF RunsInv
<1>8. StreamInv'
  <2>1. all <= all
    BY <1>2
  <2> QED
    BY <1>1, <1>3, <1>4, <2>1 DEF StreamInv
<1>9. OrderInv'
  <2>1. \A i \in 1..Len(logs) : logs[i].no <= all
    <3> SUFFICES ASSUME NEW i \in 1..Len(logs)
                 PROVE  logs[i].no <= all
      OBVIOUS
    <3>1. logs[i] \in LogLines
      BY DEF LogTypesOK
    <3>2. logs[i].no \in Nat /\ logs[i].no <= stream.last
      BY <1>1, <1>3, <3>1 DEF OrderInv, LogLines
    <3> QED
      BY <1>2, <1>3, <3>2
  <2> QED
    BY <1>1, <1>4, <2>1 DEF OrderInv
<1>10. SentInv'
  BY <1>1, <1>3, <1>4, <1>5 DEF SentInv, AllTo
<1> QED
  BY <1>6, <1>7, <1>8, <1>9, <1>10

LEMMA LogTick ==
  ASSUME LogInv, SyncLog!Tick \/ SyncLog!Break \/ SyncLog!AskStatus
  PROVE  LogInv'
<1> USE DEF LogInv
<1>1. CASE SyncLog!Tick
  <2>1. stream \in Streams /\ stream # None
    BY <1>1 DEF SyncLog!Tick, LogTypesOK
  <2>2. stream' \in Streams /\ stream'.run = stream.run /\ stream'.last = stream.last
    BY <1>1, <2>1 DEF SyncLog!Tick, Streams
  <2>3. UNCHANGED <<runs, watched, open, logs, known, ended, dropped, cleared>>
    BY <1>1 DEF SyncLog!Tick
  <2>4. LogTypesOK' /\ RunsInv'
    BY <2>2, <2>3 DEF LogTypesOK, RunsInv
  <2>5. StreamInv' /\ OrderInv' /\ SentInv'
    BY <2>1, <2>2, <2>3 DEF StreamInv, OrderInv, SentInv, AllTo
  <2> QED
    BY <2>4, <2>5
<1>2. CASE SyncLog!Break
  <2>1. LogTypesOK' /\ RunsInv'
    BY <1>2 DEF SyncLog!Break, LogTypesOK, RunsInv
  <2>2. StreamInv' /\ OrderInv' /\ SentInv'
    BY <1>2 DEF SyncLog!Break, StreamInv, OrderInv, SentInv
  <2> QED
    BY <2>1, <2>2
<1>3. CASE SyncLog!AskStatus
  <2>1. UNCHANGED <<runs, watched, open, stream, logs, ended, dropped, cleared>>
    BY <1>3 DEF SyncLog!AskStatus
  <2>2. Len(runs) \in Nat /\ Len(runs) > 0 /\ runs[Len(runs)] \in ImportRuns
    BY <1>3 DEF SyncLog!AskStatus, SyncLog!Latest, LogTypesOK
  <2>3. /\ known' \in [run : Nat, lines : Nat, busy : BOOLEAN]
        /\ known'.run = Len(runs) /\ known'.lines = runs[Len(runs)].lines
        /\ runs[Len(runs)].lines \in Nat
    BY <1>3, <2>2 DEF SyncLog!AskStatus, SyncLog!Latest, ImportRuns
  <2>4. LogTypesOK'
    BY <2>1, <2>2, <2>3 DEF LogTypesOK
  <2>5. RunsInv'
    BY <2>1, <2>3 DEF RunsInv
  <2>6. StreamInv' /\ OrderInv' /\ SentInv'
    BY <2>1 DEF StreamInv, OrderInv, SentInv, AllTo
  <2> QED
    BY <2>4, <2>5, <2>6
<1> QED
  BY <1>1, <1>2, <1>3

(* What is shown is wiped. *)
LEMMA LogWiped ==
  ASSUME LogInv, logs' = <<>>, cleared' \in BOOLEAN, (logs = <<>> /\ cleared' = cleared) \/ cleared',
         UNCHANGED <<runs, watched, open, stream, known, ended, dropped>>
  PROVE  LogInv'
<1> USE DEF LogInv
<1>1. <<>> \in Seq(LogLines) /\ Len(<<>>) = 0
  OBVIOUS
<1>2. LogTypesOK'
  BY <1>1 DEF LogTypesOK
<1>3. RunsInv' /\ StreamInv'
  BY DEF RunsInv, StreamInv
<1>4. OrderInv'
  BY <1>1 DEF OrderInv
<1>5. SentInv'
  BY DEF SentInv, AllTo
<1> QED
  BY <1>2, <1>3, <1>4, <1>5

LEMMA LogFollow ==
  ASSUME LogInv, NEW run \in 0..Len(runs'), NEW visible \in BOOLEAN, SyncLog!Follow(run, visible),
         run = 0 => watched = 0,
         runs' \in Seq(ImportRuns), Len(runs') >= Len(runs),
         \A r \in 1..Len(runs) : runs'[r] = runs[r],
         \A r \in 1..Len(runs') :
           runs'[r].owes => /\ runs'[r].status # "active"
                            /\ runs'[r].kind = "sync" \/ runs'[r].status = "failed",
         UNCHANGED known
  PROVE  LogInv'
<1> USE DEF LogInv
<1>0. <<>> \in Seq(LogLines) /\ Len(<<>>) = 0
  OBVIOUS
<1>1. open' = visible /\ watched' = run
  BY DEF SyncLog!Follow
<1>2. known.run <= Len(runs')
  <2>1. known.run \in Nat /\ known.run <= Len(runs) /\ Len(runs) \in Nat /\ Len(runs') \in Nat
    BY DEF LogTypesOK
  <2> QED
    BY <2>1
<1>3. RunsInv'
  <2>1. ASSUME known.run # 0
        PROVE  known.lines <= runs'[known.run].lines
    <3>1. known.run \in 1..Len(runs)
      BY <2>1 DEF LogTypesOK
    <3> QED
      BY <2>1, <3>1 DEF RunsInv
  <2> QED
    BY <2>1 DEF RunsInv
<1>4. CASE visible /\ run # 0
  <2>1. /\ stream' = SyncLog!Connect(run) /\ logs' = <<>> /\ ended' = FALSE /\ dropped' = FALSE
        /\ cleared' = FALSE
    BY <1>4 DEF SyncLog!Follow
  <2>2. run \in Nat /\ run \in 1..Len(runs')
    BY <1>4
  <2>3. stream' \in Streams /\ stream'.run = run /\ stream'.last = 0
    BY <2>1, <2>2 DEF SyncLog!Connect, Streams
  <2>4. LogTypesOK'
    BY <1>0, <1>1, <1>2, <2>1, <2>3 DEF LogTypesOK
  <2>5. runs'[run].lines \in Nat /\ 0 <= runs'[run].lines
    <3>1. runs'[run] \in ImportRuns
      BY <2>2
    <3>2. runs'[run].lines \in Nat
      BY <3>1 DEF ImportRuns
    <3> QED
      BY <3>2
  <2>6. StreamInv'
    BY <1>1, <1>4, <2>1, <2>3, <2>5 DEF StreamInv
  <2>7. OrderInv'
    BY <1>0, <2>1 DEF OrderInv
  <2>8. SentInv'
    BY <1>0, <2>1, <2>3 DEF SentInv, AllTo
  <2> QED
    BY <1>3, <2>4, <2>6, <2>7, <2>8
<1>5. CASE ~(visible /\ run # 0)
  <2>1. stream' = None /\ UNCHANGED <<logs, ended, dropped, cleared>>
    BY <1>5 DEF SyncLog!Follow
  <2>2. LogTypesOK'
    BY <1>1, <1>2, <2>1 DEF LogTypesOK
  <2>3. run = 0 => logs = <<>> /\ ~ended
    BY DEF StreamInv
  <2>4. StreamInv'
    BY <1>1, <2>1, <2>3 DEF StreamInv
  <2>5. OrderInv' /\ SentInv'
    BY <1>0, <1>1, <1>5, <2>1, <2>3 DEF OrderInv, SentInv
  <2> QED
    BY <1>3, <2>2, <2>4, <2>5
<1> QED
  BY <1>4, <1>5

LEMMA LogToggle ==
  ASSUME LogInv, SyncLog!Toggle
  PROVE  LogInv'
<1>1. /\ SyncLog!Follow(watched, ~open) /\ UNCHANGED <<runs, known>>
  BY DEF SyncLog!Toggle
<1>2. /\ watched \in 0..Len(runs') /\ (~open) \in BOOLEAN /\ runs' \in Seq(ImportRuns)
      /\ Len(runs') >= Len(runs)
  BY <1>1 DEF LogInv, LogTypesOK
<1>3. \A r \in 1..Len(runs') :
        runs'[r].owes => /\ runs'[r].status # "active"
                         /\ runs'[r].kind = "sync" \/ runs'[r].status = "failed"
  BY <1>1 DEF LogInv, RunsInv
<1> QED
  BY <1>1, <1>2, <1>3, LogFollow

LEMMA LogStarted ==
  ASSUME LogInv, NEW kind \in {"sync", "import"}, SyncLog!Started(kind)
  PROVE  LogInv'
<1> DEFINE new == [kind |-> kind, status |-> "active", lines |-> 0, owes |-> FALSE]
<1>1. CASE UNCHANGED <<runs, watched, open, stream, logs, ended, dropped, cleared>>
  <2>1. UNCHANGED known
    BY DEF SyncLog!Started
  <2> QED
    BY <1>1, <2>1 DEF LogInv, LogTypesOK, RunsInv, StreamInv, OrderInv, SentInv, AllTo
<1>2. CASE runs' = Append(runs, new) /\ SyncLog!Follow(SyncLog!Latest + 1, open)
  <2>1. new \in ImportRuns /\ ~new.owes
    BY DEF ImportRuns
  <2> HIDE DEF new
  <2>2. runs \in Seq(ImportRuns) /\ Len(runs) \in Nat
    BY DEF LogInv, LogTypesOK
  <2>3. /\ runs' \in Seq(ImportRuns) /\ Len(runs') = Len(runs) + 1
        /\ \A r \in 1..Len(runs) : runs'[r] = runs[r]
        /\ runs'[Len(runs) + 1] = new
    BY <1>2, <2>1, <2>2
  <2>4. \A r \in 1..Len(runs') :
          runs'[r].owes => /\ runs'[r].status # "active"
                           /\ runs'[r].kind = "sync" \/ runs'[r].status = "failed"
    <3> SUFFICES ASSUME NEW r \in 1..Len(runs'), runs'[r].owes
                 PROVE  /\ runs'[r].status # "active"
                        /\ runs'[r].kind = "sync" \/ runs'[r].status = "failed"
      OBVIOUS
    <3>1. r \in 1..Len(runs)
      <4>1. r # Len(runs) + 1
        BY <2>1, <2>3
      <4> QED
        BY <2>2, <2>3, <4>1
    <3> QED
      BY <2>3, <3>1 DEF LogInv, RunsInv
  <2>5. /\ Len(runs) + 1 \in 0..Len(runs') /\ open \in BOOLEAN /\ Len(runs) + 1 # 0
        /\ Len(runs') >= Len(runs)
    BY <2>2, <2>3 DEF LogInv, LogTypesOK
  <2>6. UNCHANGED known
    BY DEF SyncLog!Started
  <2> QED
    BY <1>2, <2>3, <2>4, <2>5, <2>6, LogFollow DEF SyncLog!Latest
<1> QED
  BY <1>1, <1>2 DEF SyncLog!Started

LEMMA LogStep ==
  ASSUME LogInv, [SyncLog!Next]_SyncLog!vars
  PROVE  LogInv'
<1>1. ASSUME UNCHANGED <<runs, watched, open, stream, logs, known, ended, dropped, cleared>>
      PROVE  LogInv'
  BY <1>1 DEF LogInv, LogTypesOK, RunsInv, StreamInv, OrderInv, SentInv, AllTo
<1>2. CASE UNCHANGED SyncLog!vars
  BY <1>1, <1>2 DEF SyncLog!vars
<1>3. CASE SyncLog!Look
  BY <1>3, LogEnds, LogGrows
<1>4. CASE SyncLog!Wipe
  BY <1>4, LogWiped DEF SyncLog!Wipe
<1>5. ASSUME NEW kind \in {"sync", "import"}, SyncLog!Press(kind)
      PROVE  LogInv'
  <2>1. cleared' \in BOOLEAN /\ ((logs = <<>> /\ cleared' = cleared) \/ cleared')
    BY <1>5 DEF SyncLog!Press, LogInv, LogTypesOK
  <2> QED
    BY <1>5, <2>1, LogWiped DEF SyncLog!Press
<1>6. ASSUME NEW kind \in {"sync", "import"}, SyncLog!NotStarted(kind)
      PROVE  LogInv'
  BY <1>1, <1>6 DEF SyncLog!NotStarted
<1> QED
  BY <1>2, <1>3, <1>4, <1>5, <1>6, LogRuns, LogLate, LogTick, LogToggle, LogStarted
     DEF SyncLog!Next

(* What the panel shows of a run. *)
LEMMA LogFollows ==
  ASSUME LogInv
  PROVE  SyncLog!LogExplained
<1> USE DEF LogInv
<1>1. SyncLog!LogIsOfTheRun
  BY DEF SyncLog!LogIsOfTheRun, OrderInv
<1>2. SyncLog!LogIsComplete
  <2> SUFFICES ASSUME open, ended, ~dropped, ~cleared
               PROVE  /\ Len(logs) + 1 >= runs[watched].lines
                      /\ \/ logs = SyncLog!Lines(watched)
                         \/ runs[watched].kind = "sync" \/ runs[watched].status = "failed"
    BY DEF SyncLog!LogIsComplete
  <2>1. logs \in Seq(LogLines) /\ Len(logs) \in Nat
    BY DEF LogTypesOK
  <2>2. CASE AllTo(runs[watched].lines)
    <3>1. Len(logs) = runs[watched].lines /\ \A i \in 1..Len(logs) : logs[i] = SyncLog!Line(watched, i)
      BY <2>2 DEF AllTo
    <3>2. logs = [i \in 1..Len(logs) |-> logs[i]]
      BY <2>1
    <3>3. [i \in 1..Len(logs) |-> logs[i]] = [i \in 1..Len(logs) |-> SyncLog!Line(watched, i)]
      BY <3>1
    <3>4. logs = SyncLog!Lines(watched)
      BY <3>1, <3>2, <3>3 DEF SyncLog!Lines
    <3>5. Len(logs) + 1 >= runs[watched].lines
      BY <2>1, <3>1
    <3> QED
      BY <3>4, <3>5
  <2>3. CASE ~AllTo(runs[watched].lines)
    <3>1. /\ Len(logs) + 1 = runs[watched].lines
          /\ runs[watched].kind = "sync" \/ runs[watched].status = "failed"
      BY <2>3 DEF SentInv
    <3>2. Len(logs) + 1 >= Len(logs) + 1
      BY <2>1
    <3> QED
      BY <3>1, <3>2
  <2> QED
    BY <2>2, <2>3
<1>3. SyncLog!PanelIsNotBlank
  <2> SUFFICES ASSUME watched # 0, known.run = watched, known.lines > 0, SyncLog!visibleLogs = <<>>
               PROVE  FALSE
    BY DEF SyncLog!PanelIsNotBlank
  <2> DEFINE all == SyncLog!Lines(known.run)
             n == known.lines
  <2>1. SubSeq(all, 1, n) = <<>>
    BY DEF SyncLog!visibleLogs
  <2>2. n \in Nat /\ n > 0 /\ 1 \in Int /\ n \in Int /\ 1 <= n
    BY DEF LogTypesOK
  <2>3. Len(SubSeq(all, 1, n)) = n
    <3>1. \A i \in 1..n : all[i] \in {all[j] : j \in 1..n}
      OBVIOUS
    <3> HIDE DEF all, n
    <3>2. Len(SubSeq(all, 1, n)) = IF 1 <= n THEN n - 1 + 1 ELSE 0
      BY <2>2, <3>1, SubSeqProperties
    <3> QED
      BY <2>2, <3>2
  <2>4. Len(SubSeq(all, 1, n)) = 0
    <3>1. Len(<<>>) = 0
      OBVIOUS
    <3> HIDE DEF all, n
    <3> QED
      BY <2>1, <3>1
  <2> QED
    BY <2>2, <2>3, <2>4
<1> QED
  BY <1>1, <1>2, <1>3 DEF SyncLog!LogExplained

(* The panel's lines are of the run it follows, in order and complete at   *)
(* the end, but for a slow look, what was wiped and a last line written    *)
(* after the status (sync-panel.tsx:55-86,                                 *)
(* vehicle-catalog-sync.service.ts:133-188).                               *)
THEOREM LogIsExplained == RequestsSpec => [](side = "sync" => SyncLog!LogExplained)
<1> DEFINE Inv == side = "sync" => LogInv
<1>1. RequestsInit => Inv
  BY LogBegin DEF RequestsInit
<1>2. ASSUME Inv, [RequestsNext]_<<side, faults, apiVars, screenVars>>
      PROVE  Inv'
  <2> SUFFICES ASSUME side' = "sync"
               PROVE  LogInv'
    OBVIOUS
  <2>1. side = "sync" /\ LogInv
    BY <1>2 DEF RequestsNext
  <2>2. SyncLog!Next \/ UNCHANGED <<faults, syncVars>>
    BY <1>2, <2>1 DEF RequestsNext, ApiNext, StaffNext, ScreensNext, screenVars
  <2>3. [SyncLog!Next]_SyncLog!vars
    BY <2>2 DEF syncVars, SyncLog!vars
  <2> QED
    BY <2>1, <2>3, LogStep
<1>3. Inv => (side = "sync" => SyncLog!LogExplained)
  BY LogFollows
<1> QED
  BY <1>1, <1>2, <1>3, PTL DEF RequestsSpec

-----------------------------------------------------------------------------
(***************************************************************************)
(* A fleet.  The policies of a vehicle that outlived none end in the order *)
(* they were made; a quote has one fee, at Stripe and in its row, and a    *)
(* call that holds them.                                                   *)
(***************************************************************************)
(* The page sizes are numbers; the placeholder is nobody and no rate.      *)
FleetBounds ==
  /\ FleetSize \in Nat /\ PageSize \in Nat
  /\ None \notin Users /\ None \notin Rates

Left == 0..2

SortedInv ==
  /\ cover \in [FleetApi!Fleet -> Seq(Left)]
  /\ \A v \in FleetApi!Fleet :
       v \in outlasted
       \/ \A j \in 1..Len(cover[v]) : \A i \in 1..j : cover[v][i] <= cover[v][j]

DutyInv ==
  /\ duty \in [Users -> {"driver", "agent"}]
  /\ driver \in [FleetApi!Fleet -> Users \union {None}]
  /\ assigns \subseteq FleetApi!Fleet \X (Users \union {None})
  /\ \A a \in assigns : a[2] # None => duty[a[2]] = "driver" \/ a[2] \in demoted
  /\ FleetApi!DriverExplained

BulkCalls ==
  [quote : FleetQuotes, fee : Rates \union {None},
   at : {"find", "load", "unavailable", "charge", "save", "refused", "failed", "taken", "ok"}]

BulkTypesOK ==
  /\ fee \in Rates /\ orders \in Seq(BulkCalls)
  /\ secured \in [FleetQuotes -> Rates \union {None}]
  /\ bought \in [FleetQuotes -> Rates \union {None}]

(* A call that has loaded its quote has a fee, and what it was told holds. *)
CallInv ==
  \A c \in 1..Len(orders) :
    /\ orders[c].at \in {"charge", "save", "refused", "taken"} => orders[c].fee # None
    /\ orders[c].at = "save" => secured[orders[c].quote] = orders[c].fee
    /\ orders[c].at = "refused" =>
         secured[orders[c].quote] # None /\ secured[orders[c].quote] # orders[c].fee
    /\ orders[c].at \in {"ok", "taken"} => bought[orders[c].quote] # None

QuoteInv ==
  \A q \in FleetQuotes :
    /\ bought[q] # None =>
         /\ bought[q] = secured[q]
         /\ \E b \in 1..Len(orders) : orders[b].quote = q /\ orders[b].at = "ok"
    /\ secured[q] # None =>
         \/ q \in loose
         \/ \E b \in 1..Len(orders) : orders[b].quote = q /\ orders[b].at \in {"save", "ok"}

BulkInv == BulkTypesOK /\ CallInv /\ QuoteInv

FleetInv == SortedInv /\ FleetApi!ListIsOfPage /\ DutyInv /\ BulkInv

LEMMA FleetBegins ==
  ASSUME FleetBounds, FleetApi!Init
  PROVE  FleetInv
<1> USE DEF FleetApi!Init
<1>1. <<>> \in Seq(Left) /\ <<>> \in Seq(BulkCalls) /\ Len(<<>>) = 0
  OBVIOUS
<1>2. SortedInv
  BY <1>1 DEF SortedInv
<1>3. FleetApi!ListIsOfPage
  BY DEF FleetApi!ListIsOfPage
<1>4. DutyInv
  BY DEF DutyInv, FleetApi!DriverExplained
<1>5. BulkInv
  <2>1. BulkTypesOK
    BY <1>1 DEF BulkTypesOK
  <2>2. 1..Len(orders) = {}
    BY <1>1
  <2>3. CallInv
    BY <2>2 DEF CallInv
  <2>4. QuoteInv
    BY DEF QuoteInv
  <2> QED
    BY <2>1, <2>3, <2>4 DEF BulkInv
<1> QED
  BY <1>2, <1>3, <1>4, <1>5 DEF FleetInv

-----------------------------------------------------------------------------
(* A vehicle's policies without one of them. *)
LEMMA PolicyRemoved ==
  ASSUME NEW s \in Seq(Left), NEW i \in 1..Len(s)
  PROVE  LET t == FleetApi!RemoveAt(s, i)
         IN  /\ t \in Seq(Left) /\ Len(t) = Len(s) - 1
             /\ \A a \in 1..Len(t) : t[a] = s[IF a < i THEN a ELSE a + 1]
<1> DEFINE n == Len(s)
           m == i - 1
           k == i + 1
           before == SubSeq(s, 1, m)
           after == SubSeq(s, k, n)
<1>1. n \in Nat /\ m \in 0..n /\ k \in 1..(n + 1) /\ m \in Int /\ k \in Int /\ 1 \in Int /\ n \in Int
  OBVIOUS
<1>2. (\A a \in 1..m : s[a] \in Left) /\ (\A a \in k..n : s[a] \in Left)
  BY <1>1
<1> HIDE DEF n, m, k
<1>3. /\ before \in Seq(Left) /\ Len(before) = IF 1 <= m THEN m - 1 + 1 ELSE 0
      /\ \A a \in 1..m - 1 + 1 : before[a] = s[1 + a - 1]
  BY <1>1, <1>2, SubSeqProperties
<1>4. /\ after \in Seq(Left) /\ Len(after) = IF k <= n THEN n - k + 1 ELSE 0
      /\ \A a \in 1..n - k + 1 : after[a] = s[k + a - 1]
  BY <1>1, <1>2, SubSeqProperties
<1>5. Len(before) = m /\ Len(after) = n - m - 1 /\ k = m + 2 /\ m + 1 <= n
  BY <1>1, <1>3, <1>4 DEF k, m, n
<1> DEFINE t == before \o after
<1>6. t = FleetApi!RemoveAt(s, i)
  BY DEF FleetApi!RemoveAt, n, m, k
<1> HIDE DEF before, after
<1>7. /\ t \in Seq(Left) /\ Len(t) = Len(before) + Len(after)
      /\ \A a \in 1..Len(t) : t[a] = IF a <= Len(before) THEN before[a] ELSE after[a - Len(before)]
  BY <1>3, <1>4
<1>8. Len(t) = n - 1
  BY <1>1, <1>5, <1>7
<1>9. \A a \in 1..Len(t) : t[a] = s[IF a < i THEN a ELSE a + 1]
  <2> SUFFICES ASSUME NEW a \in 1..Len(t)
               PROVE  t[a] = s[IF a < i THEN a ELSE a + 1]
    OBVIOUS
  <2>1. a \in Nat /\ a >= 1 /\ a <= n - 1
    BY <1>1, <1>8
  <2>2. CASE a < i
    <3>1. a <= m /\ a \in 1..m - 1 + 1 /\ 1 + a - 1 = a
      BY <1>1, <2>1, <2>2 DEF m
    <3> QED
      BY <1>3, <1>5, <1>7, <2>2, <3>1
  <2>3. CASE ~(a < i)
    <3>1. ~(a <= m) /\ a - m \in 1..n - k + 1 /\ k + (a - m) - 1 = a + 1
      BY <1>1, <1>5, <2>1, <2>3 DEF m
    <3>2. t[a] = after[a - m]
      BY <1>5, <1>7, <3>1
    <3>3. after[a - m] = s[k + (a - m) - 1]
      BY <1>4, <3>1
    <3> QED
      BY <2>3, <3>1, <3>2, <3>3
  <2> QED
    BY <2>2, <2>3
<1> HIDE DEF t
<1> QED
  BY <1>6, <1>7, <1>8, <1>9 DEF n

LEMMA PolicyMade ==
  ASSUME SortedInv, NEW v \in FleetApi!Fleet, NEW days \in 1..2, FleetApi!CreatePolicy(v, days)
  PROVE  SortedInv'
<1>1. /\ cover' = [cover EXCEPT ![v] = Append(cover[v], days)]
      /\ outlasted' = IF FleetApi!Outlasts(v, days) THEN outlasted \union {v} ELSE outlasted
  BY DEF FleetApi!CreatePolicy
<1>2. cover \in [FleetApi!Fleet -> Seq(Left)] /\ cover[v] \in Seq(Left) /\ days \in Left
  BY DEF SortedInv, Left
<1>3. cover' \in [FleetApi!Fleet -> Seq(Left)]
  BY <1>1, <1>2
<1> DEFINE s == cover[v]
           t == Append(s, days)
<1>4. /\ cover'[v] = t /\ \A u \in FleetApi!Fleet \ {v} : cover'[u] = cover[u]
  BY <1>1, <1>2
<1>5. ASSUME v \notin outlasted'
      PROVE  \A j \in 1..Len(t) : \A i \in 1..j : t[i] <= t[j]
  <2>1. v \notin outlasted /\ ~FleetApi!Outlasts(v, days)
    BY <1>1, <1>5
  <2>2. \A j \in 1..Len(s) : \A i \in 1..j : s[i] <= s[j]
    BY <2>1 DEF SortedInv
  <2>3. \A i \in DOMAIN s : ~(s[i] > days)
    BY <2>1 DEF FleetApi!Outlasts
  <2>4. s \in Seq(Left) /\ days \in Left
    BY <1>2
  <2> HIDE DEF s
  <2>5. /\ Len(s) \in Nat /\ DOMAIN s = 1..Len(s) /\ \A i \in 1..Len(s) : s[i] \in Left
    BY <2>4
  <2>6. /\ Len(t) = Len(s) + 1 /\ t[Len(s) + 1] = days
        /\ \A i \in 1..Len(s) : t[i] = s[i]
    BY <2>4, <2>5
  <2>7. \A i \in 1..Len(s) : s[i] <= days
    BY <2>3, <2>4, <2>5 DEF Left
  <2>8. days <= days
    BY <2>4 DEF Left
  <2> HIDE DEF t
  <2> SUFFICES ASSUME NEW j \in 1..Len(t), NEW i \in 1..j
               PROVE  t[i] <= t[j]
    OBVIOUS
  <2>9. CASE j = Len(s) + 1
    <3>1. i = Len(s) + 1 \/ i \in 1..Len(s)
      BY <2>5, <2>9
    <3> QED
      BY <2>6, <2>7, <2>8, <2>9, <3>1
  <2>10. CASE j # Len(s) + 1
    <3>1. j \in 1..Len(s) /\ i \in 1..Len(s)
      BY <2>5, <2>6, <2>10
    <3> QED
      BY <2>2, <2>6, <3>1
  <2> QED
    BY <2>9, <2>10
<1> HIDE DEF t
<1>6. \A u \in FleetApi!Fleet \ {v} : u \notin outlasted' => u \notin outlasted
  BY <1>1
<1> QED
  BY <1>3, <1>4, <1>5, <1>6 DEF SortedInv

LEMMA PolicyCancelled ==
  ASSUME SortedInv, NEW v \in FleetApi!Fleet, NEW k \in DOMAIN cover[v], FleetApi!CancelPolicy(v, k)
  PROVE  SortedInv'
<1> DEFINE s == cover[v]
           t == FleetApi!RemoveAt(s, k)
<1>1. cover' = [cover EXCEPT ![v] = t] /\ outlasted' = outlasted
  BY DEF FleetApi!CancelPolicy
<1>2. cover \in [FleetApi!Fleet -> Seq(Left)] /\ s \in Seq(Left) /\ k \in 1..Len(s)
  BY DEF SortedInv
<1>3. /\ t \in Seq(Left) /\ Len(t) = Len(s) - 1
      /\ \A a \in 1..Len(t) : t[a] = s[IF a < k THEN a ELSE a + 1]
  <2> HIDE DEF s
  <2> QED
    BY <1>2, PolicyRemoved
<1>4. ASSUME v \notin outlasted
      PROVE  \A j \in 1..Len(t) : \A i \in 1..j : t[i] <= t[j]
  <2>1. \A j \in 1..Len(s) : \A i \in 1..j : s[i] <= s[j]
    BY <1>4 DEF SortedInv
  <2> HIDE DEF s, t
  <2> SUFFICES ASSUME NEW j \in 1..Len(t), NEW i \in 1..j
               PROVE  t[i] <= t[j]
    OBVIOUS
  <2> DEFINE p == IF i < k THEN i ELSE i + 1
             q == IF j < k THEN j ELSE j + 1
  <2>2. Len(s) \in Nat
    BY <1>2
  <2>3. q \in 1..Len(s) /\ p \in 1..q /\ i \in 1..Len(t)
    BY <1>2, <1>3, <2>2
  <2>4. t[i] = s[p] /\ t[j] = s[q]
    BY <1>3, <2>3
  <2> HIDE DEF p, q
  <2> QED
    BY <2>1, <2>3, <2>4
<1> HIDE DEF t
<1>5. /\ cover' \in [FleetApi!Fleet -> Seq(Left)] /\ cover'[v] = t
      /\ \A u \in FleetApi!Fleet \ {v} : cover'[u] = cover[u]
  BY <1>1, <1>2, <1>3
<1> QED
  BY <1>1, <1>4, <1>5 DEF SortedInv

LEMMA DaysPass ==
  ASSUME SortedInv, FleetApi!TimePasses
  PROVE  SortedInv'
<1> DEFINE older(s) == [i \in DOMAIN s |-> IF s[i] = 0 THEN 0 ELSE s[i] - 1]
<1>1. cover' = [v \in FleetApi!Fleet |-> older(cover[v])] /\ outlasted' = outlasted
  BY DEF FleetApi!TimePasses
<1>2. ASSUME NEW s \in Seq(Left)
      PROVE  /\ older(s) \in Seq(Left) /\ Len(older(s)) = Len(s)
             /\ (\A j \in 1..Len(s) : \A i \in 1..j : s[i] <= s[j])
                  => \A j \in 1..Len(s) : \A i \in 1..j : older(s)[i] <= older(s)[j]
  <2>1. /\ Len(s) \in Nat /\ DOMAIN s = 1..Len(s) /\ \A i \in 1..Len(s) : s[i] \in 0..2
    BY DEF Left
  <2>2. \A i \in 1..Len(s) : /\ older(s)[i] = IF s[i] = 0 THEN 0 ELSE s[i] - 1
                             /\ older(s)[i] \in Left
    BY <2>1 DEF Left
  <2>3. older(s) \in [1..Len(s) -> Left]
    BY <2>1, <2>2
  <2>4. older(s) \in Seq(Left) /\ Len(older(s)) = Len(s)
    <3> HIDE DEF older
    <3> QED
      BY <2>1, <2>3
  <2>5. ASSUME \A j \in 1..Len(s) : \A i \in 1..j : s[i] <= s[j],
               NEW j \in 1..Len(s), NEW i \in 1..j
        PROVE  older(s)[i] <= older(s)[j]
    <3>1. i \in 1..Len(s)
      BY <2>1
    <3>2. s[i] <= s[j] /\ s[i] \in 0..2 /\ s[j] \in 0..2
      BY <2>1, <2>5, <3>1
    <3>3. /\ older(s)[i] = IF s[i] = 0 THEN 0 ELSE s[i] - 1
          /\ older(s)[j] = IF s[j] = 0 THEN 0 ELSE s[j] - 1
      BY <2>2, <3>1
    <3> HIDE DEF older
    <3> QED
      BY <3>2, <3>3
  <2> HIDE DEF older
  <2> QED
    BY <2>4, <2>5
<1> HIDE DEF older
<1>3. cover \in [FleetApi!Fleet -> Seq(Left)]
  BY DEF SortedInv
<1>4. \A v \in FleetApi!Fleet : cover'[v] = older(cover[v]) /\ cover[v] \in Seq(Left)
  BY <1>1, <1>3
<1>5. cover' \in [FleetApi!Fleet -> Seq(Left)]
  BY <1>1, <1>2, <1>4
<1>6. ASSUME NEW v \in FleetApi!Fleet, v \notin outlasted
      PROVE  \A j \in 1..Len(cover'[v]) : \A i \in 1..j : cover'[v][i] <= cover'[v][j]
  <2>1. \A j \in 1..Len(cover[v]) : \A i \in 1..j : cover[v][i] <= cover[v][j]
    BY <1>6 DEF SortedInv
  <2> QED
    BY <1>2, <1>4, <2>1
<1> QED
  BY <1>1, <1>5, <1>6 DEF SortedInv

(* The module's count of a set is the library's. *)
LEMMA SameCount ==
  ASSUME NEW S
  PROVE  FleetApi!Cardinality(S) = Cardinality(S)
  BY Zenon DEF FleetApi!Cardinality, Cardinality

(* A page is of the fleet. *)
LEMMA PageListed ==
  ASSUME FleetBounds, NEW s, NEW p \in 1..FleetSize, FleetApi!List(s, p)
  PROVE  FleetApi!ListIsOfPage'
<1> DEFINE found == {v \in FleetApi!OnPage(p) : s # None => FleetApi!Status(v) = s}
           all == {v \in FleetApi!Fleet : s # None => FleetApi!Status(v) = s}
<1>1. listing' = [status |-> s, page |-> p, rows |-> found,
                  total |-> IF s = None THEN FleetSize ELSE Cardinality(found), all |-> all]
  BY SameCount DEF FleetApi!List
<1>2. found \subseteq all /\ all \subseteq FleetApi!Fleet
  BY DEF FleetApi!OnPage
<1>3. IsFiniteSet(FleetApi!Fleet) /\ Cardinality(FleetApi!Fleet) = FleetSize /\ FleetSize \in Nat
  <2>1. FleetSize \in Nat /\ 1 \in Int /\ FleetSize \in Int
    BY DEF FleetBounds
  <2> QED
    BY <2>1, FS_Interval DEF FleetApi!Fleet
<1>4. s = None => all = FleetApi!Fleet
  OBVIOUS
<1>5. ~(FleetSize > PageSize \/ p > 1) => found = all
  <2> SUFFICES ASSUME ~(FleetSize > PageSize), ~(p > 1), NEW v \in FleetApi!Fleet
               PROVE  v \in FleetApi!OnPage(p)
    BY DEF FleetApi!OnPage
  <2>1. p = 1 /\ v \in 1..PageSize /\ PageSize \in Nat
    BY DEF FleetBounds, FleetApi!Fleet
  <2>2. (p - 1) * PageSize = 0 /\ p * PageSize = PageSize
    BY <2>1
  <2> QED
    BY <2>1, <2>2 DEF FleetApi!OnPage
<1> HIDE DEF found, all
<1>6. /\ IsFiniteSet(all) /\ Cardinality(all) \in Nat /\ Cardinality(found) \in Nat
      /\ Cardinality(found) <= Cardinality(all)
  <2>1. IsFiniteSet(all)
    BY <1>2, <1>3, FS_Subset
  <2>2. IsFiniteSet(found) /\ Cardinality(found) <= Cardinality(all)
    BY <1>2, <2>1, FS_Subset
  <2> QED
    BY <2>1, <2>2, FS_CardinalityType
<1>7. /\ listing'.total = (IF s = None THEN FleetSize ELSE Cardinality(found))
      /\ listing'.all = all /\ listing'.rows = found /\ listing'.page = p
  BY <1>1
<1>8. listing'.total <= Cardinality(all)
  BY <1>3, <1>4, <1>6, <1>7
<1>9. listing'.total < Cardinality(all) => FleetSize > PageSize \/ p > 1
  BY <1>3, <1>4, <1>5, <1>6, <1>7
<1> QED
  BY <1>2, <1>7, <1>8, <1>9, SameCount DEF FleetApi!ListIsOfPage

LEMMA FleetLists ==
  ASSUME FleetBounds, FleetInv, FleetApi!ListNext
  PROVE  FleetInv'
<1>1. UNCHANGED <<duty, driver, assigns, demoted, fee, orders, secured, bought, loose>>
  BY DEF FleetApi!ListNext, FleetApi!TimePasses, FleetApi!CreatePolicy, FleetApi!CancelPolicy,
         FleetApi!List, FleetApi!driverVars, FleetApi!bulkVars
<1>2. DutyInv' /\ BulkInv'
  BY <1>1 DEF FleetInv, DutyInv, FleetApi!DriverExplained, BulkInv, BulkTypesOK, CallInv, QuoteInv
<1>3. SortedInv' /\ FleetApi!ListIsOfPage'
  <2>1. ASSUME UNCHANGED listing
        PROVE  FleetApi!ListIsOfPage'
    BY <2>1 DEF FleetInv, FleetApi!ListIsOfPage
  <2>2. CASE FleetApi!TimePasses
    BY <2>1, <2>2, DaysPass DEF FleetInv, FleetApi!TimePasses
  <2>3. ASSUME NEW v \in FleetApi!Fleet, NEW days \in 1..2, FleetApi!CreatePolicy(v, days)
        PROVE  SortedInv' /\ FleetApi!ListIsOfPage'
    BY <2>1, <2>3, PolicyMade DEF FleetInv, FleetApi!CreatePolicy
  <2>4. ASSUME NEW v \in FleetApi!Fleet, NEW i \in DOMAIN cover[v], FleetApi!CancelPolicy(v, i)
        PROVE  SortedInv' /\ FleetApi!ListIsOfPage'
    BY <2>1, <2>4, PolicyCancelled DEF FleetInv, FleetApi!CancelPolicy
  <2>5. ASSUME NEW s, NEW p \in 1..FleetSize, FleetApi!List(s, p)
        PROVE  SortedInv' /\ FleetApi!ListIsOfPage'
    BY <2>5, PageListed DEF FleetInv, SortedInv, FleetApi!List
  <2> QED
    BY <2>2, <2>3, <2>4, <2>5 DEF FleetApi!ListNext
<1> QED
  BY <1>2, <1>3 DEF FleetInv

-----------------------------------------------------------------------------
LEMMA FleetDrives ==
  ASSUME FleetBounds, FleetInv, FleetApi!DriverNext
  PROVE  FleetInv'
<1>1. UNCHANGED <<cover, listing, outlasted, fee, orders, secured, bought, loose>>
  BY DEF FleetApi!DriverNext, FleetApi!CheckDriver, FleetApi!AssignDriver, FleetApi!UpdateRole,
         FleetApi!listVars, FleetApi!bulkVars
<1>2. SortedInv' /\ FleetApi!ListIsOfPage' /\ BulkInv'
  BY <1>1 DEF FleetInv, SortedInv, FleetApi!ListIsOfPage, BulkInv, BulkTypesOK, CallInv, QuoteInv
<1> USE DEF FleetInv, DutyInv, FleetApi!DriverExplained
<1>3. ASSUME NEW v \in FleetApi!Fleet, NEW u \in Users \union {None}, FleetApi!CheckDriver(v, u)
      PROVE  DutyInv'
  <2>1. /\ assigns' = assigns \union {<<v, u>>} /\ UNCHANGED <<duty, driver, demoted>>
        /\ u # None => duty[u] = "driver"
    BY <1>3 DEF FleetApi!CheckDriver
  <2>2. <<v, u>> \in FleetApi!Fleet \X (Users \union {None}) /\ <<v, u>>[2] = u
    OBVIOUS
  <2> QED
    BY <2>1, <2>2
<1>4. ASSUME NEW a \in assigns, FleetApi!AssignDriver(a)
      PROVE  DutyInv'
  <2>1. /\ assigns' = assigns \ {a} /\ driver' = [driver EXCEPT ![a[1]] = a[2]]
        /\ UNCHANGED <<duty, demoted>>
    BY <1>4 DEF FleetApi!AssignDriver
  <2>2. a[1] \in FleetApi!Fleet /\ a[2] \in Users \union {None}
    OBVIOUS
  <2>3. driver' \in [FleetApi!Fleet -> Users \union {None}]
    BY <2>1, <2>2
  <2>4. \A v \in FleetApi!Fleet : driver'[v] = IF v = a[1] THEN a[2] ELSE driver[v]
    BY <2>1
  <2>5. FleetApi!DriverExplained'
    BY <2>1, <2>4
  <2> QED
    BY <2>1, <2>3, <2>5
<1>5. ASSUME NEW u \in Users, FleetApi!UpdateRole(u)
      PROVE  DutyInv'
  <2>1. /\ duty' = [duty EXCEPT ![u] = "agent"] /\ UNCHANGED <<driver, assigns>>
        /\ demoted' = IF duty[u] = "driver" THEN demoted \union {u} ELSE demoted
    BY <1>5 DEF FleetApi!UpdateRole
  <2>2. \A w \in Users : duty[w] = "driver" \/ w \in demoted => duty'[w] = "driver" \/ w \in demoted'
    BY <2>1
  <2>3. \A v \in FleetApi!Fleet : driver[v] \in Users \union {None}
    OBVIOUS
  <2>4. FleetApi!DriverExplained'
    BY <2>1, <2>2, <2>3
  <2>5. \A a \in assigns : a[2] \in Users \union {None}
    OBVIOUS
  <2>6. \A a \in assigns' : a[2] # None => duty'[a[2]] = "driver" \/ a[2] \in demoted'
    BY <2>1, <2>2, <2>5
  <2>7. duty' \in [Users -> {"driver", "agent"}]
    BY <2>1
  <2> QED
    BY <2>1, <2>4, <2>6, <2>7
<1>6. DutyInv'
  BY <1>3, <1>4, <1>5 DEF FleetApi!DriverNext
<1> QED
  BY <1>2, <1>6

-----------------------------------------------------------------------------
(* Calls are added, none of which has got anywhere. *)
LEMMA BulkAdded ==
  ASSUME FleetBounds, BulkInv, NEW items \in Seq(FleetQuotes), FleetApi!BulkPurchase(items)
  PROVE  BulkInv'
<1> DEFINE new == [i \in DOMAIN items |-> [quote |-> items[i], at |-> "find", fee |-> None]]
           n == Len(orders)
<1>1. orders' = orders \o new /\ UNCHANGED <<fee, secured, bought, loose>>
  BY DEF FleetApi!BulkPurchase
<1>2. orders \in Seq(BulkCalls) /\ n \in Nat /\ DOMAIN items = 1..Len(items) /\ Len(items) \in Nat
  BY DEF BulkInv, BulkTypesOK
<1>3. \A i \in 1..Len(items) : new[i] \in BulkCalls /\ new[i].at = "find"
  <2> SUFFICES ASSUME NEW i \in 1..Len(items)
               PROVE  new[i] \in BulkCalls /\ new[i].at = "find"
    OBVIOUS
  <2>1. new[i] = [quote |-> items[i], at |-> "find", fee |-> None] /\ items[i] \in FleetQuotes
    BY <1>2
  <2> HIDE DEF new
  <2> QED
    BY <2>1 DEF BulkCalls
<1>4. new \in [1..Len(items) -> BulkCalls]
  BY <1>2, <1>3
<1>5. new \in Seq(BulkCalls) /\ Len(new) = Len(items)
  <2> HIDE DEF new
  <2> QED
    BY <1>2, <1>4
<1> HIDE DEF new
<1>6. /\ orders' \in Seq(BulkCalls) /\ Len(orders') = n + Len(items)
      /\ \A c \in 1..n : orders'[c] = orders[c]
      /\ \A c \in (n + 1)..Len(orders') : orders'[c] = new[c - n] /\ c - n \in 1..Len(items)
  <2>0. orders' = orders \o new /\ orders \in Seq(BulkCalls) /\ new \in Seq(BulkCalls)
    BY <1>1, <1>2, <1>5
  <2>1. orders' \in Seq(BulkCalls) /\ Len(orders') = n + Len(new)
    BY <2>0, ConcatProperties
  <2>2. \A c \in 1..n : orders'[c] = orders[c]
    BY <1>1, <1>2, <1>5
  <2>3. \A c \in (n + 1)..Len(orders') : orders'[c] = new[c - n] /\ c - n \in 1..Len(items)
    BY <1>1, <1>2, <1>5, <2>1
  <2> QED
    BY <1>5, <2>1, <2>2, <2>3
<1>7. BulkTypesOK'
  BY <1>1, <1>6 DEF BulkInv, BulkTypesOK
<1>8. CallInv'
  <2> SUFFICES ASSUME NEW c \in 1..Len(orders')
               PROVE  orders'[c].at = "find" \/ (c \in 1..n /\ orders'[c] = orders[c])
    BY <1>1 DEF BulkInv, CallInv
  <2>1. CASE c \in 1..n
    BY <1>6, <2>1
  <2>2. CASE c \notin 1..n
    <3>1. c \in (n + 1)..Len(orders')
      BY <1>2, <1>6, <2>2
    <3> QED
      BY <1>3, <1>6, <3>1
  <2> QED
    BY <2>1, <2>2
<1>9. QuoteInv'
  <2>1. \A b \in 1..n : b \in 1..Len(orders') /\ orders'[b] = orders[b]
    BY <1>2, <1>6
  <2> HIDE DEF n
  <2> QED
    BY <1>1, <2>1 DEF BulkInv, QuoteInv, n
<1> QED
  BY <1>7, <1>8, <1>9 DEF BulkInv

(* A call goes on: none that holds a payment lets go of it. *)
LEMMA CallGoes ==
  ASSUME BulkInv, NEW c \in 1..Len(orders), NEW new \in BulkCalls,
         new.quote = orders[c].quote, orders' = [orders EXCEPT ![c] = new],
         orders[c].at # "ok", UNCHANGED fee,
         secured' \in [FleetQuotes -> Rates \union {None}],
         bought' \in [FleetQuotes -> Rates \union {None}],
         loose \subseteq loose',
         \A q \in FleetQuotes : secured[q] # None => secured'[q] = secured[q],
         \A q \in FleetQuotes : bought[q] # None => bought'[q] = bought[q],
         \A q \in FleetQuotes \ {new.quote} : secured'[q] = secured[q] /\ bought'[q] = bought[q],
         new.at \in {"charge", "save", "refused", "taken"} => new.fee # None,
         new.at = "save" => secured'[new.quote] = new.fee,
         new.at = "refused" => secured'[new.quote] # None /\ secured'[new.quote] # new.fee,
         new.at \in {"ok", "taken"} => bought'[new.quote] # None,
         bought'[new.quote] # bought[new.quote] =>
           bought'[new.quote] = secured'[new.quote] /\ new.at = "ok",
         bought'[new.quote] # None => bought'[new.quote] = secured'[new.quote],
         orders[c].at = "save" =>
           new.at = "ok" \/ bought'[new.quote] # None \/ new.quote \in loose',
         secured'[new.quote] # secured[new.quote] => new.at = "save" \/ new.quote \in loose'
  PROVE  BulkInv'
<1> USE DEF BulkInv
<1>1. orders \in Seq(BulkCalls) /\ Len(orders) \in Nat /\ new.quote \in FleetQuotes
  BY DEF BulkTypesOK, BulkCalls
<1>2. /\ orders' \in Seq(BulkCalls) /\ Len(orders') = Len(orders) /\ orders'[c] = new
      /\ \A b \in 1..Len(orders) : b # c => orders'[b] = orders[b]
  BY <1>1
<1>3. \A b \in 1..Len(orders) : orders[b].quote \in FleetQuotes
  <2> SUFFICES ASSUME NEW b \in 1..Len(orders)
               PROVE  orders[b].quote \in FleetQuotes
    OBVIOUS
  <2>1. orders[b] \in BulkCalls
    BY <1>1
  <2> QED
    BY <2>1 DEF BulkCalls
<1>4. BulkTypesOK'
  BY <1>2 DEF BulkTypesOK
<1>5. CallInv'
  <2> SUFFICES ASSUME NEW b \in 1..Len(orders)
               PROVE  /\ orders'[b].at \in {"charge", "save", "refused", "taken"} => orders'[b].fee # None
                      /\ orders'[b].at = "save" => secured'[orders'[b].quote] = orders'[b].fee
                      /\ orders'[b].at = "refused" =>
                           /\ secured'[orders'[b].quote] # None
                           /\ secured'[orders'[b].quote] # orders'[b].fee
                      /\ orders'[b].at \in {"ok", "taken"} => bought'[orders'[b].quote] # None
    BY <1>2 DEF CallInv
  <2>1. CASE b = c
    BY <1>2, <2>1
  <2>2. CASE b # c
    <3>1. orders'[b] = orders[b] /\ orders[b].quote \in FleetQuotes
      BY <1>2, <1>3, <2>2
    <3>2. /\ orders[b].at \in {"charge", "save", "refused", "taken"} => orders[b].fee # None
          /\ orders[b].at = "save" => secured[orders[b].quote] = orders[b].fee
          /\ orders[b].at = "refused" =>
               /\ secured[orders[b].quote] # None
               /\ secured[orders[b].quote] # orders[b].fee
          /\ orders[b].at \in {"ok", "taken"} => bought[orders[b].quote] # None
      BY DEF CallInv
    <3> QED
      BY <3>1, <3>2
  <2> QED
    BY <2>1, <2>2
<1>6. QuoteInv'
  <2> SUFFICES ASSUME NEW q \in FleetQuotes
               PROVE  /\ bought'[q] # None =>
                           /\ bought'[q] = secured'[q]
                           /\ \E b \in 1..Len(orders) : orders'[b].quote = q /\ orders'[b].at = "ok"
                      /\ secured'[q] # None =>
                           \/ q \in loose'
                           \/ \E b \in 1..Len(orders) :
                                orders'[b].quote = q /\ orders'[b].at \in {"save", "ok"}
    BY <1>2 DEF QuoteInv
  <2>1. ASSUME bought'[q] # None
        PROVE  /\ bought'[q] = secured'[q]
               /\ \E b \in 1..Len(orders) : orders'[b].quote = q /\ orders'[b].at = "ok"
    <3>1. CASE q = new.quote /\ bought'[q] # bought[q]
      BY <1>2, <3>1
    <3>2. CASE bought'[q] = bought[q]
      <4>1. PICK b \in 1..Len(orders) : orders[b].quote = q /\ orders[b].at = "ok"
        BY <2>1, <3>2 DEF QuoteInv
      <4>2. bought[q] = secured[q] /\ secured[q] # None
        BY <2>1, <3>2 DEF QuoteInv
      <4> QED
        BY <1>2, <3>2, <4>1, <4>2
    <3> QED
      BY <3>1, <3>2
  <2>2. ASSUME secured'[q] # None
        PROVE  \/ q \in loose'
               \/ \E b \in 1..Len(orders) : orders'[b].quote = q /\ orders'[b].at \in {"save", "ok"}
    <3>1. CASE q = new.quote /\ secured'[q] # secured[q]
      BY <1>2, <3>1
    <3>2. CASE secured'[q] = secured[q]
      <4>1. CASE q \in loose
        BY <4>1
      <4>2. CASE q \notin loose
        <5>1. PICK b \in 1..Len(orders) : orders[b].quote = q /\ orders[b].at \in {"save", "ok"}
          BY <2>2, <3>2, <4>2 DEF QuoteInv
        <5>2. CASE b # c
          BY <1>2, <5>1, <5>2
        <5>3. CASE b = c
          <6>1. orders[c].at = "save" /\ q = new.quote
            BY <5>1, <5>3
          <6> QED
            BY <1>2, <2>1, <6>1
        <5> QED
          BY <5>2, <5>3
      <4> QED
        BY <4>1, <4>2
    <3> QED
      BY <3>1, <3>2
  <2> QED
    BY <2>1, <2>2
<1> QED
  BY <1>4, <1>5, <1>6

LEMMA CallTaken ==
  ASSUME BulkInv, NEW c \in 1..Len(orders)
  PROVE  /\ orders[c] \in BulkCalls /\ orders[c].quote \in FleetQuotes
         /\ orders[c].fee \in Rates \union {None} /\ fee \in Rates
         /\ secured \in [FleetQuotes -> Rates \union {None}]
         /\ bought \in [FleetQuotes -> Rates \union {None}]
         /\ \A to : FleetApi!Goes(c, to) => orders' = [orders EXCEPT ![c] = [orders[c] EXCEPT !.at = to]]
<1>1. orders[c] \in BulkCalls
  BY DEF BulkInv, BulkTypesOK
<1> QED
  BY <1>1 DEF BulkInv, BulkTypesOK, BulkCalls, FleetApi!Goes

(* A call that moves on, and leaves Stripe and the rows alone. *)
LEMMA CallMoves ==
  ASSUME BulkInv, NEW c \in 1..Len(orders), NEW to \in
           {"load", "unavailable", "charge", "refused", "failed", "taken", "ok"},
         FleetApi!Goes(c, to),
         orders[c].at # "ok", UNCHANGED <<fee, secured, bought>>, loose \subseteq loose',
         to \in {"charge", "refused", "taken"} => orders[c].fee # None,
         to = "refused" => /\ secured[orders[c].quote] # None
                           /\ secured[orders[c].quote] # orders[c].fee,
         to \in {"ok", "taken"} => bought[orders[c].quote] # None,
         orders[c].at = "save" => bought[orders[c].quote] # None \/ orders[c].quote \in loose'
  PROVE  BulkInv'
<1> DEFINE old == orders[c]
           new == [old EXCEPT !.at = to]
<1>1. old \in BulkCalls /\ orders' = [orders EXCEPT ![c] = new] /\ old.quote \in FleetQuotes
  BY CallTaken
<1> HIDE DEF old
<1>3. new \in BulkCalls /\ new.quote = old.quote /\ new.fee = old.fee /\ new.at = to
  BY <1>1 DEF BulkCalls
<1>4. /\ secured' \in [FleetQuotes -> Rates \union {None}]
      /\ bought' \in [FleetQuotes -> Rates \union {None}]
  BY CallTaken
<1>5. bought[old.quote] # None => bought[old.quote] = secured[old.quote]
  BY <1>1 DEF BulkInv, QuoteInv
<1> HIDE DEF new
<1>6. new.quote = orders[c].quote /\ new.fee = orders[c].fee
  BY <1>3 DEF old
<1>7. /\ \A q \in FleetQuotes : secured[q] # None => secured'[q] = secured[q]
      /\ \A q \in FleetQuotes : bought[q] # None => bought'[q] = bought[q]
      /\ \A q \in FleetQuotes \ {new.quote} : secured'[q] = secured[q] /\ bought'[q] = bought[q]
      /\ secured'[new.quote] = secured[new.quote] /\ bought'[new.quote] = bought[new.quote]
  OBVIOUS
<1>8. new.at # "save"
  BY <1>3
<1>9. /\ new.at \in {"charge", "save", "refused", "taken"} => new.fee # None
      /\ new.at = "refused" => secured'[new.quote] # None /\ secured'[new.quote] # new.fee
      /\ new.at \in {"ok", "taken"} => bought'[new.quote] # None
      /\ orders[c].at = "save" =>
           new.at = "ok" \/ bought'[new.quote] # None \/ new.quote \in loose'
      /\ bought'[new.quote] # None => bought'[new.quote] = secured'[new.quote]
  BY <1>3, <1>5, <1>6, <1>7, <1>8 DEF old
<1> QED
  BY <1>1, <1>3, <1>4, <1>6, <1>7, <1>8, <1>9, CallGoes

LEMMA CallFinds ==
  ASSUME BulkInv, NEW c \in 1..Len(orders), FleetApi!FindPayment(c)
  PROVE  BulkInv'
<1>1. /\ orders[c].at = "find" /\ UNCHANGED <<fee, secured, bought, loose>>
      /\ FleetApi!Goes(c, IF bought[FleetApi!Quote(c)] = None THEN "load" ELSE "ok")
  BY DEF FleetApi!FindPayment
<1>2. CASE bought[orders[c].quote] = None
  <2>1. FleetApi!Goes(c, "load")
    BY <1>1, <1>2 DEF FleetApi!Quote
  <2> QED
    BY <1>1, <2>1, CallMoves
<1>3. CASE bought[orders[c].quote] # None
  <2>1. FleetApi!Goes(c, "ok")
    BY <1>1, <1>3 DEF FleetApi!Quote
  <2> QED
    BY <1>1, <1>3, <2>1, CallMoves
<1> QED
  BY <1>2, <1>3

LEMMA CallLoads ==
  ASSUME FleetBounds, BulkInv, NEW c \in 1..Len(orders), FleetApi!LoadQuote(c)
  PROVE  BulkInv'
<1>1. orders[c].at = "load" /\ UNCHANGED <<fee, secured, bought, loose>>
  BY DEF FleetApi!LoadQuote
<1>2. CASE FleetApi!Goes(c, "unavailable")
  BY <1>1, <1>2, CallMoves
<1>3. CASE orders' = [orders EXCEPT ![c].at = "charge", ![c].fee = fee]
  <2> DEFINE old == orders[c]
             new == [old EXCEPT !.at = "charge", !.fee = fee]
  <2>1. old \in BulkCalls /\ fee \in Rates /\ old.quote \in FleetQuotes /\ fee # None
    BY CallTaken DEF FleetBounds
  <2>2. orders' = [orders EXCEPT ![c] = new]
    BY <1>3
  <2> HIDE DEF old
  <2>3. new \in BulkCalls /\ new.quote = old.quote /\ new.fee = fee /\ new.at = "charge"
    BY <2>1 DEF BulkCalls
  <2>4. /\ secured' \in [FleetQuotes -> Rates \union {None}]
        /\ bought' \in [FleetQuotes -> Rates \union {None}]
    BY <1>1, CallTaken
  <2>5. bought[old.quote] # None => bought[old.quote] = secured[old.quote]
    BY <2>1 DEF BulkInv, QuoteInv
  <2> HIDE DEF new
  <2>6. new.quote = orders[c].quote
    BY <2>3 DEF old
  <2> QED
    BY <1>1, <2>1, <2>2, <2>3, <2>4, <2>5, <2>6, CallGoes
<1> QED
  BY <1>2, <1>3 DEF FleetApi!LoadQuote

LEMMA CallCharges ==
  ASSUME FleetBounds, BulkInv, NEW c \in 1..Len(orders), FleetApi!CreateIntent(c)
  PROVE  BulkInv'
<1> DEFINE q == orders[c].quote
           old == orders[c]
           f == orders[c].fee
<1>1. orders[c].at = "charge" /\ UNCHANGED <<fee, bought>>
  BY DEF FleetApi!CreateIntent
<1>2. /\ old \in BulkCalls /\ q \in FleetQuotes /\ f \in Rates /\ f # None
      /\ secured \in [FleetQuotes -> Rates \union {None}]
      /\ bought \in [FleetQuotes -> Rates \union {None}]
  BY <1>1, CallTaken DEF BulkInv, CallInv
<1>3. bought[q] # None => bought[q] = secured[q]
  BY <1>2 DEF BulkInv, QuoteInv
<1>4. ASSUME NEW to \in {"save", "failed"}, FleetApi!Goes(c, to), secured[q] \in {None, f},
             secured' = [secured EXCEPT ![q] = f],
             loose' = loose \/ loose' = loose \union {q}, to = "save" \/ q \in loose'
      PROVE  BulkInv'
  <2> DEFINE new == [old EXCEPT !.at = to]
  <2>1. orders' = [orders EXCEPT ![c] = new]
    BY <1>4, CallTaken
  <2>2. new \in BulkCalls /\ new.quote = q /\ new.fee = f /\ new.at = to
    <3> HIDE DEF old
    <3>1. new \in BulkCalls /\ new.quote = old.quote /\ new.fee = old.fee /\ new.at = to
      BY <1>2 DEF BulkCalls
    <3> QED
      BY <3>1 DEF old
  <2> HIDE DEF new, old
  <2>3. /\ secured' \in [FleetQuotes -> Rates \union {None}] /\ secured'[q] = f
        /\ \A s \in FleetQuotes \ {q} : secured'[s] = secured[s]
        /\ \A s \in FleetQuotes : secured[s] # None => secured'[s] = secured[s]
    BY <1>2, <1>4
  <2>4. bought' \in [FleetQuotes -> Rates \union {None}] /\ bought' = bought
    BY <1>1, <1>2
  <2>5. bought'[q] # None => bought'[q] = secured'[q]
    BY <1>2, <1>3, <2>3, <2>4
  <2>6. loose \subseteq loose'
    BY <1>4
  <2> HIDE DEF f
  <2>7. /\ new.quote = orders[c].quote /\ orders[c].at # "ok" /\ orders[c].at # "save"
        /\ new.at = "save" => secured'[new.quote] = new.fee
        /\ new.at \notin {"ok", "taken", "refused"} /\ new.fee # None
        /\ bought'[new.quote] = bought[new.quote]
        /\ bought'[new.quote] # None => bought'[new.quote] = secured'[new.quote]
        /\ secured'[new.quote] # secured[new.quote] => new.at = "save" \/ new.quote \in loose'
        /\ \A s \in FleetQuotes \ {new.quote} : secured'[s] = secured[s] /\ bought'[s] = bought[s]
    BY <1>1, <1>2, <1>4, <2>2, <2>3, <2>4, <2>5
  <2> QED
    BY <1>1, <2>1, <2>2, <2>3, <2>4, <2>6, <2>7, CallGoes
<1>5. CASE /\ secured[q] \in {None, f} /\ FleetApi!Goes(c, "save")
           /\ secured' = [secured EXCEPT ![q] = f] /\ UNCHANGED loose
  BY <1>4, <1>5
<1>6. CASE secured[q] \notin {None, f} /\ FleetApi!Goes(c, "refused") /\ UNCHANGED <<secured, loose>>
  BY <1>1, <1>2, <1>6, CallMoves
<1>7. CASE FleetApi!Goes(c, "failed") /\ UNCHANGED <<secured, loose>>
  BY <1>1, <1>7, CallMoves
<1>8. CASE /\ secured[q] = None /\ FleetApi!Goes(c, "failed")
           /\ secured' = [secured EXCEPT ![q] = f] /\ loose' = loose \union {q}
  BY <1>4, <1>8
<1> QED
  BY <1>5, <1>6, <1>7, <1>8 DEF FleetApi!CreateIntent, FleetApi!Quote

LEMMA CallSaves ==
  ASSUME FleetBounds, BulkInv, NEW c \in 1..Len(orders), FleetApi!SavePayment(c)
  PROVE  BulkInv'
<1> DEFINE q == orders[c].quote
           old == orders[c]
           f == orders[c].fee
<1>1. orders[c].at = "save" /\ UNCHANGED <<fee, secured>>
  BY DEF FleetApi!SavePayment
<1>2. /\ old \in BulkCalls /\ q \in FleetQuotes /\ f \in Rates /\ f # None
      /\ secured \in [FleetQuotes -> Rates \union {None}] /\ secured[q] = f
      /\ bought \in [FleetQuotes -> Rates \union {None}]
  BY <1>1, CallTaken DEF BulkInv, CallInv
<1>3. CASE /\ bought[q] = None /\ bought' = [bought EXCEPT ![q] = f] /\ FleetApi!Goes(c, "ok")
           /\ UNCHANGED loose
  <2> DEFINE new == [old EXCEPT !.at = "ok"]
  <2>1. orders' = [orders EXCEPT ![c] = new]
    BY <1>3, CallTaken
  <2>2. new \in BulkCalls /\ new.quote = q /\ new.fee = f /\ new.at = "ok"
    <3> HIDE DEF old
    <3>1. new \in BulkCalls /\ new.quote = old.quote /\ new.fee = old.fee /\ new.at = "ok"
      BY <1>2 DEF BulkCalls
    <3> QED
      BY <3>1 DEF old
  <2> HIDE DEF new, old
  <2>3. /\ bought' \in [FleetQuotes -> Rates \union {None}] /\ bought'[q] = f
        /\ \A s \in FleetQuotes \ {q} : bought'[s] = bought[s]
        /\ \A s \in FleetQuotes : bought[s] # None => bought'[s] = bought[s]
    BY <1>2, <1>3
  <2>4. secured' \in [FleetQuotes -> Rates \union {None}] /\ secured' = secured
    BY <1>1, <1>2
  <2> HIDE DEF f
  <2>5. /\ new.quote = orders[c].quote /\ orders[c].at # "ok"
        /\ new.at \notin {"charge", "save", "taken", "refused"}
        /\ bought'[new.quote] # None /\ bought'[new.quote] = secured'[new.quote]
        /\ secured'[new.quote] = secured[new.quote]
        /\ \A s \in FleetQuotes \ {new.quote} : secured'[s] = secured[s] /\ bought'[s] = bought[s]
    BY <1>1, <1>2, <2>2, <2>3, <2>4
  <2> QED
    BY <1>1, <1>3, <2>1, <2>2, <2>3, <2>4, <2>5, CallGoes
<1>4. CASE bought[q] # None /\ FleetApi!Goes(c, "taken") /\ UNCHANGED <<bought, loose>>
  BY <1>1, <1>2, <1>4, CallMoves
<1>5. CASE /\ bought[q] = None /\ FleetApi!Goes(c, "failed") /\ loose' = loose \union {q}
           /\ UNCHANGED bought
  BY <1>1, <1>5, CallMoves
<1> QED
  BY <1>3, <1>4, <1>5 DEF FleetApi!SavePayment, FleetApi!Quote

LEMMA FleetBuys ==
  ASSUME FleetBounds, FleetInv, FleetApi!BulkNext
  PROVE  FleetInv'
<1>1. UNCHANGED <<cover, listing, outlasted, duty, driver, assigns, demoted>>
  BY DEF FleetApi!BulkNext, FleetApi!BulkPurchase, FleetApi!FindPayment, FleetApi!LoadQuote,
         FleetApi!CreateIntent, FleetApi!SavePayment, FleetApi!ChangeRate, FleetApi!listVars,
         FleetApi!driverVars
<1>2. SortedInv' /\ FleetApi!ListIsOfPage' /\ DutyInv'
  BY <1>1 DEF FleetInv, SortedInv, FleetApi!ListIsOfPage, DutyInv, FleetApi!DriverExplained
<1>3. ASSUME NEW q \in FleetQuotes, NEW s \in FleetQuotes,
             FleetApi!BulkPurchase(<<q>>) \/ FleetApi!BulkPurchase(<<q, s>>)
      PROVE  BulkInv'
  <2>1. <<q>> \in Seq(FleetQuotes) /\ <<q, s>> \in Seq(FleetQuotes)
    OBVIOUS
  <2> QED
    BY <1>3, <2>1, BulkAdded DEF FleetInv
<1>4. ASSUME NEW c \in DOMAIN orders,
             \/ FleetApi!FindPayment(c) \/ FleetApi!LoadQuote(c)
             \/ FleetApi!CreateIntent(c) \/ FleetApi!SavePayment(c)
      PROVE  BulkInv'
  <2>1. c \in 1..Len(orders)
    BY DEF FleetInv, BulkInv, BulkTypesOK
  <2> QED
    BY <1>4, <2>1, CallFinds, CallLoads, CallCharges, CallSaves DEF FleetInv
<1>5. ASSUME NEW r \in Rates, FleetApi!ChangeRate(r)
      PROVE  BulkInv'
  BY <1>5 DEF FleetApi!ChangeRate, FleetInv, BulkInv, BulkTypesOK, CallInv, QuoteInv
<1>6. BulkInv'
  BY <1>3, <1>4, <1>5 DEF FleetApi!BulkNext
<1> QED
  BY <1>2, <1>6 DEF FleetInv

LEMMA FleetFollows ==
  ASSUME FleetBounds, FleetInv
  PROVE  FleetApi!FleetExplained
<1> USE DEF FleetInv, BulkInv
<1>1. FleetApi!StatusExplained
  <2> SUFFICES ASSUME NEW v \in FleetApi!Fleet, v \notin outlasted,
                      NEW i \in DOMAIN cover[v], cover[v][i] > FleetApi!Last(cover[v])
               PROVE  FALSE
    BY DEF FleetApi!StatusExplained
  <2>1. cover[v] \in Seq(Left) /\ \A j \in 1..Len(cover[v]) : \A k \in 1..j : cover[v][k] <= cover[v][j]
    BY DEF SortedInv
  <2> DEFINE s == cover[v]
             n == Len(s)
  <2>2. s \in Seq(Left) /\ i \in DOMAIN s /\ s[i] > s[Len(s)]
    BY <2>1 DEF FleetApi!Last
  <2>3. \A j \in 1..Len(s) : \A k \in 1..j : s[k] <= s[j]
    BY <2>1
  <2> HIDE DEF s
  <2>4. n \in Nat /\ i \in 1..n /\ n \in 1..n /\ s[i] \in Left /\ s[n] \in Left
    BY <2>2
  <2>5. s[i] <= s[n]
    BY <2>3, <2>4
  <2> QED
    BY <2>2, <2>4, <2>5 DEF Left
<1>2. DOMAIN orders = 1..Len(orders) /\ \A c \in 1..Len(orders) : orders[c].quote \in FleetQuotes
  <2>1. \A c \in 1..Len(orders) : orders[c].quote \in FleetQuotes
    BY CallTaken
  <2> QED
    BY <2>1 DEF BulkTypesOK
<1>3. FleetApi!GotIsPayable
  <2> SUFFICES ASSUME NEW c \in 1..Len(orders), orders[c].at = "ok"
               PROVE  bought[orders[c].quote] # None /\ bought[orders[c].quote] = secured[orders[c].quote]
    BY <1>2 DEF FleetApi!GotIsPayable, FleetApi!Quote
  <2>1. bought[orders[c].quote] # None
    BY DEF CallInv
  <2> QED
    BY <1>2, <2>1 DEF QuoteInv
<1>4. FleetApi!FailureExplained
  <2> SUFFICES ASSUME NEW c \in 1..Len(orders)
               PROVE  LET others == {b \in 1..Len(orders) \ {c} : orders[b].quote = orders[c].quote}
                      IN  /\ orders[c].at = "taken" => \E b \in others : orders[b].at = "ok"
                          /\ orders[c].at = "refused" =>
                               /\ orders[c].fee # secured[orders[c].quote]
                               /\ \/ orders[c].quote \in loose
                                  \/ \E b \in others : orders[b].at \in {"save", "ok"}
    BY <1>2, Zenon DEF FleetApi!FailureExplained, FleetApi!Quote
  <2>1. ASSUME orders[c].at = "taken"
        PROVE  \E b \in 1..Len(orders) \ {c} : orders[b].quote = orders[c].quote /\ orders[b].at = "ok"
    <3>1. bought[orders[c].quote] # None
      BY <2>1 DEF CallInv
    <3>2. PICK b \in 1..Len(orders) : orders[b].quote = orders[c].quote /\ orders[b].at = "ok"
      BY <1>2, <3>1 DEF QuoteInv
    <3> QED
      BY <2>1, <3>2
  <2>2. ASSUME orders[c].at = "refused", orders[c].quote \notin loose
        PROVE  \E b \in 1..Len(orders) \ {c} :
                 orders[b].quote = orders[c].quote /\ orders[b].at \in {"save", "ok"}
    <3>1. secured[orders[c].quote] # None
      BY <2>2 DEF CallInv
    <3>2. PICK b \in 1..Len(orders) : orders[b].quote = orders[c].quote /\ orders[b].at \in {"save", "ok"}
      BY <1>2, <2>2, <3>1 DEF QuoteInv
    <3> QED
      BY <2>2, <3>2
  <2>3. orders[c].at = "refused" => secured[orders[c].quote] # orders[c].fee
    BY DEF CallInv
  <2> QED
    BY <2>1, <2>2, <2>3
<1> QED
  BY <1>1, <1>3, <1>4 DEF FleetApi!FleetExplained, DutyInv

(* What a fleet's requests answer and leave is wrong only in the ways      *)
(* named: a list that is a page, a vehicle with a policy that ends before  *)
(* an older one, a driver whose role was changed, a quote refused for a    *)
(* rate that was changed (vehicles.repository.ts:97-151,                   *)
(* fleet-bulk-purchase.service.ts).                                        *)
THEOREM FleetIsExplained ==
  ASSUME FleetBounds
  PROVE  RequestsSpec => [](side \in {"fleet", "drivers", "bulk"} => FleetApi!FleetExplained)
<1> DEFINE Inv == side \in {"fleet", "drivers", "bulk"} => FleetInv
<1>1. RequestsInit => Inv
  BY FleetBegins DEF RequestsInit
<1>2. ASSUME Inv, [RequestsNext]_<<side, faults, apiVars, screenVars>>
      PROVE  Inv'
  <2> SUFFICES ASSUME side' \in {"fleet", "drivers", "bulk"}
               PROVE  FleetInv'
    OBVIOUS
  <2>1. side \in {"fleet", "drivers", "bulk"} /\ FleetInv
    BY <1>2 DEF RequestsNext
  <2>2. \/ FleetApi!ListNext \/ FleetApi!DriverNext \/ FleetApi!BulkNext
        \/ UNCHANGED fleetVars
    BY <1>2, <2>1 DEF RequestsNext, ApiNext, StaffNext, ScreensNext, apiVars
  <2>3. CASE UNCHANGED fleetVars
    BY <2>1, <2>3 DEF fleetVars, FleetInv, SortedInv, FleetApi!ListIsOfPage, DutyInv,
         FleetApi!DriverExplained, BulkInv, BulkTypesOK, CallInv, QuoteInv
  <2> QED
    BY <2>1, <2>2, <2>3, FleetLists, FleetDrives, FleetBuys
<1>3. Inv => (side \in {"fleet", "drivers", "bulk"} => FleetApi!FleetExplained)
  BY FleetFollows
<1> QED
  BY <1>1, <1>2, <1>3, PTL DEF RequestsSpec

-----------------------------------------------------------------------------
(* What any of the screens shows, sends or loses, and what the requests of *)
(* a fleet answer, follows from what its user did, which answers came late *)
(* and which calls failed (branivo-web, branivo-mobile and the services    *)
(* behind them; each at its theorem above), for every number of tabs,      *)
(* cars, offers, pages and calls.                                          *)
THEOREM ScreensAreExplained ==
  ASSUME PanelBounds, None \notin Addresses, CodesApart, PickerBounds, ChecksBounds, CheckoutBounds,
         FleetBounds
  PROVE  RequestsSpec => []ScreensExplained
<1>1. /\ RequestsSpec => [](side = "panels" => Panels!PanelsExplained)
      /\ RequestsSpec => [](side = "codes" => Codes!CodesExplained)
      /\ RequestsSpec => [](side = "vehicle" => Picker!PickerExplained)
      /\ RequestsSpec => [](side = "checks" => Checks!VehiclesExplained)
      /\ RequestsSpec => [](side = "catalog" => CatalogPage!PageExplained)
      /\ RequestsSpec => [](side = "sync" => SyncLog!LogExplained)
      /\ RequestsSpec => [](side = "checkout" => Checkout!CheckoutExplained)
      /\ RequestsSpec => [](side = "first" => First!StepsExplained)
      /\ RequestsSpec => [](side \in {"fleet", "drivers", "bulk"} => FleetApi!FleetExplained)
  BY PanelsAreExplained, CodesAreExplained, PickerIsExplained, CarsAreExplained, PageIsExplained,
     LogIsExplained, CheckoutIsExplained, StepsAreExplained, FleetIsExplained
<1>2. /\ side = "panels" => Panels!PanelsExplained
      /\ side = "codes" => Codes!CodesExplained
      /\ side = "vehicle" => Picker!PickerExplained
      /\ side = "checks" => Checks!VehiclesExplained
      /\ side = "catalog" => CatalogPage!PageExplained
      /\ side = "sync" => SyncLog!LogExplained
      /\ side = "checkout" => Checkout!CheckoutExplained
      /\ side = "first" => First!StepsExplained
      /\ side \in {"fleet", "drivers", "bulk"} => FleetApi!FleetExplained
      => ScreensExplained
  BY DEF ScreensExplained
<1> QED
  BY <1>1, <1>2, PTL
=============================================================================
