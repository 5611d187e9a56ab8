------------------------- MODULE ScheduledJobsProofs -------------------------
(***************************************************************************)
(* The scheduled jobs, for every number of jobs, workers, tenants, brands, *)
(* rows and faults: each component by itself first, then the runs of       *)
(* MCScheduledJobs, whose every behaviour is one of each component.        *)
(***************************************************************************)
EXTENDS MCScheduledJobs, FiniteSetTheorems, SequenceTheorems, TLAPS

-----------------------------------------------------------------------------
(***************************************************************************)
(* The month's invoices.  A broker gets the invoice at most once: this     *)
(* asks nothing of the queue, and two workers may even run one job.  What  *)
(* it rests on is the unique index, which gives the mail to whoever        *)
(* inserted the row.                                                       *)
(***************************************************************************)
TypesOK ==
  /\ mails \in [Tenants -> Nat]
  /\ runPc \in [Workers -> {"idle", "list", "existing", "tenant", "create", "mail", "alert"}]
  /\ DOMAIN tenant = Workers

(* A worker about to mail owns the row: no mail has gone out for it, and   *)
(* no other worker is about to send one.                                   *)
OwnerInv ==
  /\ \A w \in Workers :
       runPc[w] = "mail" => tenant[w] \in invoices
       /\ (tenant[w] \in Tenants => mails[tenant[w]] = 0)
  /\ \A v, w \in Workers :
       runPc[v] = "mail" /\ runPc[w] = "mail" /\ tenant[v] = tenant[w] => v = w

IInv == TypesOK /\ OwnerInv /\ Billing!InvoiceMailedOnce

(* A step of w alone after which it is not about to mail. *)
MovesOn(w) ==
  /\ runPc' \in [Workers -> {"idle", "list", "existing", "tenant", "create", "mail", "alert"}]
  /\ DOMAIN tenant' = Workers
  /\ runPc'[w] # "mail"
  /\ \A v \in Workers \ {w} : runPc'[v] = runPc[v] /\ tenant'[v] = tenant[v]

-----------------------------------------------------------------------------
LEMMA IInvInit == Billing!Init => IInv
  BY DEF Billing!Init, IInv, TypesOK, OwnerInv, Billing!InvoiceMailedOnce

LEMMA IdleMovesOn ==
  ASSUME TypesOK, NEW w \in Workers, Billing!Idle(w)
  PROVE  MovesOn(w)
  BY DEF TypesOK, Billing!Idle, MovesOn

LEMMA ContinueMovesOn ==
  ASSUME TypesOK, NEW w \in Workers, NEW S, Billing!Continue(w, S)
  PROVE  MovesOn(w)
<1>1. CASE Billing!Idle(w)
  BY <1>1, IdleMovesOn
<1>2. ASSUME runPc' = [runPc EXCEPT ![w] = "existing"],
             NEW t, tenant' = [tenant EXCEPT ![w] = t]
      PROVE  MovesOn(w)
  BY <1>2 DEF TypesOK, MovesOn
<1> QED
  BY <1>1, <1>2 DEF Billing!Continue

LEMMA FailsMovesOn ==
  ASSUME TypesOK, NEW w \in Workers, Billing!Fails(w)
  PROVE  MovesOn(w)
<1>1. CASE Billing!Idle(w)
  BY <1>1, IdleMovesOn
<1>2. CASE runPc' = [runPc EXCEPT ![w] = "alert"] /\ UNCHANGED tenant
  BY <1>2 DEF TypesOK, MovesOn
<1> QED
  BY <1>1, <1>2 DEF Billing!Fails

(* Such a step, of whatever statement, keeps the invariant. *)
LEMMA MovingOnKeeps ==
  ASSUME IInv, NEW w \in Workers, MovesOn(w), UNCHANGED <<invoices, mails>>
  PROVE  IInv'
  BY DEF IInv, TypesOK, OwnerInv, Billing!InvoiceMailedOnce, MovesOn

-----------------------------------------------------------------------------
(* The row and the mail are the two steps that matter. *)
LEMMA CreateKeeps ==
  ASSUME IInv, NEW w \in Workers, Billing!CreateInvoice(w)
  PROVE  IInv'
<1>1. CASE tenant[w] \in invoices /\ Billing!Fails(w) /\ UNCHANGED invoices
  <2>1. UNCHANGED mails
    BY DEF Billing!CreateInvoice
  <2> QED
    BY <1>1, <2>1, FailsMovesOn, MovingOnKeeps DEF IInv
<1>2. CASE /\ tenant[w] \notin invoices
           /\ invoices' = invoices \union {tenant[w]}
           /\ Billing!Goto(w, "create", "mail")
           /\ UNCHANGED tenant
  <2>1. UNCHANGED mails
    BY DEF Billing!CreateInvoice
  <2>2. TypesOK'
    BY <1>2, <2>1 DEF IInv, TypesOK, Billing!Goto
  <2>3. tenant[w] \in Tenants => mails[tenant[w]] = 0
    BY <1>2 DEF IInv, TypesOK, Billing!InvoiceMailedOnce
  <2>4. \A v \in Workers \ {w} : runPc'[v] = runPc[v]
    BY <1>2 DEF IInv, TypesOK, Billing!Goto
  <2>5. OwnerInv'
    BY <1>2, <2>1, <2>3, <2>4 DEF IInv, OwnerInv
  <2>6. Billing!InvoiceMailedOnce'
    BY <1>2, <2>1 DEF IInv, TypesOK, Billing!InvoiceMailedOnce
  <2> QED
    BY <2>2, <2>5, <2>6 DEF IInv
<1> QED
  BY <1>1, <1>2 DEF Billing!CreateInvoice

LEMMA MailKeeps ==
  ASSUME IInv, NEW w \in Workers, Billing!SendInvoiceEmail(w)
  PROVE  IInv'
<1>1. MovesOn(w) /\ runPc[w] = "mail" /\ UNCHANGED invoices
  BY ContinueMovesOn DEF Billing!SendInvoiceEmail, IInv
<1>2. CASE UNCHANGED mails
  BY <1>1, <1>2, MovingOnKeeps
<1>3. CASE mails' = [mails EXCEPT ![tenant[w]] = @ + 1]
  <2>1. TypesOK'
    <3>1. CASE tenant[w] \in Tenants
      <4>1. mails[tenant[w]] + 1 \in Nat
        BY <3>1 DEF IInv, TypesOK
      <4> QED
        BY <1>1, <1>3, <3>1, <4>1 DEF IInv, TypesOK, MovesOn
    <3>2. CASE tenant[w] \notin Tenants
      BY <1>1, <1>3, <3>2 DEF IInv, TypesOK, MovesOn
    <3> QED
      BY <3>1, <3>2
  <2>2. \A v \in Workers : runPc'[v] = "mail" =>
          v # w /\ runPc[v] = "mail" /\ tenant'[v] = tenant[v] /\ tenant[v] # tenant[w]
    BY <1>1 DEF IInv, OwnerInv, MovesOn
  <2>3. \A t \in Tenants \ {tenant[w]} : mails'[t] = mails[t]
    BY <1>3 DEF IInv, TypesOK
  <2>4. OwnerInv'
    BY <1>1, <2>2, <2>3 DEF IInv, OwnerInv
  <2>5. tenant[w] \in Tenants => mails'[tenant[w]] = 1 /\ tenant[w] \in invoices
    BY <1>1, <1>3 DEF IInv, TypesOK, OwnerInv
  <2>6. Billing!InvoiceMailedOnce'
    BY <1>1, <2>3, <2>5 DEF IInv, Billing!InvoiceMailedOnce
  <2> QED
    BY <2>1, <2>4, <2>6 DEF IInv
<1> QED
  BY <1>2, <1>3 DEF Billing!SendInvoiceEmail

LEMMA IInvStep ==
  ASSUME IInv, [Billing!Next]_Billing!vars
  PROVE  IInv'
<1> USE DEF Billing!billingVars, Billing!workerVars
<1>1. ASSUME UNCHANGED <<invoices, mails, runPc, tenant>>
      PROVE  IInv'
  BY <1>1 DEF IInv, TypesOK, OwnerInv, Billing!InvoiceMailedOnce
<1>2. ASSUME NEW t \in Tenants, Billing!ChangeStatus(t)
      PROVE  IInv'
  BY <1>1, <1>2 DEF Billing!ChangeStatus
<1>3. ASSUME NEW j \in Runs, Billing!QueueRun(j) \/ Billing!Recover(j) \/ Billing!LoseLock(j)
      PROVE  IInv'
  BY <1>1, <1>3 DEF Billing!QueueRun, Billing!Recover, Billing!LoseLock
<1>4. ASSUME NEW w \in Workers, NEW j \in Runs, Billing!TakeJob(w, j)
      PROVE  IInv'
  <2>1. MovesOn(w)
    BY <1>4 DEF Billing!TakeJob, Billing!Goto, IInv, TypesOK, MovesOn
  <2> QED
    BY <1>4, <2>1, MovingOnKeeps DEF Billing!TakeJob
<1>5. ASSUME NEW w \in Workers, Billing!GetActiveTenants(w)
      PROVE  IInv'
  BY <1>5, ContinueMovesOn, MovingOnKeeps DEF Billing!GetActiveTenants, IInv
<1>6. ASSUME NEW w \in Workers, Billing!FindExisting(w)
      PROVE  IInv'
  <2>1. CASE Billing!Continue(w, tenants[w])
    BY <1>6, <2>1, ContinueMovesOn, MovingOnKeeps DEF Billing!FindExisting, IInv
  <2>2. CASE Billing!Goto(w, "existing", "tenant") /\ UNCHANGED tenant
    <3>1. MovesOn(w)
      BY <2>2 DEF Billing!Goto, IInv, TypesOK, MovesOn
    <3> QED
      BY <1>6, <3>1, MovingOnKeeps DEF Billing!FindExisting
  <2> QED
    BY <1>6, <2>1, <2>2 DEF Billing!FindExisting
<1>7. ASSUME NEW w \in Workers, Billing!LoadTenant(w)
      PROVE  IInv'
  <2>1. CASE Billing!Fails(w)
    BY <1>7, <2>1, FailsMovesOn, MovingOnKeeps DEF Billing!LoadTenant, IInv
  <2>2. CASE Billing!Goto(w, "tenant", "create") /\ UNCHANGED tenant
    <3>1. MovesOn(w)
      BY <2>2 DEF Billing!Goto, IInv, TypesOK, MovesOn
    <3> QED
      BY <1>7, <3>1, MovingOnKeeps DEF Billing!LoadTenant
  <2> QED
    BY <1>7, <2>1, <2>2 DEF Billing!LoadTenant
<1>8. ASSUME NEW w \in Workers, Billing!CreateInvoice(w)
      PROVE  IInv'
  BY <1>8, CreateKeeps
<1>9. ASSUME NEW w \in Workers, Billing!SendInvoiceEmail(w)
      PROVE  IInv'
  BY <1>9, MailKeeps
<1>10. ASSUME NEW w \in Workers, Billing!Alert(w)
       PROVE  IInv'
  BY <1>10, ContinueMovesOn, MovingOnKeeps DEF Billing!Alert, IInv
<1>11. ASSUME NEW w \in Workers, Billing!HandlerThrows(w)
       PROVE  IInv'
  BY <1>11, FailsMovesOn, IdleMovesOn, MovingOnKeeps DEF Billing!HandlerThrows, IInv
<1>12. ASSUME NEW w \in Workers, Billing!CrashWorker(w)
       PROVE  IInv'
  BY <1>12, IdleMovesOn, MovingOnKeeps DEF Billing!CrashWorker, IInv
<1>13. CASE UNCHANGED Billing!vars
  BY <1>1, <1>13 DEF Billing!vars
<1> QED
  BY <1>2, <1>3, <1>4, <1>5, <1>6, <1>7, <1>8, <1>9, <1>10, <1>11, <1>12, <1>13
     DEF Billing!Next, Billing!HandlerAction

(* However many runs race, crash and are repeated, a broker is mailed the  *)
(* month's invoice at most once, and only when its row exists              *)
(* (billing.service.ts:94-103, 157-186).                                   *)
THEOREM InvoiceIsMailedOnce == Billing!Spec => []InvoiceMailedOnce
<1>1. Billing!Init => IInv
  BY IInvInit
<1>2. IInv /\ [Billing!Next]_Billing!vars => IInv'
  BY IInvStep
<1>3. IInv => InvoiceMailedOnce
  BY DEF IInv, InvoiceMailedOnce
<1> QED
  BY <1>1, <1>2, <1>3, PTL DEF Billing!Spec

-----------------------------------------------------------------------------
(***************************************************************************)
(* A completed run over all tenants.  Of what the run that holds the lock  *)
(* has listed, each tenant is invoiced, alerted for (heard or not), still  *)
(* to do or in hand; whoever lost the lock lists and completes nothing.    *)
(***************************************************************************)
InLoop == {"existing", "tenant", "create", "mail", "alert"}

RunTypesOK ==
  /\ runJob \in [Runs -> JobState] /\ runLock \in [Runs -> Workers \union {None}]
  /\ runPc \in [Workers -> {"idle", "list"} \union InLoop]
  /\ runCur \in [Workers -> Runs \union {None}]
  /\ DOMAIN tenants = Workers /\ DOMAIN tenant = Workers /\ DOMAIN listed = Runs
  /\ \A j \in Runs : runLock[j] # None => runJob[j] = "active"
  /\ \A w \in Workers : runPc[w] # "idle" => runCur[w] # None

Accounted(w) ==
  runPc[w] \in InLoop /\ runCur[w] \in Runs \ SingleRuns /\ runLock[runCur[w]] = w =>
    listed[runCur[w]] \subseteq invoices \union alerts \union unheard \union tenants[w] \union {tenant[w]}

InvoicedBeforeMail == \A w \in Workers : runPc[w] = "mail" => tenant[w] \in invoices

AccountInv ==
  RunTypesOK /\ InvoicedBeforeMail /\ Billing!RunAccountsForAll
  /\ \A w \in Workers : Accounted(w)

(* How the queue answers a handler that ends. *)
LEMMA QueueAnswers ==
  ASSUME RunTypesOK, NEW i \in Runs, NEW w \in Workers,
         Billing!Complete(w, i) \/ Billing!Throw(w, i) \/ UNCHANGED Billing!queueVars
  PROVE  /\ runJob' \in [Runs -> JobState] /\ runLock' \in [Runs -> Workers \union {None}]
         /\ \A j \in Runs : runLock'[j] # None => runLock'[j] = runLock[j]
              /\ runJob'[j] = "active"
         /\ \A j \in Runs \ {i} : runJob'[j] = runJob[j] /\ runLock'[j] = runLock[j]
         /\ runJob'[i] = "completed" => \/ runJob[i] = "completed"
                                        \/ runLock[i] = w /\ Billing!Complete(w, i)
<1>1. CASE UNCHANGED <<runJob, runLock>>
  BY <1>1 DEF RunTypesOK
<1>2. ASSUME runLock[i] = w, NEW to \in {"completed", "waiting", "failed"},
             runJob' = [runJob EXCEPT ![i] = to], runLock' = [runLock EXCEPT ![i] = None],
             to = "completed" => Billing!Complete(w, i)
      PROVE  /\ runJob' \in [Runs -> JobState] /\ runLock' \in [Runs -> Workers \union {None}]
             /\ \A j \in Runs : runLock'[j] # None => runLock'[j] = runLock[j]
                  /\ runJob'[j] = "active"
             /\ \A j \in Runs \ {i} : runJob'[j] = runJob[j] /\ runLock'[j] = runLock[j]
             /\ runJob'[i] = "completed" => \/ runJob[i] = "completed"
                                            \/ runLock[i] = w /\ Billing!Complete(w, i)
  BY <1>2 DEF RunTypesOK, JobState
<1>3. CASE Billing!Complete(w, i)
  BY <1>1, <1>2, <1>3 DEF Billing!Complete, Billing!queueVars
<1>4. CASE Billing!Throw(w, i)
  BY <1>1, <1>2, <1>4 DEF Billing!Throw, Billing!queueVars
<1> QED
  BY <1>1, <1>3, <1>4 DEF Billing!queueVars

(* A step of the worker w with its job. *)
LEMMA RunStepKeeps ==
  ASSUME AccountInv, NEW w \in Workers, runPc[w] # "idle",
         runPc' \in [Workers -> {"idle", "list"} \union InLoop],
         runCur' \in [Workers -> Runs \union {None}],
         DOMAIN tenants' = Workers, DOMAIN tenant' = Workers, DOMAIN listed' = Runs,
         \A v \in Workers \ {w} : /\ runPc'[v] = runPc[v] /\ runCur'[v] = runCur[v]
                                  /\ tenants'[v] = tenants[v] /\ tenant'[v] = tenant[v],
         runPc'[w] # "idle" => runCur'[w] = runCur[w],
         runPc'[w] = "mail" => tenant'[w] \in invoices',
         invoices \subseteq invoices', alerts \subseteq alerts', unheard \subseteq unheard',
         Billing!Complete(w, runCur[w]) \/ Billing!Throw(w, runCur[w])
         \/ UNCHANGED Billing!queueVars,
         \A j \in Runs : listed'[j] = listed[j] \/ (j = runCur[w] /\ runLock[j] = w),
         Accounted(w)',
         Billing!Complete(w, runCur[w]) /\ runCur[w] \in Runs \ SingleRuns
         /\ runLock[runCur[w]] = w =>
           listed'[runCur[w]] \subseteq invoices' \union alerts' \union unheard'
  PROVE  AccountInv'
<1> PICK i \in Runs : i = runCur[w]
  BY DEF AccountInv, RunTypesOK
<1>1. RunTypesOK
  BY DEF AccountInv
<1>2. /\ runJob' \in [Runs -> JobState] /\ runLock' \in [Runs -> Workers \union {None}]
      /\ \A j \in Runs : runLock'[j] # None => runLock'[j] = runLock[j] /\ runJob'[j] = "active"
      /\ \A j \in Runs \ {i} : runJob'[j] = runJob[j] /\ runLock'[j] = runLock[j]
      /\ runJob'[i] = "completed" => \/ runJob[i] = "completed"
                                     \/ runLock[i] = w /\ Billing!Complete(w, i)
  BY <1>1, QueueAnswers
<1>3. \A v \in Workers : runPc'[v] # "idle" => runCur'[v] # None
  BY <1>1 DEF RunTypesOK
<1>4. RunTypesOK'
  BY <1>2, <1>3 DEF RunTypesOK
<1>5. InvoicedBeforeMail'
  BY DEF AccountInv, InvoicedBeforeMail
<1>6. Billing!RunAccountsForAll'
  <2> SUFFICES ASSUME NEW j \in Runs \ SingleRuns, runJob'[j] = "completed"
               PROVE  listed'[j] \subseteq invoices' \union alerts' \union unheard'
    BY DEF Billing!RunAccountsForAll
  <2>1. CASE runJob[j] = "completed"
    <3>1. runLock[j] # w
      BY <1>1, <2>1, QueueAssumption DEF RunTypesOK
    <3>2. listed'[j] = listed[j]
      BY <3>1
    <3> QED
      BY <2>1, <3>2 DEF AccountInv, Billing!RunAccountsForAll
  <2>2. CASE runJob[j] # "completed"
    BY <1>2, <2>2
  <2> QED
    BY <2>1, <2>2
<1>7. ASSUME NEW v \in Workers, v # w
      PROVE  Accounted(v)'
  <2> SUFFICES ASSUME runPc'[v] \in InLoop, runCur'[v] \in Runs \ SingleRuns,
                      runLock'[runCur'[v]] = v
               PROVE  listed'[runCur'[v]] \subseteq
                        invoices' \union alerts' \union unheard' \union tenants'[v] \union {tenant'[v]}
    BY DEF Accounted
  <2>1. /\ runPc[v] \in InLoop /\ runCur[v] = runCur'[v] /\ runCur[v] \in Runs \ SingleRuns
        /\ tenants'[v] = tenants[v] /\ tenant'[v] = tenant[v]
    BY <1>7
  <2>2. runLock[runCur[v]] = v
    BY <1>2, <2>1, QueueAssumption
  <2>3. listed'[runCur[v]] = listed[runCur[v]]
    BY <1>7, <2>1, <2>2
  <2> QED
    BY <2>1, <2>2, <2>3 DEF AccountInv, Accounted
<1> QED
  BY <1>4, <1>5, <1>6, <1>7 DEF AccountInv

(* The next tenant of the loop, or its end. *)
LEMMA ContinueKeeps ==
  ASSUME AccountInv, NEW w \in Workers, runPc[w] # "idle", NEW S, Billing!Continue(w, S),
         invoices \subseteq invoices', alerts \subseteq alerts', unheard \subseteq unheard', DOMAIN listed' = Runs,
         \A j \in Runs : listed'[j] = listed[j] \/ (j = runCur[w] /\ runLock[j] = w),
         runCur[w] \in Runs \ SingleRuns /\ runLock[runCur[w]] = w =>
           listed'[runCur[w]] \subseteq invoices' \union alerts' \union unheard' \union S
  PROVE  AccountInv'
<1>1. RunTypesOK
  BY DEF AccountInv
<1>2. CASE S = {} /\ Billing!Idle(w) /\ Billing!Complete(w, runCur[w])
  <2>1. /\ runPc' \in [Workers -> {"idle", "list"} \union InLoop] /\ runPc'[w] = "idle"
        /\ runCur' \in [Workers -> Runs \union {None}]
        /\ DOMAIN tenants' = Workers /\ DOMAIN tenant' = Workers
        /\ \A v \in Workers \ {w} : /\ runPc'[v] = runPc[v] /\ runCur'[v] = runCur[v]
                                     /\ tenants'[v] = tenants[v] /\ tenant'[v] = tenant[v]
    BY <1>1, <1>2 DEF Billing!Idle, RunTypesOK
  <2>2. Accounted(w)'
    BY <2>1 DEF Accounted, InLoop
  <2> QED
    BY <1>2, <2>1, <2>2, RunStepKeeps
<1>3. ASSUME runPc' = [runPc EXCEPT ![w] = "existing"], UNCHANGED <<Billing!queueVars, runCur>>,
             NEW t \in S, tenant' = [tenant EXCEPT ![w] = t],
             tenants' = [tenants EXCEPT ![w] = S \ {t}]
      PROVE  AccountInv'
  <2>1. /\ runPc' \in [Workers -> {"idle", "list"} \union InLoop] /\ runPc'[w] = "existing"
        /\ runCur' \in [Workers -> Runs \union {None}] /\ runCur'[w] = runCur[w]
        /\ DOMAIN tenants' = Workers /\ DOMAIN tenant' = Workers
        /\ tenant'[w] = t /\ tenants'[w] = S \ {t}
        /\ \A v \in Workers \ {w} : /\ runPc'[v] = runPc[v] /\ runCur'[v] = runCur[v]
                                     /\ tenants'[v] = tenants[v] /\ tenant'[v] = tenant[v]
    BY <1>1, <1>3 DEF RunTypesOK, InLoop
  <2>2. Accounted(w)'
    BY <1>3, <2>1 DEF Accounted, Billing!queueVars
  <2>3. ~Billing!Complete(w, runCur[w]) \/ runLock[runCur[w]] # w
    <3>1. runCur[w] \in Runs /\ runCur[w] \in DOMAIN runLock /\ runLock' = runLock /\ w # None
      BY <1>1, <1>3, QueueAssumption DEF RunTypesOK, Billing!queueVars
    <3> QED
      BY <3>1 DEF Billing!Complete
  <2> QED
    BY <1>3, <2>1, <2>2, <2>3, RunStepKeeps
<1> QED
  BY <1>2, <1>3 DEF Billing!Continue

(* A step to the next statement for the same tenant. *)
LEMMA GoesOnKeeps ==
  ASSUME AccountInv, NEW w \in Workers, runPc[w] \in InLoop,
         NEW to \in InLoop, runPc' = [runPc EXCEPT ![w] = to],
         to = "mail" => tenant[w] \in invoices', invoices \subseteq invoices',
         UNCHANGED <<Billing!queueVars, alerts, unheard, runCur, tenants, tenant, listed>>
  PROVE  AccountInv'
<1>1. RunTypesOK
  BY DEF AccountInv
<1>2. /\ runPc' \in [Workers -> {"idle", "list"} \union InLoop] /\ runPc'[w] = to
      /\ \A v \in Workers \ {w} : runPc'[v] = runPc[v]
  BY <1>1 DEF RunTypesOK
<1>3. runCur[w] \in Runs /\ runLock' = runLock /\ runJob' = runJob
  BY <1>1 DEF RunTypesOK, InLoop, Billing!queueVars
<1>4. Accounted(w)'
  BY <1>2, <1>3 DEF AccountInv, Accounted
<1>5. ~Billing!Complete(w, runCur[w]) \/ runLock[runCur[w]] # w
  BY <1>1, <1>3, QueueAssumption DEF Billing!Complete, RunTypesOK
<1>6. /\ runPc[w] # "idle" /\ runCur' \in [Workers -> Runs \union {None}]
      /\ DOMAIN tenants' = Workers /\ DOMAIN tenant' = Workers /\ DOMAIN listed' = Runs
  BY <1>1 DEF RunTypesOK, InLoop
<1> QED
  BY <1>2, <1>3, <1>4, <1>5, <1>6, RunStepKeeps

(* A handler that ends without a result. *)
LEMMA IdleKeeps ==
  ASSUME AccountInv, NEW w \in Workers, runPc[w] # "idle", Billing!Idle(w),
         Billing!Throw(w, runCur[w]) \/ UNCHANGED Billing!queueVars,
         invoices' = invoices, alerts \subseteq alerts', unheard \subseteq unheard', listed' = listed
  PROVE  AccountInv'
<1>1. RunTypesOK
  BY DEF AccountInv
<1>2. /\ runPc' \in [Workers -> {"idle", "list"} \union InLoop] /\ runPc'[w] = "idle"
      /\ runCur' \in [Workers -> Runs \union {None}]
      /\ DOMAIN tenants' = Workers /\ DOMAIN tenant' = Workers
      /\ \A v \in Workers \ {w} : /\ runPc'[v] = runPc[v] /\ runCur'[v] = runCur[v]
                                   /\ tenants'[v] = tenants[v] /\ tenant'[v] = tenant[v]
  BY <1>1 DEF Billing!Idle, RunTypesOK
<1>3. Accounted(w)'
  BY <1>2 DEF Accounted, InLoop
<1>4. runCur[w] \in Runs /\ DOMAIN listed' = Runs
  BY <1>1 DEF RunTypesOK
<1>5. ~Billing!Complete(w, runCur[w]) \/ runLock[runCur[w]] # w
  BY <1>1, <1>4, QueueAssumption DEF Billing!Complete, Billing!Throw, RunTypesOK,
     Billing!queueVars
<1> QED
  BY <1>2, <1>3, <1>4, <1>5, RunStepKeeps

(* A statement that throws: the run goes on to the alert of its tenant. *)
LEMMA FailsKeeps ==
  ASSUME AccountInv, NEW w \in Workers, runPc[w] \in InLoop, Billing!Fails(w),
         UNCHANGED <<invoices, listed>>
  PROVE  AccountInv'
<1>1. RunTypesOK
  BY DEF AccountInv
<1>2. CASE runCur[w] \in SingleRuns /\ Billing!AlertFinal(w) /\ Billing!Idle(w)
           /\ Billing!Throw(w, runCur[w])
  <2>1. alerts \subseteq alerts' /\ unheard \subseteq unheard'
    BY <1>2 DEF Billing!AlertFinal, Billing!NotifySuperAdmin
  <2> QED
    BY <1>2, <2>1, IdleKeeps DEF InLoop
<1>3. CASE /\ runCur[w] \notin SingleRuns
           /\ runPc' = [runPc EXCEPT ![w] = "alert"]
           /\ UNCHANGED <<Billing!queueVars, alerts, unheard, runCur, tenants, tenant>>
  BY <1>1, <1>3, GoesOnKeeps DEF InLoop
<1> QED
  BY <1>2, <1>3 DEF Billing!Fails

(* A step that leaves every handler where it is. *)
LEMMA QueueStepKeeps ==
  ASSUME AccountInv, UNCHANGED <<Billing!workerVars, invoices, alerts, unheard, listed>>,
         runJob' \in [Runs -> JobState], runLock' \in [Runs -> Workers \union {None}],
         \A j \in Runs :
           /\ runLock'[j] # None => runLock'[j] = runLock[j] /\ runJob'[j] = "active"
           /\ runJob'[j] = "completed" => runJob[j] = "completed"
  PROVE  AccountInv'
<1>1. RunTypesOK'
  BY DEF AccountInv, RunTypesOK, Billing!workerVars
<1>2. InvoicedBeforeMail' /\ Billing!RunAccountsForAll'
  BY DEF AccountInv, InvoicedBeforeMail, Billing!RunAccountsForAll, Billing!workerVars
<1>3. ASSUME NEW v \in Workers
      PROVE  Accounted(v)'
  BY QueueAssumption DEF AccountInv, Accounted, Billing!workerVars
<1> QED
  BY <1>1, <1>2, <1>3 DEF AccountInv

-----------------------------------------------------------------------------
LEMMA AccountInit == Billing!Init => AccountInv
  BY DEF Billing!Init, Billing!QueueInit, AccountInv, RunTypesOK, InvoicedBeforeMail,
         Billing!RunAccountsForAll,
         Accounted, InLoop, JobState

LEMMA TakeKeeps ==
  ASSUME None \notin Runs, AccountInv, NEW w \in Workers, NEW i \in Runs, Billing!TakeJob(w, i)
  PROVE  AccountInv'
<1>1. RunTypesOK
  BY DEF AccountInv
<1>2. /\ runPc[w] = "idle" /\ runJob[i] = "waiting" /\ runLock[i] = None
      /\ runJob' = [runJob EXCEPT ![i] = "active"] /\ runLock' = [runLock EXCEPT ![i] = w]
      /\ UNCHANGED <<invoices, alerts, unheard, listed, tenants>>
  BY <1>1 DEF Billing!TakeJob, Billing!Goto, Billing!Take, RunTypesOK, Billing!billingVars
<1>3. /\ runPc' \in [Workers -> {"idle", "list"} \union InLoop]
      /\ runPc'[w] = IF i \in SingleRuns THEN "existing" ELSE "list"
      /\ runCur' \in [Workers -> Runs \union {None}] /\ runCur'[w] = i
      /\ DOMAIN tenant' = Workers
      /\ \A v \in Workers \ {w} : runPc'[v] = runPc[v] /\ runCur'[v] = runCur[v]
           /\ tenant'[v] = tenant[v]
  BY <1>1 DEF Billing!TakeJob, Billing!Goto, RunTypesOK, InLoop
<1>4. /\ runJob' \in [Runs -> JobState] /\ runLock' \in [Runs -> Workers \union {None}]
      /\ runJob'[i] = "active" /\ runLock'[i] = w
      /\ \A j \in Runs \ {i} : runJob'[j] = runJob[j] /\ runLock'[j] = runLock[j]
  BY <1>1, <1>2 DEF RunTypesOK, JobState
<1>5. RunTypesOK'
  <2>1. \A v \in Workers : runPc'[v] # "idle" => runCur'[v] # None
    BY <1>1, <1>3, QueueAssumption DEF RunTypesOK
  <2>2. \A j \in Runs : runLock'[j] # None => runJob'[j] = "active"
    BY <1>1, <1>4 DEF RunTypesOK
  <2> QED
    BY <1>1, <1>2, <1>3, <1>4, <2>1, <2>2 DEF RunTypesOK
<1>6. InvoicedBeforeMail'
  BY <1>2, <1>3 DEF AccountInv, InvoicedBeforeMail
<1>7. Billing!RunAccountsForAll'
  BY <1>2, <1>4 DEF AccountInv, Billing!RunAccountsForAll
<1>8. ASSUME NEW v \in Workers
      PROVE  Accounted(v)'
  <2>1. CASE v = w
    BY <1>3, <2>1 DEF Accounted, InLoop
  <2>2. CASE v # w
    <3>1. /\ runPc'[v] = runPc[v] /\ runCur'[v] = runCur[v] /\ tenant'[v] = tenant[v]
               /\ tenants'[v] = tenants[v]
      BY <1>2, <1>3, <2>2
    <3>2. \A j \in Runs : runLock'[j] = v => runLock[j] = v
      BY <1>4, <2>2
    <3> QED
      BY <1>2, <3>1, <3>2 DEF AccountInv, Accounted
  <2> QED
    BY <2>1, <2>2
<1> QED
  BY <1>5, <1>6, <1>7, <1>8 DEF AccountInv

LEMMA AccountStep ==
  ASSUME None \notin Runs, AccountInv, [Billing!Next]_Billing!vars
  PROVE  AccountInv'
<1>0. RunTypesOK
  BY DEF AccountInv
<1>1. ASSUME NEW t \in Tenants, Billing!ChangeStatus(t)
      PROVE  AccountInv'
  BY <1>0, <1>1, QueueStepKeeps DEF Billing!ChangeStatus, Billing!queueVars, RunTypesOK
<1>2. ASSUME NEW i \in Runs, Billing!QueueRun(i)
      PROVE  AccountInv'
  <2>1. /\ runJob' \in [Runs -> JobState] /\ runLock' = runLock
        /\ \A j \in Runs \ {i} : runJob'[j] = runJob[j]
        /\ runJob[i] = "absent" /\ runJob'[i] = "waiting"
        /\ UNCHANGED <<Billing!workerVars, invoices, alerts, unheard, listed>>
    BY <1>0, <1>2 DEF Billing!QueueRun, Billing!Add, RunTypesOK, JobState, Billing!billingVars
  <2> QED
    BY <1>0, <2>1, QueueStepKeeps DEF RunTypesOK
<1>3. ASSUME NEW i \in Runs, Billing!Recover(i) \/ Billing!LoseLock(i)
      PROVE  AccountInv'
  <2>1. Billing!Reclaim(i) /\ UNCHANGED <<Billing!workerVars, invoices, alerts, unheard, listed>>
    BY <1>3 DEF Billing!Recover, Billing!LoseLock, Billing!billingVars
  <2>2. /\ runJob' \in [Runs -> JobState] /\ runLock' \in [Runs -> Workers \union {None}]
        /\ runJob'[i] # "completed" /\ runLock'[i] = None
        /\ \A j \in Runs \ {i} : runJob'[j] = runJob[j] /\ runLock'[j] = runLock[j]
    BY <1>0, <2>1 DEF Billing!Reclaim, RunTypesOK, JobState
  <2> QED
    BY <1>0, <2>1, <2>2, QueueStepKeeps DEF RunTypesOK
<1>4. ASSUME NEW w \in Workers, NEW i \in Runs, Billing!TakeJob(w, i)
      PROVE  AccountInv'
  BY <1>4, TakeKeeps
<1>5. ASSUME NEW w \in Workers, Billing!GetActiveTenants(w)
      PROVE  AccountInv'
  <2>1. /\ runPc[w] # "idle" /\ runCur[w] \in Runs /\ Billing!Continue(w, paying)
        /\ UNCHANGED <<invoices, alerts, unheard>>
    BY <1>0, <1>5 DEF Billing!GetActiveTenants, RunTypesOK
  <2>2. /\ DOMAIN listed' = Runs
        /\ \A j \in Runs : listed'[j] = listed[j] \/ (j = runCur[w] /\ runLock[j] = w)
        /\ runLock[runCur[w]] = w => listed'[runCur[w]] = paying
    BY <1>0, <1>5, <2>1 DEF Billing!GetActiveTenants, RunTypesOK
  <2> QED
    BY <2>1, <2>2, ContinueKeeps
<1>6. ASSUME NEW w \in Workers, Billing!FindExisting(w)
      PROVE  AccountInv'
  <2>1. runPc[w] = "existing" /\ UNCHANGED <<invoices, alerts, unheard, listed>>
    BY <1>6 DEF Billing!FindExisting, Billing!billingVars
  <2>2. CASE tenant[w] \in invoices /\ Billing!Continue(w, tenants[w])
    <3>1. runCur[w] \in Runs \ SingleRuns /\ runLock[runCur[w]] = w =>
            listed[runCur[w]] \subseteq invoices \union alerts \union unheard \union tenants[w]
      BY <2>1, <2>2 DEF AccountInv, Accounted, InLoop
    <3> QED
      BY <1>0, <2>1, <2>2, <3>1, ContinueKeeps DEF RunTypesOK
  <2>3. CASE Billing!Goto(w, "existing", "tenant") /\ UNCHANGED <<Billing!queueVars, runCur,
             tenants, tenant>>
    BY <2>1, <2>3, GoesOnKeeps DEF Billing!Goto, InLoop
  <2> QED
    BY <1>6, <2>2, <2>3 DEF Billing!FindExisting
<1>7. ASSUME NEW w \in Workers, Billing!LoadTenant(w)
      PROVE  AccountInv'
  <2>1. runPc[w] = "tenant" /\ UNCHANGED <<invoices, listed>>
    BY <1>7 DEF Billing!LoadTenant
  <2>2. CASE Billing!Fails(w)
    BY <2>1, <2>2, FailsKeeps DEF InLoop
  <2>3. CASE Billing!Goto(w, "tenant", "create") /\ UNCHANGED <<Billing!queueVars, alerts, unheard,
             runCur, tenants, tenant>>
    BY <2>1, <2>3, GoesOnKeeps DEF Billing!Goto, InLoop
  <2> QED
    BY <1>7, <2>2, <2>3 DEF Billing!LoadTenant
<1>8. ASSUME NEW w \in Workers, Billing!CreateInvoice(w)
      PROVE  AccountInv'
  <2>1. runPc[w] = "create" /\ UNCHANGED listed
    BY <1>8 DEF Billing!CreateInvoice
  <2>2. CASE Billing!Fails(w) /\ UNCHANGED invoices
    BY <2>1, <2>2, FailsKeeps DEF InLoop
  <2>3. CASE /\ invoices' = invoices \union {tenant[w]}
             /\ Billing!Goto(w, "create", "mail")
             /\ UNCHANGED <<Billing!queueVars, alerts, unheard, runCur, tenants, tenant>>
    BY <2>1, <2>3, GoesOnKeeps DEF Billing!Goto, InLoop
  <2> QED
    BY <1>8, <2>2, <2>3 DEF Billing!CreateInvoice
<1>9. ASSUME NEW w \in Workers, Billing!SendInvoiceEmail(w)
      PROVE  AccountInv'
  <2>1. runPc[w] = "mail" /\ UNCHANGED <<invoices, alerts, unheard, listed>>
        /\ Billing!Continue(w, tenants[w])
    BY <1>9 DEF Billing!SendInvoiceEmail
  <2>2. runCur[w] \in Runs \ SingleRuns /\ runLock[runCur[w]] = w =>
          listed[runCur[w]] \subseteq invoices \union alerts \union unheard \union tenants[w]
    BY <2>1 DEF AccountInv, Accounted, InvoicedBeforeMail, InLoop
  <2> QED
    BY <1>0, <2>1, <2>2, ContinueKeeps DEF RunTypesOK
<1>10. ASSUME NEW w \in Workers, Billing!Alert(w)
       PROVE  AccountInv'
  <2>1. /\ runPc[w] = "alert" /\ Billing!NotifySuperAdmin(tenant[w])
        /\ UNCHANGED <<invoices, listed>> /\ Billing!Continue(w, tenants[w])
    BY <1>10 DEF Billing!Alert
  <2>2. /\ alerts \subseteq alerts' /\ unheard \subseteq unheard'
        /\ tenant[w] \in alerts' \union unheard'
    BY <2>1 DEF Billing!NotifySuperAdmin
  <2>3. runCur[w] \in Runs \ SingleRuns /\ runLock[runCur[w]] = w =>
          listed[runCur[w]] \subseteq invoices \union alerts' \union unheard' \union tenants[w]
    BY <2>1, <2>2 DEF AccountInv, Accounted, InLoop
  <2> QED
    BY <1>0, <2>1, <2>2, <2>3, ContinueKeeps DEF RunTypesOK
<1>11. ASSUME NEW w \in Workers, Billing!HandlerThrows(w)
       PROVE  AccountInv'
  <2>1. UNCHANGED <<invoices, listed>>
    BY <1>11 DEF Billing!HandlerThrows
  <2>2. CASE runPc[w] # "list" /\ Billing!Fails(w)
    BY <1>11, <2>1, <2>2, FailsKeeps DEF Billing!HandlerThrows, InLoop
  <2>3. CASE runPc[w] = "list" /\ Billing!Idle(w) /\ Billing!Throw(w, runCur[w])
             /\ UNCHANGED <<alerts, unheard>>
    BY <1>0, <2>1, <2>3, IdleKeeps DEF RunTypesOK
  <2> QED
    BY <1>11, <2>2, <2>3 DEF Billing!HandlerThrows
<1>12. ASSUME NEW w \in Workers, Billing!CrashWorker(w)
       PROVE  AccountInv'
  BY <1>0, <1>12, IdleKeeps DEF Billing!CrashWorker, Billing!billingVars, RunTypesOK
<1>13. CASE UNCHANGED Billing!vars
  BY <1>0, <1>13, QueueStepKeeps DEF Billing!vars, Billing!queueVars, Billing!billingVars,
     RunTypesOK
<1> QED
  BY <1>1, <1>2, <1>3, <1>4, <1>5, <1>6, <1>7, <1>8, <1>9, <1>10, <1>11, <1>12, <1>13
     DEF Billing!Next, Billing!HandlerAction

(* Whichever runs raced it, and however often it was started, a completed  *)
(* run over all tenants has an invoice for every tenant it listed, or has  *)
(* sent an alert for it, which only a failure of that mail keeps back      *)
(* (invoice-generation.processor.ts:75-92, billing.service.ts:255-267).    *)
THEOREM RunsAccountForAll ==
  ASSUME None \notin Runs
  PROVE  Billing!Spec => []RunAccountsForAll
<1>1. Billing!Init => AccountInv
  BY AccountInit
<1>2. AccountInv /\ [Billing!Next]_Billing!vars => AccountInv'
  BY AccountStep
<1>3. AccountInv => RunAccountsForAll
  BY DEF AccountInv, RunAccountsForAll
<1> QED
  BY <1>1, <1>2, <1>3, PTL DEF Billing!Spec

-----------------------------------------------------------------------------
(***************************************************************************)
(* The vehicle catalog.  A run that scrapes is alone with the files from   *)
(* its start to its last statement, so what its import reads is what it    *)
(* has scraped; a brand of the checkpoint was fetched or passed over.      *)
(***************************************************************************)
SyncPhases == Catalog!Working \union {"idle", "save", "enqueue", "queued", "fail", "end"}
SyncBusy == Catalog!Working \union {"fail"}

Kept(m) == m \in Catalog!Scraped /\ m.done = m.have \union m.missed

FilesOK == (mem = None \/ Kept(mem)) /\ Kept(checkpoint)

SyncsOK ==
  /\ syncPc \in [Syncs -> SyncPhases]
  /\ DOMAIN sync = Syncs /\ DOMAIN input = Syncs /\ DOMAIN gaps = Syncs
  /\ \A r \in Syncs \intersect imports : syncPc[r] \in {"import", "fail", "end"}

OneSync ==
  \A q, r \in Syncs \ imports : syncPc[q] \in SyncBusy /\ syncPc[r] \in SyncBusy => q = r

(* What is left of the brands from one file to the next.                   *)
Carried ==
  \A r \in Syncs \ imports :
    /\ syncPc[r] = "scraped" => Brands \ gaps[r] \subseteq output
    /\ syncPc[r] = "import" => Brands \ gaps[r] \subseteq input[r]
    /\ sync[r] = "done" => syncPc[r] = "end" /\ Brands \ gaps[r] \subseteq db

CatalogInv == FilesOK /\ SyncsOK /\ OneSync /\ Carried

LEMMA CatalogInit == Catalog!Init => CatalogInv
  BY DEF Catalog!Init, CatalogInv, FilesOK, Kept, Catalog!Scraped, Catalog!Nothing, SyncsOK,
         SyncPhases, SyncBusy, Catalog!Working, OneSync, Carried

(* The statements of a run, as far as the others are concerned.            *)
LEMMA SyncMoves ==
  ASSUME SyncsOK, OneSync, NEW r \in Syncs, NEW to \in SyncPhases,
         syncPc' = [syncPc EXCEPT ![r] = to],
         DOMAIN sync' = Syncs, DOMAIN input' = Syncs, DOMAIN gaps' = Syncs,
         imports' \in {imports, imports \union {r}},
         r \in imports' => to \in {"import", "fail", "end"},
         \/ to \notin SyncBusy \/ r \in imports' \/ syncPc[r] \in SyncBusy
         \/ \A q \in Syncs \ imports : syncPc[q] \notin SyncBusy
  PROVE  /\ SyncsOK' /\ OneSync' /\ syncPc'[r] = to
         /\ \A q \in Syncs \ {r} : syncPc'[q] = syncPc[q]
<1>1. /\ syncPc' \in [Syncs -> SyncPhases] /\ syncPc'[r] = to
      /\ \A q \in Syncs \ {r} : syncPc'[q] = syncPc[q]
  BY DEF SyncsOK
<1>2. SyncsOK'
  BY <1>1 DEF SyncsOK
<1>3. OneSync'
  BY <1>1 DEF OneSync, SyncsOK
<1> QED
  BY <1>1, <1>2, <1>3

(* A statement after which nothing new is in a file of the run.            *)
LEMMA SyncKeeps ==
  ASSUME CatalogInv, NEW r \in Syncs, NEW to \in SyncPhases \ {"scraped"},
         syncPc' = [syncPc EXCEPT ![r] = to],
         DOMAIN sync' = Syncs, \A q \in Syncs \ {r} : sync'[q] = sync[q],
         DOMAIN input' = Syncs, \A q \in Syncs \ {r} : input'[q] = input[q],
         gaps' = gaps, imports' \in {imports, imports \union {r}}, db' = db,
         \/ output' = output
         \/ \A q \in Syncs \ imports : syncPc[q] # "scraped",
         r \in imports' => to \in {"import", "fail", "end"},
         \/ to \notin SyncBusy \/ r \in imports' \/ syncPc[r] \in SyncBusy
         \/ \A q \in Syncs \ imports : syncPc[q] \notin SyncBusy,
         FilesOK',
         r \notin imports' => /\ to = "import" => Brands \ gaps[r] \subseteq input'[r]
                              /\ sync'[r] = "done" => to = "end"
                                   /\ Brands \ gaps[r] \subseteq db
  PROVE  CatalogInv'
<1>1. DOMAIN gaps' = Syncs /\ to \in SyncPhases
  BY DEF CatalogInv, SyncsOK
<1>2. /\ SyncsOK' /\ OneSync' /\ syncPc'[r] = to
      /\ \A q \in Syncs \ {r} : syncPc'[q] = syncPc[q]
  BY <1>1, SyncMoves DEF CatalogInv
<1>3. Carried'
  <2> SUFFICES ASSUME NEW q \in Syncs, q \notin imports'
               PROVE  /\ syncPc'[q] = "scraped" => Brands \ gaps[q] \subseteq output'
                      /\ syncPc'[q] = "import" => Brands \ gaps[q] \subseteq input'[q]
                      /\ sync'[q] = "done" => syncPc'[q] = "end"
                           /\ Brands \ gaps[q] \subseteq db
    BY DEF Carried
  <2>1. q \notin imports
    OBVIOUS
  <2>2. CASE q = r
    BY <1>2, <2>2
  <2>3. CASE q # r
    BY <1>2, <2>1, <2>3 DEF CatalogInv, Carried
  <2> QED
    BY <2>2, <2>3
<1> QED
  BY <1>2, <1>3 DEF CatalogInv

LEMMA OneMoreBrand ==
  ASSUME NEW m, Kept(m), NEW b \in Brands, NEW n,
         \/ n = [m EXCEPT !.done = @ \union {b}, !.have = @ \union {b}]
         \/ n = [m EXCEPT !.done = @ \union {b}, !.missed = @ \union {b}]
  PROVE  Kept(n)
<1>1. m = [done |-> m.done, have |-> m.have, missed |-> m.missed]
  BY DEF Kept, Catalog!Scraped
<1>2. \/ n = [done |-> m.done \union {b}, have |-> m.have \union {b}, missed |-> m.missed]
      \/ n = [done |-> m.done \union {b}, have |-> m.have, missed |-> m.missed \union {b}]
  BY <1>1
<1> QED
  BY <1>2 DEF Kept, Catalog!Scraped

LEMMA CatalogStep ==
  ASSUME CatalogInv, [Catalog!Next]_Catalog!vars
  PROVE  CatalogInv'
<1> USE DEF Catalog!files, Catalog!importVars, Catalog!Goto, Catalog!Write
<1>0. SyncsOK /\ FilesOK /\ OneSync /\ Carried
  BY DEF CatalogInv
<1>1. ASSUME NEW r \in Syncs, Catalog!StartSync(r)
      PROVE  CatalogInv'
  BY <1>0, <1>1, SyncKeeps
     DEF Catalog!StartSync, SyncsOK, FilesOK, Carried, SyncPhases, SyncBusy, Catalog!Working
<1>2. ASSUME NEW r \in Syncs, Catalog!SaveRun(r)
      PROVE  CatalogInv'
  BY <1>0, <1>2, SyncKeeps
     DEF Catalog!SaveRun, SyncsOK, FilesOK, SyncPhases, SyncBusy, Catalog!Working
<1>3. ASSUME NEW r \in Syncs, Catalog!EnqueueRun(r)
      PROVE  CatalogInv'
  BY <1>0, <1>3, SyncKeeps
     DEF Catalog!EnqueueRun, SyncsOK, FilesOK, Carried, SyncPhases, SyncBusy, Catalog!Working
<1>4. ASSUME NEW r \in Syncs, Catalog!StartImportOnly(r)
      PROVE  CatalogInv'
  BY <1>0, <1>4, SyncKeeps
     DEF Catalog!StartImportOnly, SyncsOK, FilesOK, SyncPhases, SyncBusy, Catalog!Working
<1>5. ASSUME NEW r \in Syncs, Catalog!TakeJob(r)
      PROVE  CatalogInv'
  BY <1>0, <1>5, SyncKeeps
     DEF Catalog!TakeJob, SyncsOK, FilesOK, SyncPhases, SyncBusy, Catalog!Working
<1>6. ASSUME NEW r \in Syncs, Catalog!LoadCheckpoint(r)
      PROVE  CatalogInv'
  BY <1>0, <1>6, SyncKeeps
     DEF Catalog!LoadCheckpoint, SyncsOK, FilesOK, Carried, SyncPhases, SyncBusy,
         Catalog!Working
<1>7. ASSUME NEW r \in Syncs, NEW b \in Brands, Catalog!ProcessBrand(r, b)
      PROVE  CatalogInv'
  <2>1. Kept(mem) /\ UNCHANGED <<sync, syncPc, imports, checkpoint, output, input, db, gaps>>
    BY <1>0, <1>7 DEF Catalog!ProcessBrand, FilesOK
  <2>2. Kept(mem')
    BY <1>7, <2>1, OneMoreBrand DEF Catalog!ProcessBrand
  <2> QED
    BY <1>0, <2>1, <2>2 DEF CatalogInv, FilesOK, SyncsOK, OneSync, Carried
<1>8. ASSUME NEW r \in Syncs, Catalog!SaveCheckpoint(r)
      PROVE  CatalogInv'
  BY <1>0, <1>8, SyncKeeps
     DEF Catalog!SaveCheckpoint, SyncsOK, FilesOK, Carried, SyncPhases, SyncBusy,
         Catalog!Working
<1>9. ASSUME NEW r \in Syncs, Catalog!SaveResults(r)
      PROVE  CatalogInv'
  <2>1. \A q \in Syncs \ imports : syncPc[q] # "scraped"
    BY <1>0, <1>9 DEF Catalog!SaveResults, OneSync, SyncsOK, SyncBusy, Catalog!Working
  <2> QED
    BY <1>0, <1>9, <2>1, SyncKeeps
       DEF Catalog!SaveResults, SyncsOK, FilesOK, Carried, SyncPhases, SyncBusy,
           Catalog!Working
<1>10. ASSUME NEW r \in Syncs, Catalog!FinishScrape(r)
       PROVE  CatalogInv'
  <2>1. /\ syncPc[r] = "scrape" /\ syncPc' = [syncPc EXCEPT ![r] = "scraped"]
        /\ output' = mem.have /\ mem' = None /\ checkpoint' = Catalog!Nothing
        /\ gaps' = [gaps EXCEPT ![r] = mem.missed]
        /\ sync' = [sync EXCEPT ![r] = "importing"]
        /\ UNCHANGED <<imports, input, db>>
        /\ mem.done = Brands /\ Kept(mem)
    BY <1>0, <1>10 DEF Catalog!FinishScrape, FilesOK
  <2>2. r \notin imports /\ syncPc[r] \in SyncBusy /\ "scraped" \in SyncPhases
    BY <1>0, <2>1 DEF SyncsOK, SyncBusy, SyncPhases, Catalog!Working
  <2>3. \A q \in Syncs \ (imports \union {r}) : syncPc[q] \notin SyncBusy
    BY <1>0, <2>2 DEF OneSync
  <2>4. DOMAIN sync' = Syncs /\ DOMAIN gaps' = Syncs /\ DOMAIN input' = Syncs
    BY <1>0, <2>1 DEF SyncsOK
  <2>5. /\ SyncsOK' /\ OneSync' /\ syncPc'[r] = "scraped"
        /\ \A q \in Syncs \ {r} : syncPc'[q] = syncPc[q]
    BY <1>0, <2>1, <2>2, <2>4, SyncMoves
  <2>6. Brands \ gaps'[r] \subseteq output' /\ sync'[r] # "done"
    BY <1>0, <2>1 DEF SyncsOK, Kept
  <2>7. ASSUME NEW q \in Syncs \ imports
        PROVE  /\ syncPc'[q] = "scraped" => Brands \ gaps'[q] \subseteq output'
               /\ syncPc'[q] = "import" => Brands \ gaps'[q] \subseteq input'[q]
               /\ sync'[q] = "done" => syncPc'[q] = "end" /\ Brands \ gaps'[q] \subseteq db'
    <3>1. CASE q = r
      BY <2>5, <2>6, <3>1
    <3>2. CASE q # r
      <4>1. syncPc'[q] = syncPc[q] /\ gaps'[q] = gaps[q] /\ sync'[q] = sync[q]
        BY <1>0, <2>1, <2>5, <3>2 DEF SyncsOK
      <4>2. syncPc[q] # "scraped"
        BY <2>3, <3>2 DEF SyncBusy, Catalog!Working
      <4> QED
        BY <1>0, <2>1, <4>1, <4>2 DEF Carried
    <3> QED
      BY <3>1, <3>2
  <2>8. Carried'
    BY <2>1, <2>7 DEF Carried
  <2>9. FilesOK'
    BY <2>1 DEF FilesOK, Kept, Catalog!Nothing, Catalog!Scraped
  <2> QED
    BY <2>5, <2>8, <2>9 DEF CatalogInv
<1>11. ASSUME NEW r \in Syncs, Catalog!ScraperFails(r)
       PROVE  CatalogInv'
  BY <1>0, <1>11, SyncKeeps
     DEF Catalog!ScraperFails, SyncsOK, FilesOK, Carried, SyncPhases, SyncBusy,
         Catalog!Working
<1>12. ASSUME NEW r \in Syncs, Catalog!ReadFile(r)
       PROVE  CatalogInv'
  <2>1. /\ syncPc[r] = "scraped" /\ syncPc' = [syncPc EXCEPT ![r] = "import"]
        /\ input' = [input EXCEPT ![r] = output]
        /\ UNCHANGED <<sync, imports, mem, checkpoint, output, db, gaps>>
    BY <1>12 DEF Catalog!ReadFile
  <2>2. r \notin imports /\ syncPc[r] \in SyncBusy /\ "import" \in SyncPhases \ {"scraped"}
    BY <1>0, <2>1 DEF SyncsOK, SyncBusy, SyncPhases, Catalog!Working
  <2>3. /\ DOMAIN input' = Syncs /\ input'[r] = output
        /\ \A q \in Syncs \ {r} : input'[q] = input[q]
    BY <1>0, <2>1 DEF SyncsOK
  <2>4. Brands \ gaps[r] \subseteq input'[r] /\ sync[r] # "done"
    BY <1>0, <2>1, <2>2, <2>3 DEF Carried
  <2> QED
    BY <1>0, <2>1, <2>2, <2>3, <2>4, SyncKeeps DEF SyncsOK, FilesOK
<1>13. ASSUME NEW r \in Syncs, Catalog!ImportBatch(r)
       PROVE  CatalogInv'
  <2>1. db \subseteq db'
    BY <1>13 DEF Catalog!ImportBatch
  <2> QED
    BY <1>0, <1>13, <2>1
       DEF Catalog!ImportBatch, CatalogInv, SyncsOK, FilesOK, OneSync, Carried
<1>14. ASSUME NEW r \in Syncs, Catalog!FinishImport(r)
       PROVE  CatalogInv'
  BY <1>0, <1>14, SyncKeeps
     DEF Catalog!FinishImport, SyncsOK, FilesOK, Carried, SyncPhases, SyncBusy,
         Catalog!Working
<1>15. ASSUME NEW r \in Syncs, Catalog!ImportFails(r)
       PROVE  CatalogInv'
  BY <1>0, <1>15, SyncKeeps
     DEF Catalog!ImportFails, SyncsOK, FilesOK, Carried, SyncPhases, SyncBusy,
         Catalog!Working
<1>16. ASSUME NEW r \in Syncs, Catalog!MarkFailed(r)
       PROVE  CatalogInv'
  BY <1>0, <1>16, SyncKeeps
     DEF Catalog!MarkFailed, SyncsOK, FilesOK, SyncPhases, SyncBusy, Catalog!Working
<1>17. ASSUME NEW r \in Syncs, Catalog!Crash(r)
       PROVE  CatalogInv'
  <2>1. PICK to \in {"queued", "end"} :
           syncPc[r] \in Catalog!Working /\ syncPc' = [syncPc EXCEPT ![r] = to]
           /\ (r \in imports => to = "end")
    BY <1>17 DEF Catalog!Crash
  <2>2. UNCHANGED <<sync, imports, checkpoint, output, input, db, gaps>> /\ mem' \in {mem, None}
    BY <1>17 DEF Catalog!Crash
  <2>3. r \notin imports => sync[r] # "done"
    BY <1>0, <2>1 DEF Carried, Catalog!Working
  <2>4. FilesOK'
    BY <1>0, <2>2 DEF FilesOK
  <2> QED
    BY <1>0, <2>1, <2>2, <2>3, <2>4, SyncKeeps DEF SyncsOK, SyncPhases, SyncBusy,
       Catalog!Working
<1>18. CASE UNCHANGED Catalog!vars
  BY <1>0, <1>18 DEF Catalog!vars, CatalogInv, SyncsOK, FilesOK, OneSync, Carried
<1> QED
  BY <1>1, <1>2, <1>3, <1>4, <1>5, <1>6, <1>7, <1>8, <1>9, <1>10, <1>11, <1>12, <1>13, <1>14,
     <1>15, <1>16, <1>17, <1>18 DEF Catalog!Next

(* A run that is done has put every brand into the catalog but those whose *)
(* page failed since the checkpoint it started from was begun, for any     *)
(* number of runs, imports beside them, brands and faults                  *)
(* (vehicle-catalog-sync.processor.ts:46-92, autodata24-scraper.ts:480-580). *)
THEOREM SyncIsWhole == Catalog!Spec => []DoneIsWhole
<1>1. Catalog!Init => CatalogInv
  BY CatalogInit
<1>2. CatalogInv /\ [Catalog!Next]_Catalog!vars => CatalogInv'
  BY CatalogStep
<1>3. CatalogInv => DoneIsWhole
  BY DEF CatalogInv, Carried, DoneIsWhole, Catalog!DoneIsWhole
<1> QED
  BY <1>1, <1>2, <1>3, PTL DEF Catalog!Spec

-----------------------------------------------------------------------------
(***************************************************************************)
(* The custom domain of a tenant.  What is cached is the name of the row   *)
(* that is registered, or of one whose deletion is about to clear it.      *)
(***************************************************************************)
Explained(h) ==
  \/ \E i \in Domain!Registered : host[i] = h
  \/ \E q \in Requests : dpc[q] = "clear" /\ host[of[q]] = h

HostInv ==
  /\ dpc \in [Requests -> {"idle", "insert", "delete", "clear", "cache"}]
  /\ DOMAIN of = Requests /\ DOMAIN row = DomainRows
  /\ dtorn \in BOOLEAN /\ domainFaults \in Nat
  /\ \/ dtorn = TRUE \/ domainFaults > 0
     \/ /\ \A i, k \in Domain!Registered : i = k
        /\ \A h \in cached : Explained(h)

LEMMA HostInit == Domain!Init => HostInv
<1> SUFFICES ASSUME Domain!Init PROVE HostInv
  OBVIOUS
<1>1. DOMAIN row = DomainRows /\ Domain!Registered = {} /\ cached = {}
  BY DEF Domain!Init, Domain!Registered
<1>2. dtorn = FALSE /\ domainFaults = 0 /\ DOMAIN of = Requests
  BY DEF Domain!Init
<1>3. dpc \in [Requests -> {"idle", "insert", "delete", "clear", "cache"}]
  BY DEF Domain!Init
<1> QED
  BY <1>1, <1>2, <1>3 DEF HostInv

(* A request at a new statement, when the rows and the cache stay.         *)
LEMMA RequestMoves ==
  ASSUME HostInv, NEW r \in Requests, dpc[r] # "clear",
         NEW to \in {"idle", "insert", "delete", "clear", "cache"}, NEW about,
         dpc' = [dpc EXCEPT ![r] = to], of' = [of EXCEPT ![r] = about],
         UNCHANGED <<row, host, cached, dtorn, domainFaults>>
  PROVE  HostInv'
<1>1. /\ dpc' \in [Requests -> {"idle", "insert", "delete", "clear", "cache"}]
      /\ DOMAIN of' = Requests
      /\ \A q \in Requests \ {r} : dpc'[q] = dpc[q] /\ of'[q] = of[q]
  BY DEF HostInv
<1>2. \A h : Explained(h) => Explained(h)'
  BY <1>1 DEF Explained, Domain!Registered
<1> QED
  BY <1>1, <1>2 DEF HostInv, Domain!Registered

(* The job's statements that write a row keep the rows registered.         *)
LEMMA StatusKeeps ==
  ASSUME HostInv, NEW i, NEW status \in {"verifying", "active", "failed"},
         Domain!SetStatus(i, status) \/ UNCHANGED row,
         UNCHANGED <<host, dpc, of, dtorn>>, cached' \subseteq cached,
         domainFaults' \in {domainFaults, domainFaults + 1}
  PROVE  HostInv'
<1>1. DOMAIN row' = DomainRows /\ Domain!Registered' = Domain!Registered
  BY DEF HostInv, Domain!SetStatus, Domain!Registered
<1>2. \A h : Explained(h)' <=> Explained(h)
  BY <1>1 DEF Explained
<1> QED
  BY <1>1, <1>2 DEF HostInv

LEMMA CreateDomainKeeps ==
  ASSUME HostInv, NEW r \in Requests, Domain!CreateCustomDomain(r)
  PROVE  HostInv'
<1>1. /\ dpc[r] = "insert" /\ dpc' = [dpc EXCEPT ![r] = "idle"] /\ of' = [of EXCEPT ![r] = None]
      /\ UNCHANGED <<host, cached, domainFaults>>
  BY DEF Domain!CreateCustomDomain, Domain!Goto
<1>2. CASE UNCHANGED <<row, dtorn>>
  BY <1>1, <1>2, RequestMoves
<1>3. ASSUME NEW i \in DomainRows, row[i] = "none", row' = [row EXCEPT ![i] = "pending"],
             dtorn' = (dtorn \/ Domain!Registered # {})
      PROVE  HostInv'
  <2>1. /\ dpc' \in [Requests -> {"idle", "insert", "delete", "clear", "cache"}]
        /\ DOMAIN of' = Requests /\ DOMAIN row' = DomainRows
        /\ \A q \in Requests \ {r} : dpc'[q] = dpc[q] /\ of'[q] = of[q]
    BY <1>1, <1>3 DEF HostInv
  <2>2. Domain!Registered' = Domain!Registered \union {i}
    BY <1>3 DEF HostInv, Domain!Registered
  <2>3. \A h : Explained(h) => Explained(h)'
    BY <1>1, <2>1, <2>2 DEF Explained
  <2>4. dtorn' \in BOOLEAN /\ (dtorn' = FALSE => dtorn = FALSE /\ Domain!Registered = {})
    BY <1>3, Zenon DEF HostInv
  <2> QED
    BY <1>1, <2>1, <2>2, <2>3, <2>4 DEF HostInv
<1> QED
  BY <1>2, <1>3 DEF Domain!CreateCustomDomain

(* The row is gone; its name is left to the clearing that follows.         *)
LEMMA DeleteKeeps ==
  ASSUME HostInv, NEW r \in Requests, Domain!DeleteDomain(r)
  PROVE  HostInv'
<1>1. /\ dpc[r] = "delete" /\ dpc' = [dpc EXCEPT ![r] = "clear"]
      /\ of' = [of EXCEPT ![r] = of[r]]
      /\ UNCHANGED <<host, cached, dtorn, domainFaults>>
      /\ Domain!SetStatus(of[r], "deleted")
  BY DEF Domain!DeleteDomain, Domain!Goto
<1>2. /\ dpc' \in [Requests -> {"idle", "insert", "delete", "clear", "cache"}]
      /\ dpc'[r] = "clear" /\ DOMAIN of' = Requests
      /\ \A q \in Requests \ {r} : dpc'[q] = dpc[q]
      /\ \A q \in Requests : of'[q] = of[q]
  BY <1>1 DEF HostInv
<1>3. DOMAIN row' = DomainRows /\ Domain!Registered' = Domain!Registered \ {of[r]}
  BY <1>1 DEF HostInv, Domain!SetStatus, Domain!Registered
<1>4. \A h : Explained(h) => Explained(h)'
  BY <1>1, <1>2, <1>3 DEF Explained
<1> QED
  BY <1>1, <1>2, <1>3, <1>4 DEF HostInv

LEMMA ClearKeeps ==
  ASSUME HostInv, NEW r \in Requests, Domain!ClearDeleted(r)
  PROVE  HostInv'
<1>1. /\ dpc[r] = "clear" /\ dpc' = [dpc EXCEPT ![r] = "idle"] /\ of' = [of EXCEPT ![r] = None]
      /\ UNCHANGED <<row, host, dtorn>>
  BY DEF Domain!ClearDeleted, Domain!Goto
<1>2. /\ dpc' \in [Requests -> {"idle", "insert", "delete", "clear", "cache"}]
      /\ DOMAIN of' = Requests
      /\ \A q \in Requests \ {r} : dpc'[q] = dpc[q] /\ of'[q] = of[q]
  BY <1>1 DEF HostInv
<1>3. CASE domainFaults' = domainFaults + 1
  BY <1>1, <1>2, <1>3 DEF HostInv
<1>4. CASE cached' = cached \ {host[of[r]]} /\ UNCHANGED domainFaults
  <2>1. \A h \in cached' : Explained(h) => Explained(h)'
    BY <1>1, <1>2, <1>4 DEF Explained, Domain!Registered
  <2> QED
    BY <1>1, <1>2, <1>4, <2>1 DEF HostInv, Domain!Registered
<1> QED
  BY <1>3, <1>4 DEF Domain!ClearDeleted

LEMMA SetCacheKeeps ==
  ASSUME HostInv, NEW r \in Requests, Domain!SetCache(r)
  PROVE  HostInv'
<1>1. /\ dpc[r] = "cache" /\ dpc' = [dpc EXCEPT ![r] = "idle"] /\ of' = [of EXCEPT ![r] = None]
      /\ UNCHANGED <<row, host, domainFaults>>
      /\ cached' = cached \union {host[of[r]]}
      /\ dtorn' = (dtorn \/ of[r] \notin Domain!Registered)
  BY DEF Domain!SetCache, Domain!Goto
<1>2. /\ dpc' \in [Requests -> {"idle", "insert", "delete", "clear", "cache"}]
      /\ DOMAIN of' = Requests
      /\ \A q \in Requests \ {r} : dpc'[q] = dpc[q] /\ of'[q] = of[q]
  BY <1>1 DEF HostInv
<1>3. \A h : Explained(h) => Explained(h)'
  BY <1>1, <1>2 DEF Explained, Domain!Registered
<1>4. dtorn' \in BOOLEAN /\ (dtorn' = FALSE => dtorn = FALSE /\ of[r] \in Domain!Registered)
  BY <1>1, Zenon DEF HostInv
<1>5. \A h : of[r] \in Domain!Registered /\ h = host[of[r]] => Explained(h)'
  BY <1>1 DEF Explained, Domain!Registered
<1> QED
  BY <1>1, <1>2, <1>3, <1>4, <1>5 DEF HostInv, Domain!Registered

LEMMA HostStep ==
  ASSUME HostInv, [Domain!Next]_Domain!vars
  PROVE  HostInv'
<1> USE DEF Domain!jobVars
<1>1. ASSUME NEW r \in Requests, Domain!AskRegister(r)
      PROVE  HostInv'
  BY <1>1, RequestMoves DEF Domain!AskRegister, Domain!Goto
<1>2. ASSUME NEW r \in Requests, Domain!CreateCustomDomain(r)
      PROVE  HostInv'
  BY <1>2, CreateDomainKeeps
<1>3. ASSUME NEW r \in Requests, Domain!AskDelete(r)
      PROVE  HostInv'
  BY <1>3, RequestMoves DEF Domain!AskDelete, Domain!Goto
<1>4. ASSUME NEW r \in Requests, Domain!DeleteDomain(r)
      PROVE  HostInv'
  BY <1>4, DeleteKeeps
<1>5. ASSUME NEW r \in Requests, Domain!ClearDeleted(r)
      PROVE  HostInv'
  BY <1>5, ClearKeeps
<1>6. ASSUME NEW r \in Requests, Domain!Lookup(r)
      PROVE  HostInv'
  BY <1>6, RequestMoves DEF Domain!Lookup, Domain!Goto
<1>7. ASSUME NEW r \in Requests, Domain!SetCache(r)
      PROVE  HostInv'
  BY <1>7, SetCacheKeeps
<1>8. CASE Domain!CacheExpires
  BY <1>8, StatusKeeps DEF Domain!CacheExpires
<1>9. CASE Domain!DayPasses
  BY <1>9, StatusKeeps DEF Domain!DayPasses
<1>10. CASE Domain!StartJob
  BY <1>10, StatusKeeps DEF Domain!StartJob
<1>11. CASE Domain!VerifyTxtRecord
  BY <1>11, StatusKeeps DEF Domain!VerifyTxtRecord
<1>12. CASE Domain!ActivateDomain
  BY <1>12, StatusKeeps DEF Domain!ActivateDomain
<1>13. CASE Domain!ClearActivated
  BY <1>13, StatusKeeps DEF Domain!ClearActivated
<1>14. CASE Domain!FailDomain
  BY <1>14, StatusKeeps DEF Domain!FailDomain
<1>15. CASE Domain!EndJob
  BY <1>15, StatusKeeps DEF Domain!EndJob
<1>16. ASSUME NEW i \in DomainRows, Domain!VisitDomain(i)
       PROVE  HostInv'
  BY <1>16, StatusKeeps DEF Domain!VisitDomain
<1>17. CASE UNCHANGED Domain!vars
  BY <1>17, StatusKeeps DEF Domain!vars
<1> QED
  BY <1>1, <1>2, <1>3, <1>4, <1>5, <1>6, <1>7, <1>8, <1>9, <1>10, <1>11, <1>12, <1>13,
     <1>14, <1>15, <1>16, <1>17 DEF Domain!Next

(* A tenant has one custom domain at most, and a name it has deleted leads *)
(* to it no more once the deletion is through, for any number of requests  *)
(* beside the job: unless two registrations overlapped, a lookup stored    *)
(* what it had found before the deletion, or a statement failed            *)
(* (domains.service.ts:26-69, domain-verification.job.ts:22-67).           *)
THEOREM DeletedHostsAreLeft == Domain!Spec => []HostsExplained
<1>1. Domain!Init => HostInv
  BY HostInit
<1>2. HostInv /\ [Domain!Next]_Domain!vars => HostInv'
  BY HostStep
<1>3. HostInv => HostsExplained
  <2> SUFFICES ASSUME HostInv, dtorn = FALSE, ~(domainFaults > 0)
               PROVE  /\ Cardinality(Domain!Registered) <= 1
                      /\ cached \subseteq {host[i] : i \in Domain!Registered}
                           \union {host[of[r]] : r \in {q \in Requests : dpc[q] = "clear"}}
    BY DEF HostsExplained, Domain!HostsExplained, Domain!Cardinality, Cardinality, HostInv
  <2>1. Domain!Registered = {} \/ \E i \in Domain!Registered : Domain!Registered = {i}
    BY DEF HostInv
  <2>2. Cardinality(Domain!Registered) \in {0, 1}
    BY <2>1, FS_EmptySet, FS_Singleton
  <2>3. \A h \in cached : Explained(h)
    BY DEF HostInv
  <2> QED
    BY <2>2, <2>3 DEF Explained
<1> QED
  BY <1>1, <1>2, <1>3, PTL DEF Domain!Spec

-----------------------------------------------------------------------------
(***************************************************************************)
(* The register of breaches.  A key of Redis stands for the mail of this   *)
(* run or the one before, as long as nothing fails; and as long as no      *)
(* update is saved over one it has not read, no update takes a             *)
(* notification or a closing date back.                                    *)
(***************************************************************************)
AlertTypesOK ==
  /\ age \in Nat /\ breachFaults \in Nat /\ pending \in 0..2
  /\ key \in [Register!Levels -> {"absent", "set", "expiring"}]
  /\ jpc \in [Workers -> {"idle", "get", "send", "set"}]
  /\ DOMAIN level = Workers
  /\ \A p \in Workers : jpc[p] # "idle" => level[p] \in Register!Levels
  /\ alerted \in [now: BOOLEAN, before: BOOLEAN]
  /\ pending > 0 => Register!Pending(breach)

MailedInv ==
  /\ \A l \in Register!Levels : /\ key[l] = "set" => alerted.now = TRUE
                                /\ key[l] = "expiring" => alerted.before = TRUE
  /\ \A p \in Workers : jpc[p] = "set" => alerted.now = TRUE
  /\ pending > 0 /\ age >= 48 =>
       \/ fires # {} \/ \E p \in Workers : jpc[p] # "idle"
       \/ alerted.now = TRUE \/ alerted.before = TRUE

AlertInv == AlertTypesOK /\ (breachFaults = 0 => MailedInv)

LEMMA LevelOf ==
  ASSUME NEW hours \in Nat
  PROVE  /\ Register!Level(hours) \in Register!Levels \union {None}
         /\ hours >= 48 => Register!Level(hours) \in Register!Levels
  BY DEF Register!Level, Register!Levels

LEMMA AlertInit ==
  ASSUME Ages \subseteq Nat, Register!Init
  PROVE  AlertInv
  BY DEF Register!Init, AlertInv, AlertTypesOK, MailedInv, Register!Levels

(* What an administrator does is nothing to the job but that the breach    *)
(* may be pending no more.                                                 *)
LEMMA AdminKeeps ==
  ASSUME AlertInv, UNCHANGED <<age, Register!jobVars, breachFaults>>,
         pending' \in {0, pending}, pending' > 0 => Register!Pending(breach')
  PROVE  AlertInv'
  BY DEF AlertInv, AlertTypesOK, MailedInv, Register!jobVars

LEMMA TickKeeps ==
  ASSUME AlertInv, Register!Tick
  PROVE  AlertInv'
<1>1. /\ breach # None /\ Register!Idle /\ age' = age + 4
      /\ key' = [l \in Register!Levels |-> Register!Expired(key[l])]
      /\ alerted' = [now |-> FALSE, before |-> alerted.now]
      /\ pending' = IF ~Register!Pending(breach) THEN 0 ELSE IF pending = 0 THEN 1 ELSE 2
      /\ UNCHANGED <<breach, jpc, level>>
  BY DEF Register!Tick
<1>2. /\ breachFaults' \in {breachFaults, breachFaults + 1}
      /\ breachFaults' = breachFaults => fires' # {}
  BY DEF Register!Tick, AlertInv, AlertTypesOK
<1>3. /\ alerted' \in [now: BOOLEAN, before: BOOLEAN]
      /\ alerted'.now = FALSE /\ alerted'.before = alerted.now
  BY <1>1 DEF AlertInv, AlertTypesOK
<1>4. /\ key' \in [Register!Levels -> {"absent", "set", "expiring"}]
      /\ \A l \in Register!Levels : /\ key'[l] # "set"
                                    /\ key'[l] = "expiring" => key[l] = "set"
  BY <1>1 DEF AlertInv, AlertTypesOK, Register!Expired
<1>5. pending' \in 0..2 /\ (pending' > 0 => Register!Pending(breach))
  BY <1>1 DEF AlertInv, AlertTypesOK
<1>6. AlertTypesOK'
  BY <1>1, <1>2, <1>3, <1>4, <1>5 DEF AlertInv, AlertTypesOK, Register!Pending
<1>7. ASSUME breachFaults' = 0
      PROVE  MailedInv'
  <2>1. breachFaults = 0 /\ breachFaults' = breachFaults
    BY <1>2, <1>7 DEF AlertInv, AlertTypesOK
  <2>2. \A p \in Workers : jpc'[p] = "idle"
    BY <1>1 DEF Register!Idle
  <2> QED
    BY <1>2, <1>3, <1>4, <2>1, <2>2 DEF AlertInv, MailedInv
<1> QED
  BY <1>6, <1>7 DEF AlertInv

(* A statement of the job in one process.                                  *)
LEMMA JobMoves ==
  ASSUME AlertTypesOK, NEW p \in Workers, NEW to \in {"idle", "get", "send", "set"},
         jpc' = [jpc EXCEPT ![p] = to], UNCHANGED <<breach, age, pending>>,
         DOMAIN level' = Workers, \A q \in Workers \ {p} : level'[q] = level[q],
         to # "idle" => level'[p] \in Register!Levels,
         key' \in [Register!Levels -> {"absent", "set", "expiring"}],
         alerted' \in [now: BOOLEAN, before: BOOLEAN],
         breachFaults' \in {breachFaults, breachFaults + 1}
  PROVE  /\ AlertTypesOK' /\ jpc'[p] = to
         /\ \A q \in Workers \ {p} : jpc'[q] = jpc[q]
         /\ breachFaults' = 0 => breachFaults = 0
<1>1. /\ jpc' \in [Workers -> {"idle", "get", "send", "set"}] /\ jpc'[p] = to
      /\ \A q \in Workers \ {p} : jpc'[q] = jpc[q]
  BY DEF AlertTypesOK
<1>2. breachFaults' \in Nat /\ (breachFaults' = 0 => breachFaults = 0)
  BY DEF AlertTypesOK
<1>3. \A q \in Workers : jpc'[q] # "idle" => level'[q] \in Register!Levels
  BY <1>1 DEF AlertTypesOK
<1>4. AlertTypesOK'
  BY <1>1, <1>2, <1>3 DEF AlertTypesOK, Register!Pending
<1> QED
  BY <1>1, <1>2, <1>4

LEMMA ListKeeps ==
  ASSUME None \notin Register!Levels, AlertInv,
         NEW p \in Workers, Register!GetPendingAlertBreaches(p)
  PROVE  AlertInv'
<1>1. /\ fires' = fires \ {p} /\ level' = [level EXCEPT ![p] = Register!Level(age)]
      /\ UNCHANGED <<breach, age, key, alerted, pending, breachFaults>>
  BY DEF Register!GetPendingAlertBreaches
<1>2. AlertTypesOK /\ age \in Nat
  BY DEF AlertInv, AlertTypesOK
<1>3. /\ Register!Level(age) \in Register!Levels \union {None}
      /\ age >= 48 => Register!Level(age) \in Register!Levels
  BY <1>2, LevelOf
<1>4. PICK to \in {"idle", "get"} :
         /\ jpc' = [jpc EXCEPT ![p] = to]
         /\ to = "get" <=> Register!Pending(breach) /\ Register!Level(age) # None
  BY DEF Register!GetPendingAlertBreaches
<1>5. /\ DOMAIN level' = Workers /\ level'[p] = Register!Level(age)
      /\ \A q \in Workers \ {p} : level'[q] = level[q]
  BY <1>1, <1>2 DEF AlertTypesOK
<1>6. /\ AlertTypesOK' /\ jpc'[p] = to
      /\ \A q \in Workers \ {p} : jpc'[q] = jpc[q]
  BY <1>1, <1>2, <1>3, <1>4, <1>5, JobMoves DEF AlertTypesOK
<1>7. ASSUME breachFaults = 0
      PROVE  MailedInv'
  <2>1. MailedInv
    BY <1>7 DEF AlertInv
  <2>2. pending' > 0 /\ age' >= 48 => jpc'[p] # "idle"
    BY <1>1, <1>2, <1>3, <1>4, <1>6 DEF AlertTypesOK
  <2>3. \A q \in Workers : jpc'[q] = "set" => alerted'.now = TRUE
    BY <1>1, <1>4, <1>6, <2>1 DEF MailedInv
  <2> QED
    BY <1>1, <2>1, <2>2, <2>3 DEF MailedInv
<1> QED
  BY <1>1, <1>6, <1>7 DEF AlertInv

LEMMA GetKeyKeeps ==
  ASSUME AlertInv, NEW p \in Workers, Register!GetKey(p)
  PROVE  AlertInv'
<1>1. /\ jpc[p] = "get"
      /\ UNCHANGED <<breach, age, key, fires, level, alerted, pending, breachFaults>>
  BY DEF Register!GetKey
<1>2. AlertTypesOK /\ level[p] \in Register!Levels
  BY <1>1 DEF AlertInv, AlertTypesOK
<1>3. PICK to \in {"idle", "send"} :
         jpc' = [jpc EXCEPT ![p] = to] /\ (to = "idle" => key[level[p]] # "absent")
  BY DEF Register!GetKey
<1>4. /\ AlertTypesOK' /\ jpc'[p] = to
      /\ \A q \in Workers \ {p} : jpc'[q] = jpc[q]
  BY <1>1, <1>2, <1>3, JobMoves DEF AlertTypesOK
<1>5. ASSUME breachFaults = 0
      PROVE  MailedInv'
  <2>1. MailedInv
    BY <1>5 DEF AlertInv
  <2>2. key[level[p]] # "absent" => alerted.now = TRUE \/ alerted.before = TRUE
    BY <1>2, <2>1 DEF MailedInv, AlertTypesOK
  <2>3. \A q \in Workers : jpc'[q] = "set" => alerted'.now = TRUE
    BY <1>1, <1>4, <2>1 DEF MailedInv
  <2> QED
    BY <1>1, <1>3, <1>4, <2>1, <2>2, <2>3 DEF MailedInv
<1> QED
  BY <1>1, <1>4, <1>5 DEF AlertInv

LEMMA SendKeeps ==
  ASSUME AlertInv, NEW p \in Workers, Register!SendBreachAlert(p)
  PROVE  AlertInv'
<1>1. /\ jpc[p] = "send" /\ jpc' = [jpc EXCEPT ![p] = "set"]
      /\ UNCHANGED <<breach, age, key, fires, level, pending>>
  BY DEF Register!SendBreachAlert
<1>2. AlertTypesOK /\ level[p] \in Register!Levels
  BY <1>1 DEF AlertInv, AlertTypesOK
<1>3. \/ alerted' = [alerted EXCEPT !.now = TRUE] /\ UNCHANGED breachFaults
      \/ breachFaults' = breachFaults + 1 /\ UNCHANGED alerted
  BY DEF Register!SendBreachAlert
<1>4. /\ alerted' \in [now: BOOLEAN, before: BOOLEAN] /\ alerted'.before = alerted.before
      /\ breachFaults' = breachFaults => alerted'.now = TRUE
  <2>1. alerted \in [now: BOOLEAN, before: BOOLEAN] /\ breachFaults + 1 # breachFaults
    BY <1>2 DEF AlertTypesOK
  <2> QED
    BY <1>3, <2>1
<1>5. /\ AlertTypesOK' /\ jpc'[p] = "set"
      /\ \A q \in Workers \ {p} : jpc'[q] = jpc[q]
      /\ breachFaults' = 0 => breachFaults = 0 /\ breachFaults' = breachFaults
  BY <1>1, <1>2, <1>3, <1>4, JobMoves DEF AlertTypesOK
<1>6. ASSUME breachFaults' = 0
      PROVE  MailedInv'
  <2>1. MailedInv /\ alerted'.now = TRUE
    BY <1>4, <1>5, <1>6 DEF AlertInv
  <2> QED
    BY <1>1, <1>4, <2>1 DEF MailedInv
<1> QED
  BY <1>5, <1>6 DEF AlertInv

LEMMA SetKeyKeeps ==
  ASSUME AlertInv, NEW p \in Workers, Register!SetKey(p)
  PROVE  AlertInv'
<1>1. /\ jpc[p] = "set" /\ jpc' = [jpc EXCEPT ![p] = "idle"]
      /\ key' = [key EXCEPT ![level[p]] = "set"]
      /\ UNCHANGED <<breach, age, fires, level, alerted, pending, breachFaults>>
  BY DEF Register!SetKey
<1>2. AlertTypesOK /\ level[p] \in Register!Levels
  BY <1>1 DEF AlertInv, AlertTypesOK
<1>3. /\ key' \in [Register!Levels -> {"absent", "set", "expiring"}]
      /\ \A l \in Register!Levels : key'[l] \in {"set", key[l]}
  BY <1>1, <1>2 DEF AlertTypesOK
<1>4. /\ AlertTypesOK' /\ jpc'[p] = "idle"
      /\ \A q \in Workers \ {p} : jpc'[q] = jpc[q]
  BY <1>1, <1>2, <1>3, JobMoves DEF AlertTypesOK
<1>5. ASSUME breachFaults = 0
      PROVE  MailedInv'
  <2>1. MailedInv /\ alerted.now = TRUE
    BY <1>1, <1>5 DEF AlertInv, MailedInv
  <2> QED
    BY <1>1, <1>3, <2>1 DEF MailedInv
<1> QED
  BY <1>1, <1>4, <1>5 DEF AlertInv

LEMMA AlertStep ==
  ASSUME None \notin Register!Levels, AlertInv, [Register!Next]_Register!vars
  PROVE  AlertInv'
<1>1. CASE Register!ReportBreach
  <2>1. pending = 0
    BY <1>1 DEF Register!ReportBreach, AlertInv, AlertTypesOK, Register!Pending
  <2> QED
    BY <1>1, <2>1, AdminKeeps DEF Register!ReportBreach
<1>2. CASE Register!Tick
  BY <1>2, TickKeeps
<1>3. ASSUME NEW a \in Workers, Register!FindOne(a) \/ Register!UpdateBreach(a)
      PROVE  AlertInv'
  BY <1>3, AdminKeeps
     DEF Register!FindOne, Register!UpdateBreach, Register!Assign, AlertInv, AlertTypesOK
<1>4. ASSUME NEW a \in Workers, Register!Save(a)
      PROVE  AlertInv'
  <2>1. /\ pending' = IF Register!Pending(breach') THEN pending ELSE 0
        /\ UNCHANGED <<age, Register!jobVars, breachFaults>>
    BY <1>4 DEF Register!Save, Register!Watch
  <2> QED
    BY <2>1, AdminKeeps
<1>5. ASSUME NEW p \in Workers, Register!GetPendingAlertBreaches(p)
      PROVE  AlertInv'
  BY <1>5, ListKeeps
<1>6. ASSUME NEW p \in Workers, Register!GetKey(p)
      PROVE  AlertInv'
  BY <1>6, GetKeyKeeps
<1>7. ASSUME NEW p \in Workers, Register!SendBreachAlert(p)
      PROVE  AlertInv'
  BY <1>7, SendKeeps
<1>8. ASSUME NEW p \in Workers, Register!SetKey(p)
      PROVE  AlertInv'
  BY <1>8, SetKeyKeeps
<1>9. ASSUME NEW p \in Workers, Register!Crash(p)
      PROVE  AlertInv'
  <2>1. /\ jpc' = [jpc EXCEPT ![p] = "idle"] /\ breachFaults' = breachFaults + 1
        /\ UNCHANGED <<breach, age, key, fires, level, alerted, pending>>
    BY <1>9 DEF Register!Crash
  <2>2. AlertTypesOK'
    BY <2>1, JobMoves DEF AlertInv, AlertTypesOK
  <2>3. breachFaults' # 0
    BY <2>1 DEF AlertInv, AlertTypesOK
  <2> QED
    BY <2>2, <2>3 DEF AlertInv
<1>10. CASE UNCHANGED Register!vars
  BY <1>10, AdminKeeps DEF Register!vars, AlertInv, AlertTypesOK
<1> QED
  BY <1>1, <1>2, <1>3, <1>4, <1>5, <1>6, <1>7, <1>8, <1>9, <1>10 DEF Register!Next

-----------------------------------------------------------------------------
(* An update on its way to be saved: what it has in mind for the row.      *)
NothingTakenBack(entity, changed) ==
  /\ "kzldNotifiedAt" \in changed => entity.kzldNotifiedAt = TRUE
  /\ "closedAt" \in changed => entity.closedAt = TRUE
  /\ "status" \in changed /\ entity.status = "closed" =>
       "closedAt" \in changed \/ breach.closedAt = TRUE

RowsOK ==
  /\ breach \in Register!Row \union {None}
  /\ apc \in [Workers -> {"idle", "read", "diffed", "done"}]
  /\ DOMAIN copy = Workers /\ DOMAIN diff = Workers
  /\ \A a \in Workers : /\ apc[a] # "idle" => breach # None
                        /\ apc[a] \in {"read", "diffed"} => copy[a] \in Register!Row
  /\ told \in BOOLEAN /\ torn \in BOOLEAN
  /\ breach = None => told = FALSE

KeptInv ==
  /\ \A a \in Workers : apc[a] = "diffed" => NothingTakenBack(copy[a], diff[a])
  /\ breach # None => /\ told = TRUE => breach.kzldNotifiedAt = TRUE
                      /\ breach.status = "closed" => breach.closedAt = TRUE

RecordInv == RowsOK /\ (torn = TRUE \/ KeptInv)

LEMMA RecordInit == Register!Init => RecordInv
<1> SUFFICES ASSUME Register!Init PROVE RecordInv
  OBVIOUS
<1>1. /\ breach = None /\ told = FALSE /\ torn = FALSE
      /\ apc = [a \in Workers |-> "idle"] /\ DOMAIN copy = Workers /\ DOMAIN diff = Workers
  BY DEF Register!Init
<1>2. apc \in [Workers -> {"idle", "read", "diffed", "done"}]
      /\ \A a \in Workers : apc[a] = "idle"
  BY <1>1
<1> QED
  BY <1>1, <1>2 DEF RecordInv, RowsOK, KeptInv

(* What save writes: the columns that differ, over whatever the row holds. *)
LEMMA Merged ==
  ASSUME NEW r \in Register!Row, NEW entity \in Register!Row, NEW changed,
         NEW s, s = [c \in Register!Columns |-> IF c \in changed THEN entity[c] ELSE r[c]]
  PROVE  /\ s \in Register!Row
         /\ s.status = IF "status" \in changed THEN entity.status ELSE r.status
         /\ s.kzldNotifiedAt = IF "kzldNotifiedAt" \in changed THEN entity.kzldNotifiedAt
                               ELSE r.kzldNotifiedAt
         /\ s.closedAt = IF "closedAt" \in changed THEN entity.closedAt ELSE r.closedAt
  BY DEF Register!Row, Register!Columns

LEMMA SaveKeeps ==
  ASSUME None \notin Register!Row, RecordInv, NEW a \in Workers, Register!Save(a)
  PROVE  RecordInv'
<1>1. /\ apc[a] = "diffed" /\ apc' = [apc EXCEPT ![a] = "done"]
      /\ breach' = [c \in Register!Columns |-> IF c \in diff[a] THEN copy[a][c] ELSE breach[c]]
      /\ told' = (told \/ breach'.kzldNotifiedAt)
      /\ copy' = [copy EXCEPT ![a] = None] /\ diff' = [diff EXCEPT ![a] = {}]
      /\ torn' = torn
  BY DEF Register!Save
<1>2. breach \in Register!Row /\ copy[a] \in Register!Row
  BY <1>1 DEF RecordInv, RowsOK
<1>3. /\ breach' \in Register!Row
      /\ breach'.status = IF "status" \in diff[a] THEN copy[a].status ELSE breach.status
      /\ breach'.kzldNotifiedAt = IF "kzldNotifiedAt" \in diff[a] THEN copy[a].kzldNotifiedAt
                                  ELSE breach.kzldNotifiedAt
      /\ breach'.closedAt = IF "closedAt" \in diff[a] THEN copy[a].closedAt ELSE breach.closedAt
  BY <1>1, <1>2, Merged
<1>4. /\ apc' \in [Workers -> {"idle", "read", "diffed", "done"}] /\ apc'[a] = "done"
      /\ DOMAIN copy' = Workers /\ DOMAIN diff' = Workers
      /\ \A q \in Workers \ {a} : /\ apc'[q] = apc[q] /\ copy'[q] = copy[q]
                                   /\ diff'[q] = diff[q]
  BY <1>1 DEF RecordInv, RowsOK
<1>5. /\ breach'.kzldNotifiedAt \in BOOLEAN
      /\ told' = TRUE => told = TRUE \/ breach'.kzldNotifiedAt = TRUE
      /\ told' \in BOOLEAN
  <2>1. told \in BOOLEAN /\ breach'.kzldNotifiedAt \in BOOLEAN
    BY <1>3 DEF RecordInv, RowsOK, Register!Row
  <2> QED
    BY <1>1, <2>1
<1>6. RowsOK'
  BY <1>1, <1>3, <1>4, <1>5 DEF RecordInv, RowsOK
<1>7. ASSUME torn # TRUE
      PROVE  KeptInv'
  <2>1. KeptInv /\ NothingTakenBack(copy[a], diff[a])
    BY <1>1, <1>7 DEF RecordInv, KeptInv
  <2>2. breach # None
    BY <1>2
  <2>3. breach.closedAt = TRUE => breach'.closedAt = TRUE
    BY <1>3, <2>1 DEF NothingTakenBack
  <2>4. breach.kzldNotifiedAt = TRUE => breach'.kzldNotifiedAt = TRUE
    BY <1>3, <2>1 DEF NothingTakenBack
  <2>5. breach'.status = "closed" => breach'.closedAt = TRUE
    BY <1>3, <2>1, <2>2, <2>3 DEF NothingTakenBack, KeptInv
  <2>6. told' = TRUE => breach'.kzldNotifiedAt = TRUE
    BY <1>5, <2>1, <2>2, <2>4 DEF KeptInv
  <2>7. ASSUME NEW q \in Workers, apc'[q] = "diffed"
        PROVE  NothingTakenBack(copy[q], diff[q])'
    BY <1>4, <2>1, <2>3, <2>7 DEF KeptInv, NothingTakenBack
  <2> QED
    BY <2>5, <2>6, <2>7 DEF KeptInv
<1> QED
  BY <1>1, <1>6, <1>7 DEF RecordInv

LEMMA AssignKeeps ==
  ASSUME RecordInv, NEW a \in Workers, NEW entity \in Register!Row, Register!Assign(a, entity),
         entity.kzldNotifiedAt \in {TRUE, copy[a].kzldNotifiedAt},
         entity.closedAt \in {TRUE, copy[a].closedAt},
         entity.status = "closed" => entity.closedAt = TRUE \/ entity.status = copy[a].status
  PROVE  RecordInv'
<1>1. /\ apc[a] = "read" /\ apc' = [apc EXCEPT ![a] = "diffed"]
      /\ copy' = [copy EXCEPT ![a] = entity]
      /\ diff' = [diff EXCEPT ![a] = {c \in Register!Columns : entity[c] # breach[c]}]
      /\ torn' = (torn \/ \E c \in Register!Columns :
                            entity[c] = copy[a][c] /\ copy[a][c] # breach[c])
      /\ UNCHANGED <<breach, told>>
  BY DEF Register!Assign
<1>2. torn \in BOOLEAN
  BY DEF RecordInv, RowsOK
<1>3. /\ torn' \in BOOLEAN
      /\ torn' # TRUE =>
           /\ torn # TRUE
           /\ \A c \in Register!Columns : entity[c] = copy[a][c] => copy[a][c] = breach[c]
  BY <1>1, <1>2, Zenon
<1>4. /\ apc' \in [Workers -> {"idle", "read", "diffed", "done"}] /\ apc'[a] = "diffed"
      /\ DOMAIN copy' = Workers /\ DOMAIN diff' = Workers
      /\ copy'[a] = entity /\ diff'[a] = {c \in Register!Columns : entity[c] # breach[c]}
      /\ \A q \in Workers \ {a} : /\ apc'[q] = apc[q] /\ copy'[q] = copy[q]
                                   /\ diff'[q] = diff[q]
  BY <1>1 DEF RecordInv, RowsOK
<1>5. RowsOK'
  BY <1>1, <1>3, <1>4 DEF RecordInv, RowsOK
<1>6. ASSUME torn' # TRUE
      PROVE  KeptInv'
  <2>1. KeptInv
    BY <1>3, <1>6 DEF RecordInv
  <2>2. NothingTakenBack(entity, diff'[a])
    BY <1>3, <1>4, <1>6 DEF NothingTakenBack, Register!Columns
  <2>3. ASSUME NEW q \in Workers, apc'[q] = "diffed"
        PROVE  NothingTakenBack(copy[q], diff[q])'
    <3>1. CASE q = a
      BY <1>1, <1>4, <2>2, <3>1 DEF NothingTakenBack
    <3>2. CASE q # a
      BY <1>1, <1>4, <2>1, <2>3, <3>2 DEF KeptInv, NothingTakenBack
    <3> QED
      BY <3>1, <3>2
  <2> QED
    BY <1>1, <2>1, <2>3 DEF KeptInv
<1> QED
  BY <1>5, <1>6 DEF RecordInv

(* The fields of the three requests, over the row that was read.           *)
LEMMA Requested ==
  ASSUME NEW r \in Register!Row, NEW entity,
         \/ \E closed \in BOOLEAN :
              entity = [r EXCEPT !.status = "open", !.closedAt = @ \/ closed]
         \/ entity = [r EXCEPT !.status = "closed", !.closedAt = TRUE]
         \/ entity = [r EXCEPT !.kzldNotifiedAt = TRUE]
  PROVE  /\ entity \in Register!Row
         /\ entity.kzldNotifiedAt \in {TRUE, r.kzldNotifiedAt}
         /\ entity.closedAt \in {TRUE, r.closedAt}
         /\ entity.status = "closed" => entity.closedAt = TRUE \/ entity.status = r.status
<1>1. CASE \E closed \in BOOLEAN :
             entity = [r EXCEPT !.status = "open", !.closedAt = @ \/ closed]
  <2>1. PICK closed \in BOOLEAN :
           entity = [r EXCEPT !.status = "open", !.closedAt = r.closedAt \/ closed]
    BY <1>1
  <2>2. PICK c \in BOOLEAN : c = (r.closedAt \/ closed) /\ c \in {TRUE, r.closedAt}
    <3>1. r.closedAt \in BOOLEAN
      BY DEF Register!Row
    <3> QED
      BY <3>1
  <2>3. entity = [r EXCEPT !.status = "open", !.closedAt = c]
    BY <2>1, <2>2
  <2> QED
    BY <2>2, <2>3 DEF Register!Row
<1>2. CASE entity = [r EXCEPT !.status = "closed", !.closedAt = TRUE]
  BY <1>2 DEF Register!Row
<1>3. CASE entity = [r EXCEPT !.kzldNotifiedAt = TRUE]
  BY <1>3 DEF Register!Row
<1> QED
  BY <1>1, <1>2, <1>3

LEMMA RecordStep ==
  ASSUME None \notin Register!Row, RecordInv, [Register!Next]_Register!vars
  PROVE  RecordInv'
<1> USE DEF Register!jobVars, Register!adminVars
<1>1. ASSUME UNCHANGED <<breach, apc, copy, diff, told, torn>>
      PROVE  RecordInv'
  BY <1>1 DEF RecordInv, RowsOK, KeptInv, NothingTakenBack
<1>2. CASE Register!ReportBreach
  <2>1. /\ breach = None /\ UNCHANGED <<apc, copy, diff, told, torn>>
        /\ breach' = [status |-> "open", kzldNotifiedAt |-> FALSE, closedAt |-> FALSE]
    BY <1>2 DEF Register!ReportBreach
  <2>2. breach' \in Register!Row /\ breach'.status = "open"
    BY <2>1 DEF Register!Row
  <2>3. told = FALSE /\ \A q \in Workers : apc[q] = "idle"
    BY <2>1 DEF RecordInv, RowsOK
  <2> QED
    BY <2>1, <2>2, <2>3 DEF RecordInv, RowsOK, KeptInv
<1>3. ASSUME NEW a \in Workers, Register!FindOne(a)
      PROVE  RecordInv'
  <2>1. /\ breach # None /\ apc[a] = "idle" /\ apc' = [apc EXCEPT ![a] = "read"]
        /\ copy' = [copy EXCEPT ![a] = breach]
        /\ UNCHANGED <<breach, diff, told, torn>>
    BY <1>3 DEF Register!FindOne
  <2>2. /\ apc' \in [Workers -> {"idle", "read", "diffed", "done"}] /\ apc'[a] = "read"
        /\ DOMAIN copy' = Workers /\ copy'[a] = breach /\ breach \in Register!Row
        /\ \A q \in Workers \ {a} : apc'[q] = apc[q] /\ copy'[q] = copy[q]
    BY <2>1 DEF RecordInv, RowsOK
  <2>3. RowsOK'
    BY <2>1, <2>2 DEF RecordInv, RowsOK
  <2>4. KeptInv => KeptInv'
    BY <2>1, <2>2 DEF KeptInv, NothingTakenBack
  <2> QED
    BY <2>1, <2>3, <2>4 DEF RecordInv
<1>4. ASSUME NEW a \in Workers, Register!UpdateBreach(a)
      PROVE  RecordInv'
  <2>1. PICK entity :
           /\ Register!Assign(a, entity)
           /\ \/ \E closed \in BOOLEAN :
                   entity = [copy[a] EXCEPT !.status = "open", !.closedAt = @ \/ closed]
              \/ entity = [copy[a] EXCEPT !.status = "closed", !.closedAt = TRUE]
              \/ entity = [copy[a] EXCEPT !.kzldNotifiedAt = TRUE]
    BY <1>4 DEF Register!UpdateBreach
  <2>2. copy[a] \in Register!Row
    BY <2>1 DEF Register!Assign, RecordInv, RowsOK
  <2> QED
    BY <2>1, <2>2, Requested, AssignKeeps
<1>5. ASSUME NEW a \in Workers, Register!Save(a)
      PROVE  RecordInv'
  BY <1>5, SaveKeeps
<1>6. CASE Register!Tick
  BY <1>1, <1>6 DEF Register!Tick
<1>7. ASSUME NEW p \in Workers,
             \/ Register!GetPendingAlertBreaches(p) \/ Register!GetKey(p)
             \/ Register!SendBreachAlert(p) \/ Register!SetKey(p) \/ Register!Crash(p)
      PROVE  RecordInv'
  BY <1>1, <1>7
     DEF Register!GetPendingAlertBreaches, Register!GetKey, Register!SendBreachAlert,
         Register!SetKey, Register!Crash
<1>8. CASE UNCHANGED Register!vars
  BY <1>1, <1>8 DEF Register!vars
<1> QED
  BY <1>2, <1>3, <1>4, <1>5, <1>6, <1>7, <1>8 DEF Register!Next

(* The alert job never leaves a pending breach near or past its deadline   *)
(* without a mail in two runs, unless one failed; and a notification that  *)
(* was recorded stays recorded, a closed breach has its date, unless an    *)
(* update was saved over one it had not read; for any number of            *)
(* administrators, processes and hours (data-breach-alert.job.ts:20-88,    *)
(* data-breach.service.ts:133-208).                                        *)
THEOREM BreachesAreFollowed ==
  ASSUME Ages \subseteq Nat, None \notin Register!Levels, None \notin Register!Row
  PROVE  Register!Spec => []BreachesExplained
<1>1. Register!Init => AlertInv /\ RecordInv
  BY AlertInit, RecordInit
<1>2. AlertInv /\ RecordInv /\ [Register!Next]_Register!vars => (AlertInv /\ RecordInv)'
  BY AlertStep, RecordStep
<1>3. AlertInv /\ RecordInv => BreachesExplained
  <2>1. ASSUME AlertInv, Register!Idle, pending = 2, breachFaults = 0,
               Register!Overdue(breach, age) \/ Register!Approaching(breach, age)
        PROVE  alerted.now \/ alerted.before
    <3>1. age >= 48 /\ MailedInv
      BY <2>1 DEF Register!Overdue, Register!Approaching, AlertInv, AlertTypesOK
    <3> QED
      BY <2>1, <3>1 DEF MailedInv, Register!Idle
  <2>2. ASSUME RecordInv, breach # None, ~torn
        PROVE  /\ told => breach.kzldNotifiedAt
               /\ breach.status = "closed" => breach.closedAt
    BY <2>2 DEF RecordInv, RowsOK, KeptInv
  <2> QED
    BY <2>1, <2>2 DEF BreachesExplained, Register!BreachesExplained,
                      Register!NeverSilentTwice, Register!RecordsKept
<1> QED
  BY <1>1, <1>2, <1>3, PTL DEF Register!Spec

-----------------------------------------------------------------------------
(***************************************************************************)
(* The seed.  First the statements: what a statement looks up has been     *)
(* inserted by one before it, which a concatenation keeps.                 *)
(***************************************************************************)
Tables ==
  {"tenants", "super_admins", "tenant_configs", "tenant_domains", "users", "end_clients",
   "vehicles", "tenant_invitations", "insurers", "commission_matrix", "quotes", "payments",
   "policies", "policy_events", "pending_commission_events", "invoices",
   "tenant_renewal_config", "renewal_notification_log", "fleet_vehicles",
   "fleet_pdf_exports", "ocr_jobs", "shipments", "system_notifications",
   "tenant_privacy_policies", "tenant_tos_versions", "tenant_cookie_policies",
   "data_breaches"}
RowOf(owner) == {owner} \X Tables \X Nat
Looked == {r \in RowOf("demo") : r[2] # "pending_commission_events"}
Statement(owner) == [row : RowOf(owner), needs : SUBSET Looked]

(* A list of statements of a tenant each of which needs only what was      *)
(* there or stands before it.                                              *)
Ordered(known, s) ==
  \A n \in DOMAIN s : s[n].needs \subseteq known \union {s[m].row : m \in 1..(n - 1)}

(* known are rows of the list d.                                           *)
Knows(d, known) ==
  /\ d \in Seq(Statement("demo")) /\ Ordered({}, d)
  /\ d # <<>> /\ d[1] = [row |-> <<"demo", "tenants", 1>>, needs |-> {}]
  /\ known \subseteq {d[m].row : m \in DOMAIN d}

LEMMA OrderedOn ==
  ASSUME NEW known, NEW d \in Seq(Statement("demo")), Ordered(known, d),
         NEW s \in Seq(Statement("demo")), NEW later, Ordered(later, s),
         later \subseteq known \union {d[m].row : m \in DOMAIN d}
  PROVE  d \o s \in Seq(Statement("demo")) /\ Ordered(known, d \o s)
<1> DEFINE e == d \o s
<1>1. /\ e \in Seq(Statement("demo")) /\ Len(e) = Len(d) + Len(s)
      /\ \A n \in 1..Len(d) : e[n] = d[n]
      /\ \A n \in 1..Len(s) : e[Len(d) + n] = s[n]
  OBVIOUS
<1>2. Len(d) \in Nat /\ Len(s) \in Nat /\ DOMAIN d = 1..Len(d) /\ DOMAIN s = 1..Len(s)
      /\ DOMAIN e = 1..(Len(d) + Len(s))
  BY <1>1
<1> HIDE DEF e
<1>3. ASSUME NEW n \in DOMAIN e
      PROVE  e[n].needs \subseteq known \union {e[m].row : m \in 1..(n - 1)}
  <2>1. CASE n \in 1..Len(d)
    <3>1. e[n].needs \subseteq known \union {d[m].row : m \in 1..(n - 1)}
      BY <1>1, <1>2, <2>1 DEF Ordered
    <3>2. \A m \in 1..(n - 1) : e[m] = d[m]
      BY <1>1, <1>2, <2>1
    <3> QED
      BY <3>1, <3>2
  <2>2. CASE n \notin 1..Len(d)
    <3>1. PICK k \in 1..Len(s) : n = Len(d) + k
      <4>1. n - Len(d) \in 1..Len(s) /\ n = Len(d) + (n - Len(d))
        BY <1>2, <2>2
      <4> QED
        BY <4>1
    <3>2. e[n].needs \subseteq later \union {s[m].row : m \in 1..(k - 1)}
      BY <1>1, <1>2, <3>1 DEF Ordered
    <3>3. later \subseteq known \union {e[m].row : m \in 1..(n - 1)}
      <4>1. \A m \in 1..Len(d) : m \in 1..(n - 1) /\ e[m] = d[m]
        BY <1>1, <1>2, <3>1
      <4> QED
        BY <1>2, <4>1
    <3>4. \A m \in 1..(k - 1) : Len(d) + m \in 1..(n - 1) /\ e[Len(d) + m] = s[m]
      BY <1>1, <1>2, <3>1
    <3> QED
      BY <3>2, <3>3, <3>4
  <2> QED
    BY <2>1, <2>2
<1> QED
  BY <1>1, <1>3 DEF Ordered, e

LEMMA RunOn ==
  ASSUME NEW d, NEW known, Knows(d, known),
         NEW s \in Seq(Statement("demo")), Ordered(known, s),
         NEW more, more \subseteq {s[m].row : m \in DOMAIN s}
  PROVE  Knows(d \o s, known \union more)
<1> DEFINE e == d \o s
<1>1. /\ e \in Seq(Statement("demo")) /\ Len(e) = Len(d) + Len(s)
      /\ \A n \in 1..Len(d) : e[n] = d[n]
      /\ \A n \in 1..Len(s) : e[Len(d) + n] = s[n]
  BY DEF Knows
<1>2. Len(d) \in Nat /\ Len(s) \in Nat /\ DOMAIN d = 1..Len(d) /\ DOMAIN s = 1..Len(s)
      /\ DOMAIN e = 1..(Len(d) + Len(s))
  BY <1>1 DEF Knows
<1>3. Ordered({}, e)
  BY OrderedOn DEF Knows
<1> HIDE DEF e
<1>4. known \union more \subseteq {e[m].row : m \in DOMAIN e}
  <2>1. \A m \in 1..Len(d) : m \in DOMAIN e /\ e[m].row = d[m].row
    BY <1>1, <1>2
  <2>2. \A m \in 1..Len(s) : Len(d) + m \in DOMAIN e /\ e[Len(d) + m].row = s[m].row
    BY <1>1, <1>2
  <2>3. known \subseteq {e[m].row : m \in DOMAIN e}
    BY <1>2, <2>1 DEF Knows
  <2>4. more \subseteq {e[m].row : m \in DOMAIN e}
    BY <1>2, <2>2
  <2> QED
    BY <2>3, <2>4
<1>5. e # <<>> /\ e[1] = d[1]
  <2>1. Len(d) # 0
    BY DEF Knows
  <2> QED
    BY <1>1, <1>2, <2>1
<1> QED
  BY <1>1, <1>3, <1>4, <1>5 DEF Knows, e

(* The rows of one INSERT. *)
LEMMA InsertsRun ==
  ASSUME NEW d, NEW known, Knows(d, known),
         NEW table \in Tables, NEW n \in Nat, NEW needs \in SUBSET Looked, needs \subseteq known
  PROVE  Knows(d \o Seed!Demo(table, n, needs),
               known \union {<<"demo", table, i>> : i \in 1..n})
<1> DEFINE s == Seed!Demo(table, n, needs)
<1>1. s = [i \in 1..n |-> [row |-> <<"demo", table, i>>, needs |-> needs]]
  BY DEF Seed!Demo, Seed!Inserts
<1>2. \A i \in 1..n : s[i] \in Statement("demo")
  <2>1. \A i \in 1..n : <<"demo", table, i>> \in RowOf("demo")
    BY DEF RowOf, Tables
  <2> QED
    BY <1>1, <2>1 DEF Statement
<1>3. s \in Seq(Statement("demo")) /\ DOMAIN s = 1..n
  BY <1>1, <1>2
<1>4. Ordered(known, s)
  BY <1>1, <1>3 DEF Ordered
<1>5. {<<"demo", table, i>> : i \in 1..n} \subseteq {s[m].row : m \in DOMAIN s}
  BY <1>1, <1>3
<1> QED
  BY <1>3, <1>4, <1>5, RunOn

LEMMA FreeRun ==
  ASSUME NEW d, NEW known, Knows(d, known), NEW table \in Tables, NEW n \in Nat
  PROVE  Knows(d \o Seed!Demo(table, n, {}), known)
<1>1. Knows(d \o Seed!Demo(table, n, {}), known \union {<<"demo", table, i>> : i \in 1..n})
  BY InsertsRun, {} \in SUBSET Looked
<1> QED
  BY <1>1 DEF Knows

LEMMA NeedyRun ==
  ASSUME NEW d, NEW known, Knows(d, known), NEW table \in Tables, NEW n \in Nat,
         NEW needs \in SUBSET Looked, needs \subseteq known
  PROVE  Knows(d \o Seed!Demo(table, n, needs), known)
<1>1. Knows(d \o Seed!Demo(table, n, needs), known \union {<<"demo", table, i>> : i \in 1..n})
  BY InsertsRun
<1> QED
  BY <1>1 DEF Knows

LEMMA LookedRows ==
  /\ Seed!Payment \in Looked /\ Seed!Policy \in Looked /\ Seed!Client \in Looked
  /\ <<"demo", "users", 1>> \in Looked
  BY DEF Looked, RowOf, Tables, Seed!Payment, Seed!Policy, Seed!Client

LEMMA NumberedRows ==
  ASSUME NEW i \in Nat
  PROVE  Seed!Insurer(i) \in Looked /\ <<"demo", "vehicles", i>> \in Looked
  BY DEF Looked, RowOf, Tables, Seed!Insurer

LEMMA CommissionsRun ==
  ASSUME NEW d, NEW known, Knows(d, known), \A i \in 1..4 : Seed!Insurer(i) \in known
  PROVE  Knows(d \o Seed!seedCommissionMatrix, known)
<1> DEFINE s == Seed!seedCommissionMatrix
<1>1. s = [i \in 1..4 |-> [row |-> <<"demo", "commission_matrix", i>>,
                          needs |-> {Seed!Insurer(i)}]]
  BY DEF Seed!seedCommissionMatrix
<1>2. \A i \in 1..4 : s[i] \in Statement("demo") /\ s[i].needs \subseteq known
  <2>1. \A i \in 1..4 : <<"demo", "commission_matrix", i>> \in RowOf("demo")
    BY DEF RowOf, Tables
  <2>2. ASSUME NEW i \in 1..4
        PROVE  Seed!Insurer(i) \in Looked
    <3>1. i \in Nat
      OBVIOUS
    <3> QED
      BY <3>1, NumberedRows
  <2> QED
    BY <1>1, <2>1, <2>2 DEF Statement
<1> HIDE DEF s
<1>3. s \in Seq(Statement("demo")) /\ DOMAIN s = 1..4
  BY <1>1, <1>2
<1>4. Ordered(known, s)
  BY <1>2, <1>3 DEF Ordered
<1>5. Knows(d \o s, known \union {})
  BY <1>3, <1>4, RunOn
<1> QED
  BY <1>5 DEF s

LEMMA FleetVehicleTyped ==
  ASSUME NEW i \in Nat
  PROVE  /\ Seed!FleetVehicle(i) \in Seq(Statement("demo"))
         /\ DOMAIN Seed!FleetVehicle(i) = 1..2
         /\ Seed!FleetVehicle(i)[1].row = <<"demo", "vehicles", i + 1>>
         /\ Seed!FleetVehicle(i)[1].needs = {Seed!Client}
         /\ Seed!FleetVehicle(i)[2].needs = {<<"demo", "vehicles", i + 1>>}
<1> DEFINE s == Seed!FleetVehicle(i)
           v == <<"demo", "vehicles", i + 1>>
           first == [row |-> v, needs |-> {Seed!Client}]
           second == [row |-> <<"demo", "fleet_vehicles", i>>, needs |-> {v}]
<1>1. s = <<first, second>>
  BY DEF Seed!FleetVehicle
<1>2. first \in Statement("demo") /\ second \in Statement("demo")
  <2>1. i + 1 \in Nat
    OBVIOUS
  <2>2. v \in RowOf("demo") /\ <<"demo", "fleet_vehicles", i>> \in RowOf("demo")
    BY <2>1 DEF RowOf, Tables
  <2>3. v \in Looked /\ Seed!Client \in Looked
    BY <2>1, LookedRows, NumberedRows
  <2> QED
    BY <2>2, <2>3 DEF Statement
<1>3. first.row = v /\ first.needs = {Seed!Client} /\ second.needs = {v}
  OBVIOUS
<1> HIDE DEF s, first, second, v
<1>4. s \in Seq(Statement("demo")) /\ DOMAIN s = 1..2 /\ s[1] = first /\ s[2] = second
  BY <1>1, <1>2
<1> QED
  BY <1>3, <1>4 DEF s, v

LEMMA FleetVehicleOrdered ==
  ASSUME NEW known, Seed!Client \in known, NEW i \in Nat
  PROVE  Ordered(known, Seed!FleetVehicle(i))
<1> DEFINE s == Seed!FleetVehicle(i)
           v == <<"demo", "vehicles", i + 1>>
<1>1. /\ s \in Seq(Statement("demo")) /\ DOMAIN s = 1..2
      /\ s[1].row = v /\ s[1].needs = {Seed!Client} /\ s[2].needs = {v}
  BY FleetVehicleTyped
<1> HIDE DEF s, v
<1>2. ASSUME NEW n \in DOMAIN s, n = 1
      PROVE  s[n].needs \subseteq known
  BY <1>1, <1>2
<1>3. v \in {s[m].row : m \in 1..(2 - 1)}
  BY <1>1
<1>4. \A n \in DOMAIN s : n = 1 \/ n = 2
  BY <1>1
<1>5. Ordered(known, s)
  BY <1>1, <1>2, <1>3, <1>4 DEF Ordered
<1> QED
  BY <1>5 DEF s

LEMMA InsuredOrdered ==
  ASSUME NEW known, Seed!Client \in known, Seed!Insurer(1) \in known, NEW i \in Nat
  PROVE  Seed!Insured(i) \in Seq(Statement("demo")) /\ Ordered(known, Seed!Insured(i))
<1> DEFINE s == Seed!FleetVehicle(i)
           v == <<"demo", "vehicles", i + 1>>
           last == [row |-> <<"demo", "policies", i + 1>>, needs |-> {v, Seed!Insurer(1)}]
<1>1. last \in Statement("demo")
  <2>1. i + 1 \in Nat /\ 1 \in Nat
    OBVIOUS
  <2>2. <<"demo", "policies", i + 1>> \in RowOf("demo")
    BY <2>1 DEF RowOf, Tables
  <2>3. <<"demo", "vehicles", i + 1>> \in Looked /\ Seed!Insurer(1) \in Looked
    BY <2>1, NumberedRows
  <2> QED
    BY <2>2, <2>3 DEF Statement
<1>2. Seed!Insured(i) = s \o <<last>>
  BY DEF Seed!Insured
<1>3. Ordered(known \union {v}, <<last>>)
  <2>1. \A n \in DOMAIN <<last>> : <<last>>[n] = last
    OBVIOUS
  <2>2. last.needs = {v, Seed!Insurer(1)}
    OBVIOUS
  <2> QED
    BY <2>1, <2>2 DEF Ordered
<1>4. s \in Seq(Statement("demo")) /\ DOMAIN s = 1..2 /\ s[1].row = v
  BY FleetVehicleTyped
<1>5. Ordered(known, s)
  BY FleetVehicleOrdered
<1> HIDE DEF s, v, last
<1>6. known \union {v} \subseteq known \union {s[m].row : m \in DOMAIN s}
  BY <1>4
<1>7. <<last>> \in Seq(Statement("demo"))
  BY <1>1
<1>8. s \o <<last>> \in Seq(Statement("demo")) /\ Ordered(known, s \o <<last>>)
  BY <1>3, <1>4, <1>5, <1>6, <1>7, OrderedOn
<1> QED
  BY <1>2, <1>8

(* Lists that need only what was there can stand after one another. *)
LEMMA BothOrdered ==
  ASSUME NEW known, NEW a \in Seq(Statement("demo")), Ordered(known, a),
         NEW b \in Seq(Statement("demo")), Ordered(known, b)
  PROVE  a \o b \in Seq(Statement("demo")) /\ Ordered(known, a \o b)
<1>1. known \subseteq known \union {a[m].row : m \in DOMAIN a}
  OBVIOUS
<1> QED
  BY <1>1, OrderedOn

LEMMA FleetRun ==
  ASSUME NEW d, NEW known, Knows(d, known), Seed!Client \in known, Seed!Insurer(1) \in known
  PROVE  Knows(d \o Seed!seedFleetVehicles, known)
<1> DEFINE e1 == Seed!Insured(1)
           e2 == e1 \o Seed!Insured(2)
           e3 == e2 \o Seed!Insured(3)
           e4 == e3 \o Seed!Insured(4)
           e5 == e4 \o Seed!FleetVehicle(5)
           Fits(e) == e \in Seq(Statement("demo")) /\ Ordered(known, e)
<1>1. Fits(e1)
  BY InsuredOrdered, 1 \in Nat
<1> HIDE DEF e1
<1>2. Fits(e2)
  BY <1>1, InsuredOrdered, BothOrdered, 2 \in Nat
<1> HIDE DEF e2
<1>3. Fits(e3)
  BY <1>2, InsuredOrdered, BothOrdered, 3 \in Nat
<1> HIDE DEF e3
<1>4. Fits(e4)
  BY <1>3, InsuredOrdered, BothOrdered, 4 \in Nat
<1> HIDE DEF e4
<1>5. Fits(e5)
  BY <1>4, FleetVehicleTyped, FleetVehicleOrdered, BothOrdered, 5 \in Nat
<1> HIDE DEF e5
<1>6. Knows(d \o e5, known \union {})
  BY <1>5, RunOn
<1>7. e5 = Seed!seedFleetVehicles
  BY DEF Seed!seedFleetVehicles, e1, e2, e3, e4, e5
<1> QED
  BY <1>6, <1>7

(* The whole list of the demo tenant. *)
LEMMA DemoIsOrdered ==
  Knows(Seed!seedDemoTenantIfNeeded, {Seed!Insurer(2)})
<1> DEFINE d1 == Seed!seedTenant
           d2 == d1 \o Seed!seedSuperAdmin
           d3 == d2 \o Seed!seedTenantConfig
           d4 == d3 \o Seed!seedTenantDomains
           d5 == d4 \o Seed!seedUsers
           d6 == d5 \o Seed!seedEndClients
           d7 == d6 \o Seed!seedVehicles
           d8 == d7 \o Seed!seedTenantInvitation
           d9 == d8 \o Seed!seedInsurers
           d10 == d9 \o Seed!seedCommissionMatrix
           d11 == d10 \o Seed!seedQuotes
           d12 == d11 \o Seed!seedPayments
           d13 == d12 \o Seed!seedPolicies
           d14 == d13 \o Seed!seedPolicyEvents
           d15 == d14 \o Seed!seedDemoCommissions
           d16 == d15 \o Seed!seedDemoInvoices
           d17 == d16 \o Seed!seedTenantRenewalConfig
           d18 == d17 \o Seed!seedRenewalNotificationLog
           d19 == d18 \o Seed!seedFleetVehicles
           d20 == d19 \o Seed!seedFleetPdfExports
           d21 == d20 \o Seed!seedOcrJobs
           d22 == d21 \o Seed!seedShipments
           d23 == d22 \o Seed!seedTenantHealthData
           d24 == d23 \o Seed!seedSystemNotifications
           d25 == d24 \o Seed!seedPrivacyPolicy
           d26 == d25 \o Seed!seedTos
           d27 == d26 \o Seed!seedCookiePolicy
           d28 == d27 \o Seed!seedDataBreaches
           K1 == {<<"demo", "users", 1>>}
           K2 == K1 \union {Seed!Client}
           K3 == K2 \union {Seed!Insurer(i) : i \in 1..8}
           K4 == K3 \union {Seed!Payment}
           K5 == K4 \union {Seed!Policy}
<1>0. Knows(d1, {})
  <2>1. d1 = <<[row |-> <<"demo", "tenants", 1>>, needs |-> {}]>>
    BY DEF Seed!seedTenant, Seed!Demo, Seed!Inserts
  <2>2. [row |-> <<"demo", "tenants", 1>>, needs |-> {}] \in Statement("demo")
    BY DEF Statement, RowOf, Tables
  <2> HIDE DEF d1
  <2> QED
    BY <2>1, <2>2 DEF Knows, Ordered
<1> HIDE DEF d1, K1, K2, K3, K4, K5
<1> USE DEF Tables
<1>2. Knows(d2, {})
  BY <1>0, FreeRun, "super_admins" \in Tables, 1 \in Nat DEF Seed!seedSuperAdmin
<1> HIDE DEF d2
<1>3. Knows(d3, {})
  BY <1>2, FreeRun, "tenant_configs" \in Tables, 1 \in Nat DEF Seed!seedTenantConfig
<1> HIDE DEF d3
<1>4. Knows(d4, {})
  BY <1>3, FreeRun, "tenant_domains" \in Tables, 4 \in Nat DEF Seed!seedTenantDomains
<1> HIDE DEF d4
<1>5. Knows(d5, K1)
  <2>1. Seed!seedUsers = Seed!Demo("users", 3, {})
    BY DEF Seed!seedUsers
  <2>2. Knows(d4 \o Seed!Demo("users", 3, {}), {} \union {<<"demo", "users", i>> : i \in 1..3})
    <3>1. {} \in SUBSET Looked /\ "users" \in Tables /\ 3 \in Nat
      BY DEF Tables
    <3> QED
      BY <1>4, <3>1, InsertsRun
  <2>3. K1 \subseteq {} \union {<<"demo", "users", i>> : i \in 1..3}
    BY DEF K1, Seed!Insurer, Seed!Client, Seed!Payment, Seed!Policy
  <2> QED
    BY <2>1, <2>2, <2>3 DEF Knows
<1> HIDE DEF d5
<1>6. Knows(d6, K2)
  <2>1. Seed!seedEndClients = Seed!Demo("end_clients", 1, {})
    BY DEF Seed!seedEndClients
  <2>2. Knows(d5 \o Seed!Demo("end_clients", 1, {}), K1 \union {<<"demo", "end_clients", i>> : i \in 1..1})
    <3>1. {} \in SUBSET Looked /\ "end_clients" \in Tables /\ 1 \in Nat
      BY DEF Tables
    <3> QED
      BY <1>5, <3>1, InsertsRun
  <2>3. K2 \subseteq K1 \union {<<"demo", "end_clients", i>> : i \in 1..1}
    BY DEF K2, Seed!Insurer, Seed!Client, Seed!Payment, Seed!Policy
  <2> QED
    BY <2>1, <2>2, <2>3 DEF Knows
<1> HIDE DEF d6
<1>7. Knows(d7, K2)
  BY <1>6, FreeRun, "vehicles" \in Tables, 1 \in Nat DEF Seed!seedVehicles
<1> HIDE DEF d7
<1>8. Knows(d8, K2)
  BY <1>7, FreeRun, "tenant_invitations" \in Tables, 1 \in Nat DEF Seed!seedTenantInvitation
<1> HIDE DEF d8
<1>9. Knows(d9, K3)
  <2>1. Seed!seedInsurers = Seed!Demo("insurers", 8, {})
    BY DEF Seed!seedInsurers
  <2>2. Knows(d8 \o Seed!Demo("insurers", 8, {}), K2 \union {<<"demo", "insurers", i>> : i \in 1..8})
    <3>1. {} \in SUBSET Looked /\ "insurers" \in Tables /\ 8 \in Nat
      BY DEF Tables
    <3> QED
      BY <1>8, <3>1, InsertsRun
  <2>3. K3 \subseteq K2 \union {<<"demo", "insurers", i>> : i \in 1..8}
    BY DEF K3, Seed!Insurer, Seed!Client, Seed!Payment, Seed!Policy
  <2> QED
    BY <2>1, <2>2, <2>3 DEF Knows
<1> HIDE DEF d9
<1>10. Knows(d10, K3)
  <2>1. \A i \in 1..4 : Seed!Insurer(i) \in K3
    BY DEF K3
  <2> QED
    BY <1>9, <2>1, CommissionsRun
<1> HIDE DEF d10
<1>11. Knows(d11, K3)
  <2>1. {Seed!Insurer(1)} \in SUBSET Looked
    BY LookedRows, NumberedRows, 1 \in Nat, 2 \in Nat
  <2>2. {Seed!Insurer(1)} \subseteq K3
    BY DEF K1, K2, K3, K4, K5
  <2> QED
    BY <1>10, <2>1, <2>2, NeedyRun, "quotes" \in Tables, 1 \in Nat DEF Seed!seedQuotes
<1> HIDE DEF d11
<1>12. Knows(d12, K4)
  <2>1. Seed!seedPayments = Seed!Demo("payments", 1, {})
    BY DEF Seed!seedPayments
  <2>2. Knows(d11 \o Seed!Demo("payments", 1, {}), K3 \union {<<"demo", "payments", i>> : i \in 1..1})
    <3>1. {} \in SUBSET Looked /\ "payments" \in Tables /\ 1 \in Nat
      BY DEF Tables
    <3> QED
      BY <1>11, <3>1, InsertsRun
  <2>3. K4 \subseteq K3 \union {<<"demo", "payments", i>> : i \in 1..1}
    BY DEF K4, Seed!Insurer, Seed!Client, Seed!Payment, Seed!Policy
  <2> QED
    BY <2>1, <2>2, <2>3 DEF Knows
<1> HIDE DEF d12
<1>13. Knows(d13, K5)
  <2>1. Seed!seedPolicies = Seed!Demo("policies", 1, {Seed!Payment})
    BY DEF Seed!seedPolicies
  <2>2. Knows(d12 \o Seed!Demo("policies", 1, {Seed!Payment}), K4 \union {<<"demo", "policies", i>> : i \in 1..1})
    <3>1. {Seed!Payment} \in SUBSET Looked /\ {Seed!Payment} \subseteq K4 /\ "policies" \in Tables /\ 1 \in Nat
      BY LookedRows DEF K4, Tables
    <3> QED
      BY <1>12, <3>1, InsertsRun
  <2>3. K5 \subseteq K4 \union {<<"demo", "policies", i>> : i \in 1..1}
    BY DEF K5, Seed!Insurer, Seed!Client, Seed!Payment, Seed!Policy
  <2> QED
    BY <2>1, <2>2, <2>3 DEF Knows
<1> HIDE DEF d13
<1>14. Knows(d14, K5)
  <2>1. {Seed!Policy} \in SUBSET Looked
    BY LookedRows, NumberedRows, 1 \in Nat, 2 \in Nat
  <2>2. {Seed!Policy} \subseteq K5
    BY DEF K1, K2, K3, K4, K5
  <2> QED
    BY <1>13, <2>1, <2>2, NeedyRun, "policy_events" \in Tables, 1 \in Nat DEF Seed!seedPolicyEvents
<1> HIDE DEF d14
<1>15. Knows(d15, K5)
  <2>1. {Seed!Payment, Seed!Insurer(2)} \in SUBSET Looked
    BY LookedRows, NumberedRows, 1 \in Nat, 2 \in Nat
  <2>2. {Seed!Payment, Seed!Insurer(2)} \subseteq K5
    BY DEF K1, K2, K3, K4, K5
  <2> QED
    BY <1>14, <2>1, <2>2, NeedyRun, "pending_commission_events" \in Tables, 1 \in Nat DEF Seed!seedDemoCommissions
<1> HIDE DEF d15
<1>16. Knows(d16, K5)
  BY <1>15, FreeRun, "invoices" \in Tables, 1 \in Nat DEF Seed!seedDemoInvoices
<1> HIDE DEF d16
<1>17. Knows(d17, K5)
  BY <1>16, FreeRun, "tenant_renewal_config" \in Tables, 1 \in Nat DEF Seed!seedTenantRenewalConfig
<1> HIDE DEF d17
<1>18. Knows(d18, K5)
  <2>1. {Seed!Policy} \in SUBSET Looked
    BY LookedRows, NumberedRows, 1 \in Nat, 2 \in Nat
  <2>2. {Seed!Policy} \subseteq K5
    BY DEF K1, K2, K3, K4, K5
  <2> QED
    BY <1>17, <2>1, <2>2, NeedyRun, "renewal_notification_log" \in Tables, 1 \in Nat DEF Seed!seedRenewalNotificationLog
<1> HIDE DEF d18
<1>19. Knows(d19, K5)
  <2>1. Seed!Client \in K5 /\ Seed!Insurer(1) \in K5
    BY DEF K2, K3, K4, K5
  <2> QED
    BY <1>18, <2>1, FleetRun
<1> HIDE DEF d19
<1>20. Knows(d20, K5)
  <2>1. {<<"demo", "users", 1>>, Seed!Policy} \in SUBSET Looked
    BY LookedRows, NumberedRows, 1 \in Nat, 2 \in Nat
  <2>2. {<<"demo", "users", 1>>, Seed!Policy} \subseteq K5
    BY DEF K1, K2, K3, K4, K5
  <2> QED
    BY <1>19, <2>1, <2>2, NeedyRun, "fleet_pdf_exports" \in Tables, 1 \in Nat DEF Seed!seedFleetPdfExports
<1> HIDE DEF d20
<1>21. Knows(d21, K5)
  BY <1>20, FreeRun, "ocr_jobs" \in Tables, 1 \in Nat DEF Seed!seedOcrJobs
<1> HIDE DEF d21
<1>22. Knows(d22, K5)
  <2>1. {Seed!Policy} \in SUBSET Looked
    BY LookedRows, NumberedRows, 1 \in Nat, 2 \in Nat
  <2>2. {Seed!Policy} \subseteq K5
    BY DEF K1, K2, K3, K4, K5
  <2> QED
    BY <1>21, <2>1, <2>2, NeedyRun, "shipments" \in Tables, 1 \in Nat DEF Seed!seedShipments
<1> HIDE DEF d22
<1>23. Knows(d23, K5)
  <2>1. d23 = d22
    BY <1>22, ConcatEmptySeq DEF Seed!seedTenantHealthData, Knows
  <2> QED
    BY <1>22, <2>1
<1> HIDE DEF d23
<1>24. Knows(d24, K5)
  BY <1>23, FreeRun, "system_notifications" \in Tables, 1 \in Nat DEF Seed!seedSystemNotifications
<1> HIDE DEF d24
<1>25. Knows(d25, K5)
  BY <1>24, FreeRun, "tenant_privacy_policies" \in Tables, 1 \in Nat DEF Seed!seedPrivacyPolicy
<1> HIDE DEF d25
<1>26. Knows(d26, K5)
  BY <1>25, FreeRun, "tenant_tos_versions" \in Tables, 1 \in Nat DEF Seed!seedTos
<1> HIDE DEF d26
<1>27. Knows(d27, K5)
  BY <1>26, FreeRun, "tenant_cookie_policies" \in Tables, 1 \in Nat DEF Seed!seedCookiePolicy
<1> HIDE DEF d27
<1>28. Knows(d28, K5)
  BY <1>27, FreeRun, "data_breaches" \in Tables, 2 \in Nat DEF Seed!seedDataBreaches
<1> HIDE DEF d28
<1> QED
  <2>1. Seed!Insurer(2) \in K5
    BY DEF K3, K4, K5
  <2>2. Knows(d28, {Seed!Insurer(2)})
    BY <1>28, <2>1 DEF Knows
  <2>3. d28 = Seed!seedDemoTenantIfNeeded
    BY DEF Seed!seedDemoTenantIfNeeded, d1, d2, d3, d4, d5, d6, d7, d8, d9, d10, d11, d12, d13, d14, d15, d16, d17, d18, d19, d20, d21, d22, d23, d24, d25, d26, d27, d28
  <2> QED
    BY <2>2, <2>3

(* The premium tenant's list needs one row of the demo tenant, and none of *)
(* its own.                                                                *)
PremiumStatement == [row : RowOf("premium"), needs : SUBSET {Seed!Insurer(2)}]
Opens(s) ==
  s \in Seq(PremiumStatement) /\ s # <<>> /\ s[1] = [row |-> <<"premium", "tenants", 1>>, needs |-> {}]

LEMMA PremiumTyped ==
  ASSUME NEW table \in Tables, NEW n \in Nat, NEW needs \in SUBSET {Seed!Insurer(2)}
  PROVE  Seed!Premium(table, n, needs) \in Seq(PremiumStatement)
<1>1. \A i \in 1..n : <<"premium", table, i>> \in RowOf("premium")
  BY DEF RowOf
<1>2. Seed!Premium(table, n, needs) = [i \in 1..n |-> [row |-> <<"premium", table, i>>, needs |-> needs]]
  BY DEF Seed!Premium, Seed!Inserts
<1>3. \A i \in 1..n : [row |-> <<"premium", table, i>>, needs |-> needs] \in PremiumStatement
  BY <1>1 DEF PremiumStatement
<1> QED
  BY <1>2, <1>3

LEMMA OpensOn ==
  ASSUME NEW a, Opens(a), NEW b \in Seq(PremiumStatement)
  PROVE  Opens(a \o b)
<1>1. a \in Seq(PremiumStatement) /\ Len(a) # 0
  BY DEF Opens
<1>2. a \o b \in Seq(PremiumStatement) /\ Len(a \o b) # 0 /\ (a \o b)[1] = a[1]
  BY <1>1
<1> QED
  BY <1>2 DEF Opens

LEMMA PremiumOpens ==
  Opens(Seed!seedPremiumTenantIfNeeded)
<1> DEFINE p1 == Seed!seedPremiumTenant
           p2 == p1 \o Seed!seedPremiumTenantConfig
           p3 == p2 \o Seed!seedPremiumUsers
           p4 == p3 \o Seed!seedPremiumClientsAndVehicles
           p5 == p4 \o Seed!seedPremiumPolicies
           p6 == p5 \o Seed!seedPremiumInvoices
           p7 == p6 \o Seed!seedPremiumCommissions
<1> USE DEF Tables
<1>1. Opens(p1)
  <2>1. p1 = <<[row |-> <<"premium", "tenants", 1>>, needs |-> {}]>>
    BY DEF Seed!seedPremiumTenant, Seed!Premium, Seed!Inserts
  <2>2. p1 \in Seq(PremiumStatement)
    BY PremiumTyped, "tenants" \in Tables, 1 \in Nat, {} \in SUBSET {Seed!Insurer(2)}
       DEF Seed!seedPremiumTenant
  <2> HIDE DEF p1
  <2> QED
    BY <2>1, <2>2 DEF Opens
<1> HIDE DEF p1
<1>2. Opens(p2)
  BY <1>1, OpensOn, PremiumTyped, "tenant_configs" \in Tables, 1 \in Nat,
     {} \in SUBSET {Seed!Insurer(2)} DEF Seed!seedPremiumTenantConfig
<1> HIDE DEF p2
<1>3. Opens(p3)
  BY <1>2, OpensOn, PremiumTyped, "users" \in Tables, 2 \in Nat,
     {} \in SUBSET {Seed!Insurer(2)} DEF Seed!seedPremiumUsers
<1> HIDE DEF p3
<1>4. Opens(p4)
  <2>1. /\ Seed!Premium("end_clients", 2, {}) \in Seq(PremiumStatement)
        /\ Seed!Premium("vehicles", 2, {}) \in Seq(PremiumStatement)
    BY PremiumTyped, "end_clients" \in Tables, "vehicles" \in Tables, 2 \in Nat,
       {} \in SUBSET {Seed!Insurer(2)}
  <2>2. Seed!seedPremiumClientsAndVehicles \in Seq(PremiumStatement)
    BY <2>1, ConcatProperties DEF Seed!seedPremiumClientsAndVehicles
  <2> QED
    BY <1>3, <2>2, OpensOn
<1> HIDE DEF p4
<1>5. Opens(p5)
  BY <1>4, OpensOn, PremiumTyped, "policies" \in Tables, 6 \in Nat,
     {Seed!Insurer(2)} \in SUBSET {Seed!Insurer(2)} DEF Seed!seedPremiumPolicies
<1> HIDE DEF p5
<1>6. Opens(p6)
  BY <1>5, OpensOn, PremiumTyped, "invoices" \in Tables, 1 \in Nat,
     {} \in SUBSET {Seed!Insurer(2)} DEF Seed!seedPremiumInvoices
<1> HIDE DEF p6
<1>7. Opens(p7)
  BY <1>6, OpensOn, PremiumTyped, "pending_commission_events" \in Tables, 1 \in Nat,
     {Seed!Insurer(2)} \in SUBSET {Seed!Insurer(2)} DEF Seed!seedPremiumCommissions
<1> HIDE DEF p7
<1> QED
  BY <1>7 DEF Seed!seedPremiumTenantIfNeeded, p1, p2, p3, p4, p5, p6, p7

(* What the invariant needs of the two lists. *)
Both == {"demo", "premium"}
StatementsFacts ==
  \A owner \in Both :
    LET s == Seed!Statements(owner) IN
    /\ Len(s) \in Nat \ {0} /\ DOMAIN s = 1..Len(s)
    /\ s[1].row = <<owner, "tenants", 1>> /\ s[1].needs = {}
    /\ \A n \in 1..Len(s) :
         /\ s[n].row[1] = owner
         /\ s[n].needs \subseteq Looked
         /\ owner = "demo" => s[n].needs \subseteq {s[m].row : m \in 1..(n - 1)}
         /\ owner = "premium" => s[n].needs \subseteq Seed!Rows("demo")

LEMMA StatementsAre == StatementsFacts
<1> DEFINE d == Seed!Statements("demo")
           p == Seed!Statements("premium")
<1>1. Knows(d, {Seed!Insurer(2)})
  BY DemoIsOrdered DEF Seed!Statements
<1>2. Opens(p)
  BY PremiumOpens DEF Seed!Statements
<1>3. Seed!Rows("demo") = {d[m].row : m \in DOMAIN d}
  BY DEF Seed!Rows, Seed!ToSet
<1> HIDE DEF d, p
<1>4. d \in Seq(Statement("demo")) /\ d # <<>> /\ p \in Seq(PremiumStatement) /\ p # <<>>
  BY <1>1, <1>2 DEF Knows, Opens
<1>5. /\ Len(d) \in Nat \ {0} /\ DOMAIN d = 1..Len(d) /\ Len(p) \in Nat \ {0} /\ DOMAIN p = 1..Len(p)
      /\ \A n \in 1..Len(d) : d[n] \in Statement("demo")
      /\ \A n \in 1..Len(p) : p[n] \in PremiumStatement
  BY <1>4
<1>6. Seed!Insurer(2) \in Seed!Rows("demo") /\ Seed!Insurer(2) \in Looked
  BY <1>1, <1>3, NumberedRows, 2 \in Nat DEF Knows
<1>7. \A n \in 1..Len(d) : d[n].row[1] = "demo" /\ d[n].needs \subseteq Looked
  BY <1>5 DEF Statement, RowOf
<1>8. \A n \in 1..Len(p) : p[n].row[1] = "premium" /\ p[n].needs \subseteq {Seed!Insurer(2)}
  BY <1>5 DEF PremiumStatement, RowOf
<1>9. \A n \in 1..Len(d) : d[n].needs \subseteq {d[m].row : m \in 1..(n - 1)}
  BY <1>1, <1>5 DEF Knows, Ordered
<1>10. /\ d[1].row = <<"demo", "tenants", 1>> /\ d[1].needs = {}
       /\ p[1].row = <<"premium", "tenants", 1>> /\ p[1].needs = {}
  BY <1>1, <1>2 DEF Knows, Opens
<1> QED
  BY <1>5, <1>6, <1>7, <1>8, <1>9, <1>10 DEF StatementsFacts, Both, d, p

-----------------------------------------------------------------------------
(* The starts.  What a process has passed is inserted, taken, or was       *)
(* skipped by a premium tenant begun too early; a tenant that has its row  *)
(* is complete, was cut short, or is being seeded.                         *)
SeedStates == {"off", "up", "check_demo", "check_premium", "demo", "premium"}
Begun(owner) == <<owner, "tenants", 1>> \in tables

Passed(owner, n) ==
  LET s == Seed!Statements(owner)[n] IN
  \/ s.row \in tables \/ Seed!Taken(s.row)
  \/ owner = "premium" /\ early /\ s.needs # {}

Whole(owner) == \A n \in 1..Len(Seed!Statements(owner)) : Passed(owner, n)
Seeding(p, owner) == seeds[p] = owner /\ next[p] >= 2

SeedTypesOK == seeds \in [Workers -> SeedStates] /\ next \in [Workers -> Nat]
ProgressInv ==
  \A p \in Workers : \A owner \in Both : seeds[p] = owner =>
    /\ next[p] >= 1 /\ (next[p] >= 2 => Begun(owner))
    /\ \A n \in 1..Len(Seed!Statements(owner)) : n < next[p] => Passed(owner, n)
BegunInv ==
  \A owner \in Both : Begun(owner) =>
    owner \in cut \/ (\E p \in Workers : Seeding(p, owner)) \/ Whole(owner)
OrderInv ==
  \A p \in Workers :
    /\ seeds[p] \in {"check_premium", "premium"} => Begun("demo")
    /\ seeds[p] = "up" /\ env # "production" => Begun("demo") /\ Begun("premium")
    /\ seeds[p] = "premium" => early \/ Seed!Rows("demo") \subseteq tables

SeedInv == SeedTypesOK /\ ProgressInv /\ BegunInv /\ OrderInv

LEMMA PassedStays ==
  ASSUME tables \subseteq tables', early => early', NEW owner, NEW n, Passed(owner, n)
  PROVE  Passed(owner, n)'
  BY DEF Passed, Seed!Taken

(* A process goes on to something that is not the seeding of a tenant, or  *)
(* begins one: what it leaves is whole, cut short, or not begun by it.     *)
LEMMA GoneOn ==
  ASSUME SeedInv, NEW p \in Workers, NEW to \in SeedStates, NEW n \in Nat,
         seeds' = [seeds EXCEPT ![p] = to], next' = [next EXCEPT ![p] = n],
         to \in Both => n = 1,
         UNCHANGED <<env, tables>>, early => early', cut \subseteq cut',
         \A owner \in Both : Seeding(p, owner) => owner \in cut' \/ Whole(owner),
         to \in {"check_premium", "premium"} => Begun("demo"),
         to = "up" /\ env # "production" => Begun("demo") /\ Begun("premium"),
         to = "premium" => early' \/ Seed!Rows("demo") \subseteq tables
  PROVE  SeedInv'
<1>1. /\ SeedTypesOK'
      /\ seeds'[p] = to /\ next'[p] = n
      /\ \A q \in Workers \ {p} : seeds'[q] = seeds[q] /\ next'[q] = next[q]
  BY DEF SeedInv, SeedTypesOK
<1>2. \A owner : \A m : Passed(owner, m) => Passed(owner, m)'
  BY PassedStays
<1>3. ProgressInv'
  <2>1. ASSUME NEW q \in Workers, NEW owner \in Both, seeds'[q] = owner
        PROVE  /\ next'[q] >= 1 /\ (next'[q] >= 2 => Begun(owner)')
               /\ \A m \in 1..Len(Seed!Statements(owner)) : m < next'[q] => Passed(owner, m)'
    <3>1. CASE q = p
      BY <1>1, <2>1, <3>1, StatementsAre DEF StatementsFacts
    <3>2. CASE q # p
      BY <1>1, <1>2, <2>1, <3>2 DEF SeedInv, ProgressInv, Begun
    <3> QED
      BY <3>1, <3>2
  <2> QED
    BY <2>1 DEF ProgressInv
<1>4. BegunInv'
  <2>1. ASSUME NEW owner \in Both, Begun(owner)'
        PROVE  (owner \in cut \/ (\E q \in Workers : Seeding(q, owner)) \/ Whole(owner))'
    <3>1. owner \in cut \/ (\E q \in Workers : Seeding(q, owner)) \/ Whole(owner)
      BY <2>1 DEF SeedInv, BegunInv, Begun
    <3>2. Whole(owner) => Whole(owner)'
      BY <1>2 DEF Whole
    <3>3. \A q \in Workers : Seeding(q, owner) /\ q # p => Seeding(q, owner)'
      BY <1>1 DEF Seeding
    <3> QED
      BY <3>1, <3>2, <3>3
  <2> QED
    BY <2>1 DEF BegunInv
<1>5. OrderInv'
  BY <1>1 DEF SeedInv, OrderInv, Begun
<1> QED
  BY <1>1, <1>3, <1>4, <1>5 DEF SeedInv

(* A row that no list of commissions holds is taken only by itself.        *)
LEMMA TakenIsThere ==
  ASSUME NEW r, r[2] # "pending_commission_events", Seed!Taken(r)
  PROVE  r \in tables
  BY DEF Seed!Taken, Seed!SameKey

LEMMA InsertKeeps ==
  ASSUME SeedInv, NEW p \in Workers, NEW owner \in Both, Seed!Insert(p, owner)
  PROVE  SeedInv'
<1>0. PICK k \in Nat : k = next[p]
  BY DEF SeedInv, SeedTypesOK
<1> DEFINE s == Seed!Statements(owner)[k]
<1>1. /\ seeds[p] = owner /\ k <= Len(Seed!Statements(owner))
      /\ ~(k = 1 /\ Begun(owner))
      /\ tables' = IF s.needs \subseteq tables /\ ~Seed!Taken(s.row) THEN tables \union {s.row} ELSE tables
      /\ next' = [next EXCEPT ![p] = k + 1]
      /\ UNCHANGED <<env, seeds, cut, early, cuts>>
  BY <1>0 DEF Seed!Insert, Seed!Clash, Begun
<1>2. k \in Nat /\ k >= 1 /\ k \in 1..Len(Seed!Statements(owner)) /\ (k >= 2 => Begun(owner))
  BY <1>0, <1>1, StatementsAre DEF SeedInv, SeedTypesOK, ProgressInv, StatementsFacts
<1>3. /\ s.row[1] = owner /\ s.needs \subseteq Looked
      /\ k = 1 => s.row = <<owner, "tenants", 1>> /\ s.needs = {}
      /\ owner = "demo" => s.needs \subseteq {Seed!Statements(owner)[m].row : m \in 1..(k - 1)}
      /\ owner = "premium" => s.needs \subseteq Seed!Rows("demo")
  BY <1>2, StatementsAre DEF StatementsFacts
<1>4. next' \in [Workers -> Nat] /\ next'[p] = k + 1 /\ \A q \in Workers \ {p} : next'[q] = next[q]
  BY <1>0, <1>1, <1>2 DEF SeedInv, SeedTypesOK
<1> HIDE DEF s
<1>5. tables \subseteq tables'
  BY <1>1
<1>6. \A u : \A m : Passed(u, m) => Passed(u, m)'
  BY <1>1, <1>5, PassedStays
<1>7. Begun(owner)'
  <2>1. CASE k = 1
    <3>1. s.row \notin tables
      BY <1>1, <1>3, <2>1 DEF Begun
    <3>2. ~Seed!Taken(s.row)
      BY <1>3, <2>1, <3>1, TakenIsThere
    <3> QED
      BY <1>1, <1>3, <2>1, <3>2 DEF Begun
  <2>2. CASE k # 1
    BY <1>2, <1>5, <2>2 DEF Begun
  <2> QED
    BY <2>1, <2>2
<1>8. Passed(owner, k)'
  <2>1. ASSUME ~(s.needs \subseteq tables)
        PROVE  owner = "premium" /\ early /\ s.needs # {}
    <3>1. ASSUME owner = "demo"
          PROVE  FALSE
      <4>1. PICK m \in 1..(k - 1) : Seed!Statements(owner)[m].row \in s.needs \ tables
        BY <1>3, <2>1, <3>1
      <4>2. m \in 1..Len(Seed!Statements(owner)) /\ m < next[p]
        BY <1>0, <1>2
      <4>3. Passed(owner, m)
        BY <1>1, <4>2 DEF SeedInv, ProgressInv
      <4>4. Seed!Taken(Seed!Statements(owner)[m].row)
        BY <3>1, <4>1, <4>3 DEF Passed
      <4> QED
        BY <1>3, <4>1, <4>4, TakenIsThere DEF Looked
    <3>2. owner = "premium"
      BY <3>1 DEF Both
    <3>3. early
      BY <1>1, <1>3, <2>1, <3>2 DEF SeedInv, OrderInv
    <3> QED
      BY <2>1, <3>2, <3>3
  <2>2. CASE s.needs \subseteq tables
    <3>1. s.row \in tables' \/ Seed!Taken(s.row)
      BY <1>1, <2>2
    <3>2. Seed!Taken(s.row) => (Seed!Taken(s.row))'
      BY <1>5 DEF Seed!Taken
    <3> QED
      BY <3>1, <3>2 DEF Passed, s
  <2> QED
    BY <1>1, <2>1, <2>2 DEF Passed, s
<1>9. SeedTypesOK'
  BY <1>1, <1>4 DEF SeedInv, SeedTypesOK
<1>10. ProgressInv'
  <2>1. ASSUME NEW q \in Workers, NEW u \in Both, seeds'[q] = u
        PROVE  /\ next'[q] >= 1 /\ (next'[q] >= 2 => Begun(u)')
               /\ \A m \in 1..Len(Seed!Statements(u)) : m < next'[q] => Passed(u, m)'
    <3>1. CASE q = p
      <4>1. u = owner
        BY <1>1, <2>1, <3>1
      <4>2. \A m \in 1..Len(Seed!Statements(owner)) : m < k => Passed(owner, m)
        BY <1>0, <1>1 DEF SeedInv, ProgressInv
      <4>3. \A m \in 1..Len(Seed!Statements(owner)) : m < k + 1 => m < k \/ m = k
        BY <1>2
      <4> QED
        BY <1>2, <1>4, <1>6, <1>7, <1>8, <3>1, <4>1, <4>2, <4>3
    <3>2. CASE q # p
      BY <1>1, <1>4, <1>5, <1>6, <2>1, <3>2 DEF SeedInv, ProgressInv, Begun
    <3> QED
      BY <3>1, <3>2
  <2> QED
    BY <2>1 DEF ProgressInv
<1>11. BegunInv'
  <2>1. ASSUME NEW u \in Both, Begun(u)'
        PROVE  (u \in cut \/ (\E q \in Workers : Seeding(q, u)) \/ Whole(u))'
    <3>1. CASE u = owner
      <4>1. Seeding(p, owner)'
        BY <1>1, <1>2, <1>4 DEF Seeding
      <4> QED
        BY <3>1, <4>1
    <3>2. CASE u # owner
      <4>1. Begun(u)
        <5>1. <<u, "tenants", 1>> # s.row
          BY <1>3, <3>2
        <5> QED
          BY <1>1, <2>1, <5>1 DEF Begun
      <4>2. u \in cut \/ (\E q \in Workers : Seeding(q, u)) \/ Whole(u)
        BY <4>1 DEF SeedInv, BegunInv
      <4>3. Whole(u) => Whole(u)'
        BY <1>6 DEF Whole
      <4>4. \A q \in Workers : Seeding(q, u) => Seeding(q, u)'
        BY <1>1, <1>4, <3>2 DEF Seeding
      <4> QED
        BY <1>1, <4>2, <4>3, <4>4
    <3> QED
      BY <3>1, <3>2
  <2> QED
    BY <2>1 DEF BegunInv
<1>12. OrderInv'
  BY <1>1, <1>5 DEF SeedInv, OrderInv, Begun
<1> QED
  BY <1>9, <1>10, <1>11, <1>12 DEF SeedInv

LEMMA SeedInit == Seed!Init => SeedInv
  BY DEF Seed!Init, SeedInv, SeedTypesOK, SeedStates, ProgressInv, BegunInv, OrderInv, Both, Begun

LEMMA SeedStep ==
  ASSUME SeedInv, [Seed!Next]_Seed!vars
  PROVE  SeedInv'
<1> USE DEF Seed!Goto
<1>0. seeds \in [Workers -> SeedStates] /\ next \in [Workers -> Nat]
  BY DEF SeedInv, SeedTypesOK
<1>1. ASSUME NEW p \in Workers, Seed!Start(p)
      PROVE  SeedInv'
  <2> DEFINE to == IF env = "production" THEN "up" ELSE "check_demo"
  <2>1. /\ seeds[p] = "off" /\ seeds' = [seeds EXCEPT ![p] = to] /\ next' = [next EXCEPT ![p] = 0]
        /\ UNCHANGED <<env, tables, cut, early>>
    BY <1>1 DEF Seed!Start
  <2>2. to \in SeedStates /\ to \notin Both /\ to \notin {"check_premium", "premium"}
        /\ (to = "up" => env = "production")
    BY DEF SeedStates, Both
  <2>3. \A owner \in Both : ~Seeding(p, owner)
    BY <2>1 DEF Seeding, Both
  <2> HIDE DEF to
  <2> QED
    BY <2>1, <2>2, <2>3, GoneOn, 0 \in Nat
<1>2. ASSUME NEW p \in Workers, Seed!CheckDemo(p)
      PROVE  SeedInv'
  <2>1. \A owner \in Both : ~Seeding(p, owner)
    BY <1>2 DEF Seed!CheckDemo, Seeding, Both
  <2>2. CASE Begun("demo")
    <3>1. /\ seeds' = [seeds EXCEPT ![p] = "check_premium"] /\ next' = [next EXCEPT ![p] = 0]
          /\ UNCHANGED <<env, tables, cut, early>>
      BY <1>2, <2>2 DEF Seed!CheckDemo, Begun
    <3>2. "check_premium" \in SeedStates /\ "check_premium" \notin Both
      BY DEF SeedStates, Both
    <3> QED
      BY <2>1, <2>2, <3>1, <3>2, GoneOn, 0 \in Nat
  <2>3. CASE ~Begun("demo")
    <3>1. /\ seeds' = [seeds EXCEPT ![p] = "demo"] /\ next' = [next EXCEPT ![p] = 1]
          /\ UNCHANGED <<env, tables, cut, early>>
      BY <1>2, <2>3 DEF Seed!CheckDemo, Begun
    <3>2. "demo" \in SeedStates
      BY DEF SeedStates
    <3> QED
      BY <2>1, <3>1, <3>2, GoneOn, 1 \in Nat
  <2> QED
    BY <2>2, <2>3
<1>3. ASSUME NEW p \in Workers, Seed!CheckPremium(p)
      PROVE  SeedInv'
  <2>1. seeds[p] = "check_premium"
    BY <1>3 DEF Seed!CheckPremium
  <2>2. Begun("demo") /\ \A owner \in Both : ~Seeding(p, owner)
    BY <2>1 DEF Seeding, Both, SeedInv, OrderInv
  <2>3. CASE Begun("premium")
    <3>1. /\ seeds' = [seeds EXCEPT ![p] = "up"] /\ next' = [next EXCEPT ![p] = 0]
          /\ UNCHANGED <<env, tables, cut, early>>
      BY <1>3, <2>3 DEF Seed!CheckPremium, Begun
    <3>2. "up" \in SeedStates /\ "up" \notin Both
      BY DEF SeedStates, Both
    <3> QED
      BY <2>2, <2>3, <3>1, <3>2, GoneOn, 0 \in Nat
  <2>4. CASE ~Begun("premium")
    <3>1. /\ seeds' = [seeds EXCEPT ![p] = "premium"] /\ next' = [next EXCEPT ![p] = 1]
          /\ early' = (early \/ ~(Seed!Rows("demo") \subseteq tables))
          /\ UNCHANGED <<env, tables, cut>>
      BY <1>3, <2>4 DEF Seed!CheckPremium, Begun
    <3>2. "premium" \in SeedStates
      BY DEF SeedStates
    <3> QED
      BY <2>2, <3>1, <3>2, GoneOn, 1 \in Nat
  <2> QED
    BY <2>3, <2>4
<1>4. ASSUME NEW p \in Workers, Seed!End(p)
      PROVE  SeedInv'
  <2>1. /\ seeds' = [seeds EXCEPT ![p] = "off"] /\ next' = [next EXCEPT ![p] = 0]
        /\ cut' = cut \union ({seeds[p]} \intersect {"demo", "premium"})
        /\ UNCHANGED <<env, tables, early>>
    BY <1>4 DEF Seed!End
  <2>2. "off" \in SeedStates /\ "off" \notin Both
    BY DEF SeedStates, Both
  <2>3. \A owner \in Both : Seeding(p, owner) => owner \in cut'
    BY <2>1 DEF Seeding, Both
  <2> QED
    BY <2>1, <2>2, <2>3, GoneOn, 0 \in Nat
<1>5. ASSUME NEW p \in Workers, NEW owner \in Both, Seed!Insert(p, owner)
      PROVE  SeedInv'
  BY <1>5, InsertKeeps
<1>6. ASSUME NEW p \in Workers, NEW owner \in Both, Seed!Finish(p, owner)
      PROVE  SeedInv'
  <2> DEFINE to == IF owner = "demo" THEN "check_premium" ELSE "up"
  <2>1. /\ seeds[p] = owner /\ next[p] > Len(Seed!Statements(owner))
        /\ seeds' = [seeds EXCEPT ![p] = to] /\ next' = [next EXCEPT ![p] = 0]
        /\ UNCHANGED <<env, tables, cut, early>>
    BY <1>6 DEF Seed!Finish
  <2>2. Len(Seed!Statements(owner)) \in Nat \ {0}
    BY StatementsAre DEF StatementsFacts
  <2>3. Begun(owner) /\ Whole(owner)
    BY <1>0, <2>1, <2>2 DEF SeedInv, ProgressInv, Whole
  <2>4. owner = "premium" => Begun("demo")
    BY <2>1 DEF SeedInv, OrderInv
  <2>5. to \in SeedStates /\ to \notin Both
    BY DEF SeedStates, Both
  <2>6. \A u \in Both : Seeding(p, u) => Whole(u)
    BY <2>1, <2>3 DEF Seeding
  <2>7. /\ to \in {"check_premium", "premium"} => Begun("demo")
        /\ to = "up" => Begun("demo") /\ Begun("premium")
        /\ to # "premium"
    BY <2>3, <2>4 DEF Both
  <2> HIDE DEF to
  <2> QED
    BY <2>1, <2>5, <2>6, <2>7, GoneOn, 0 \in Nat
<1>7. ASSUME NEW p \in Workers, NEW owner \in Both, Seed!Refused(p, owner)
      PROVE  SeedInv'
  <2>1. /\ seeds[p] = owner /\ next[p] = 1
        /\ seeds' = [seeds EXCEPT ![p] = "off"] /\ next' = [next EXCEPT ![p] = 0]
        /\ UNCHANGED <<env, tables, cut, early>>
    BY <1>7 DEF Seed!Refused, Seed!Clash
  <2>2. "off" \in SeedStates /\ "off" \notin Both
    BY DEF SeedStates, Both
  <2>3. \A u \in Both : ~Seeding(p, u)
    BY <2>1 DEF Seeding
  <2> QED
    BY <2>1, <2>2, <2>3, GoneOn, 0 \in Nat
<1>8. CASE UNCHANGED Seed!vars
  BY <1>8 DEF Seed!vars, SeedInv, SeedTypesOK, ProgressInv, BegunInv, OrderInv, Begun, Passed,
     Whole, Seeding, Seed!Taken
<1> QED
  BY <1>1, <1>2, <1>3, <1>4, <1>5, <1>6, <1>7, <1>8 DEF Seed!Next, Both

(* Once a process answers requests, both tenants are whole, but for what   *)
(* another process still inserts, what a start that ended left out, and    *)
(* what a premium tenant begun too early went without; for any number of   *)
(* processes and of starts cut short (seed.service.ts:25-103).             *)
THEOREM SeedIsExplained == Seed!Spec => []SeedExplained
<1>1. Seed!Init => SeedInv
  BY SeedInit
<1>2. SeedInv /\ [Seed!Next]_Seed!vars => SeedInv'
  BY SeedStep
<1>3. SeedInv => SeedExplained
  <2>1. ASSUME SeedInv, NEW p \in Workers, NEW owner \in {"demo", "premium"},
               seeds[p] = "up", env # "production",
               NEW s \in Seed!ToSet(Seed!Statements(owner))
        PROVE  \/ s.row \in tables \/ Seed!Taken(s.row)
               \/ owner \in cut \/ \E q \in Workers : seeds[q] = owner
               \/ owner = "premium" /\ early /\ s.needs # {}
    <3>1. PICK n \in 1..Len(Seed!Statements(owner)) : s = Seed!Statements(owner)[n]
      BY StatementsAre DEF StatementsFacts, Both, Seed!ToSet
    <3>2. Begun(owner)
      BY <2>1 DEF SeedInv, OrderInv
    <3>3. owner \in cut \/ (\E q \in Workers : Seeding(q, owner)) \/ Whole(owner)
      BY <2>1, <3>2 DEF SeedInv, BegunInv, Both
    <3> QED
      BY <3>1, <3>3 DEF Seeding, Whole, Passed
  <2> QED
    BY <2>1 DEF SeedExplained, Seed!SeedExplained
<1> QED
  BY <1>1, <1>2, <1>3, PTL DEF Seed!Spec

-----------------------------------------------------------------------------
(***************************************************************************)
(* The register of insurers.  A row never changes its key, and rows are    *)
(* only added: what a run has read is still there, and is the table itself *)
(* as long as nothing was written since.                                   *)
(***************************************************************************)
Numbers == {None, 1}
Texts == Nat \union {None}
Entity ==
  [category : {1, 2}, name : Companies, eik : Numbers, address : Texts, description : Texts,
   logo : Texts, trustpilotUrl : Texts, score : Texts]
Scraped ==
  [category : {1, 2}, name : Companies, eik : Numbers, address : Texts, description : Texts,
   trustpilotUrl : Texts]
FscStates == {"idle", "scrape", "find", "save"}
FscRun ==
  [pc : FscStates, at : 0..2, scraped : SUBSET Scraped, read : Seq(Entity), since : Nat]
Enrichment == [read : Seq(Entity), since : Nat]

KeyOf(r) == Insurers!getDedupKey(r)

FscTypesOK ==
  /\ rows \in Seq(Entity) /\ writes \in Nat
  /\ fsc \in [Workers -> FscRun]
  /\ DOMAIN enrich = Workers /\ \A p \in Workers : enrich[p] = None \/ enrich[p] \in Enrichment
  /\ DOMAIN fscStatus = Workers /\ DOMAIN seen = Workers
  /\ eik \in [Companies -> Numbers] /\ address \in [Companies -> Nat]
  /\ onPage \in [1..2 -> SUBSET Companies]
  /\ overlapped \in BOOLEAN /\ cleared \in BOOLEAN

(* The rows read when the table had been written since times. *)
FromTable(read, times) ==
  /\ \A i \in DOMAIN read : i \in DOMAIN rows /\ KeyOf(read[i]) = KeyOf(rows[i])
  /\ times <= writes
  /\ times = writes => read = rows

ReadOK(p) ==
  /\ fsc[p].pc = "save" => FromTable(fsc[p].read, fsc[p].since)
  /\ enrich[p] # None => FromTable(enrich[p].read, enrich[p].since)

(* The rows scraped from the page of a category: a company once. *)
Distinct(set) == \A x, y \in set : KeyOf(x) = KeyOf(y) => x = y
ScrapedOK(p) ==
  /\ IsFiniteSet(fsc[p].scraped) /\ Distinct(fsc[p].scraped)
  /\ fsc[p].pc \in {"idle", "scrape"} => fsc[p].scraped = {}
  /\ fsc[p].pc = "scrape" => fsc[p].at \in 1..2

(* What a run has scraped is in the table, or still in its hands. *)
InTable(k) == \E i \in DOMAIN rows : KeyOf(rows[i]) = k
SeenOK(p) ==
  /\ fscStatus[p] = "success" => fsc[p].pc = "idle"
  /\ fsc[p].pc # "idle" \/ fscStatus[p] = "success" =>
       \A k \in seen[p] : InTable(k) \/ \E x \in fsc[p].scraped : KeyOf(x) = k

Twins ==
  \A i, j \in DOMAIN rows :
    i # j /\ KeyOf(rows[i]) = KeyOf(rows[j]) => rows[i].eik = None /\ overlapped

RunOK(p) == ReadOK(p) /\ ScrapedOK(p) /\ SeenOK(p)
FscInv == FscTypesOK /\ Twins /\ (cleared => overlapped) /\ \A p \in Workers : RunOK(p)

-----------------------------------------------------------------------------
(* What the merge of a row with a page keeps. *)
LEMMA MergeKeeps ==
  ASSUME None \notin Nat, NEW old \in Entity, NEW r \in Scraped, KeyOf(r) = KeyOf(old)
  PROVE  LET new == Insurers!buildMergedEntity(old, r) IN
         new \in Entity /\ KeyOf(new) = KeyOf(old) /\ ~Insurers!Lost(old, new)
<1> DEFINE new == Insurers!buildMergedEntity(old, r)
<1>1. /\ DOMAIN old = {"category", "name", "eik", "address", "description", "logo", "trustpilotUrl", "score"}
      /\ r.eik = old.eik
  BY DEF Entity, KeyOf, Insurers!getDedupKey
<1>2. /\ new.category = old.category /\ new.name = old.name /\ new.eik = old.eik
      /\ new.address = Insurers!Pick(old.address, r.address)
      /\ new.description = Insurers!Pick(old.description, r.description)
      /\ new.logo = Insurers!Pick(old.logo, r.description)
      /\ new.trustpilotUrl = Insurers!Pick(old.trustpilotUrl, r.trustpilotUrl)
      /\ new.score = old.score
  BY <1>1 DEF Insurers!buildMergedEntity, Insurers!Pick, Entity
<1>3. new \in Entity
  BY <1>1, <1>2 DEF Entity, Scraped, Insurers!Pick, Insurers!buildMergedEntity
<1> HIDE DEF new
<1>4. /\ old.eik # None => new.eik = old.eik
      /\ old.address # None => new.address = old.address
      /\ old.description # None => new.description = old.description
      /\ old.logo # None => new.logo = old.logo
      /\ old.trustpilotUrl # None => new.trustpilotUrl # None
      /\ old.score # None => new.score # None
  BY <1>2 DEF Insurers!Pick
<1>5. ~Insurers!Lost(old, new)
  BY <1>4 DEF Insurers!Lost
<1>6. KeyOf(new) = KeyOf(old)
  BY <1>2 DEF KeyOf, Insurers!getDedupKey
<1> QED
  BY <1>3, <1>5, <1>6 DEF new

LEMMA EnrichKeeps ==
  ASSUME None \notin Nat, NEW old \in Entity
  PROVE  LET new == [old EXCEPT !.trustpilotUrl = 2, !.score = 1] IN
         new \in Entity /\ KeyOf(new) = KeyOf(old) /\ ~Insurers!Lost(old, new)
<1> DEFINE new == [old EXCEPT !.trustpilotUrl = 2, !.score = 1]
<1>1. /\ new.category = old.category /\ new.name = old.name /\ new.eik = old.eik
      /\ new.address = old.address /\ new.description = old.description /\ new.logo = old.logo
      /\ new.trustpilotUrl = 2 /\ new.score = 1
  BY DEF Entity
<1>2. new \in Entity
  BY DEF Entity, Texts
<1> HIDE DEF new
<1>3. ~Insurers!Lost(old, new)
  BY <1>1 DEF Insurers!Lost
<1>4. KeyOf(new) = KeyOf(old)
  BY <1>1 DEF KeyOf, Insurers!getDedupKey
<1> QED
  BY <1>2, <1>3, <1>4 DEF new

(* The rows of a finite set, each once. *)
LEMMA SetToSeqIs ==
  ASSUME NEW S, IsFiniteSet(S)
  PROVE  LET s == Insurers!SetToSeq(S) IN
         /\ s \in [1..Cardinality(S) -> S] /\ Cardinality(S) \in Nat
         /\ \A i, j \in 1..Cardinality(S) : s[i] = s[j] => i = j
         /\ \A x \in S : \E i \in 1..Cardinality(S) : s[i] = x
<1> DEFINE n == Cardinality(S)
<1>1. n \in Nat /\ ExistsBijection(1..n, S)
  BY FS_CardinalityType
<1>2. PICK f \in [1..n -> S] : Insurers!IsInjective(f)
  BY <1>1 DEF ExistsBijection, Bijection, Injection, IsInjective, Insurers!IsInjective
<1>3. Insurers!SetToSeq(S) \in [1..n -> S] /\ Insurers!IsInjective(Insurers!SetToSeq(S))
  BY <1>2 DEF Insurers!SetToSeq, Insurers!Cardinality, Cardinality
<1> DEFINE s == Insurers!SetToSeq(S)
<1>4. IsFiniteSet(1..n) /\ Cardinality(1..n) = n
  BY <1>1, FS_CountingElements, FS_Interval
<1>5. s \in Injection(1..n, S)
  BY <1>3 DEF Injection, IsInjective, Insurers!IsInjective
<1>6. s \in Surjection(1..n, S)
  BY <1>4, <1>5, FS_Injection
<1> QED
  BY <1>1, <1>3, <1>5, <1>6 DEF Injection, IsInjective, Surjection

(* The rows inserted for what the table does not have: one for each. *)
Fresh(news, set) ==
  /\ news \in Seq(Entity)
  /\ \A n \in DOMAIN news : \E x \in set : KeyOf(news[n]) = KeyOf(x)
  /\ \A x \in set : \E n \in DOMAIN news : KeyOf(news[n]) = KeyOf(x)
  /\ Distinct(set) => \A n, m \in DOMAIN news : KeyOf(news[n]) = KeyOf(news[m]) => n = m

LEMMA EntityOf ==
  ASSUME NEW r \in Scraped
  PROVE  Insurers!NewEntity(r) \in Entity /\ KeyOf(Insurers!NewEntity(r)) = KeyOf(r)
BY DEF Scraped, Entity, Texts, Insurers!NewEntity, KeyOf, Insurers!getDedupKey

LEMMA NewEntitiesAre ==
  ASSUME NEW set \in SUBSET Scraped, IsFiniteSet(set)
  PROVE  Fresh(Insurers!NewEntities(set), set)
<1> DEFINE s == Insurers!SetToSeq(set)
           n == Cardinality(set)
           news == Insurers!NewEntities(set)
<1>1. /\ s \in [1..n -> set] /\ n \in Nat
      /\ \A i, j \in 1..n : s[i] = s[j] => i = j
      /\ \A x \in set : \E i \in 1..n : s[i] = x
  BY SetToSeqIs
<1>2. news = [i \in 1..n |-> Insurers!NewEntity(s[i])]
  BY <1>1 DEF Insurers!NewEntities
<1> HIDE DEF s, n, news
<1>3. \A i \in 1..n : s[i] \in Scraped /\ news[i] \in Entity /\ KeyOf(news[i]) = KeyOf(s[i])
  BY <1>1, <1>2, EntityOf
<1>4. news \in [1..n -> Entity]
  BY <1>2, <1>3
<1>5. news \in Seq(Entity) /\ DOMAIN news = 1..n
  BY <1>1, <1>4
<1>6. \A i \in DOMAIN news : \E x \in set : KeyOf(news[i]) = KeyOf(x)
  BY <1>1, <1>3, <1>5
<1>7. \A x \in set : \E i \in DOMAIN news : KeyOf(news[i]) = KeyOf(x)
  BY <1>1, <1>3, <1>5
<1>8. ASSUME Distinct(set), NEW i \in DOMAIN news, NEW j \in DOMAIN news,
             KeyOf(news[i]) = KeyOf(news[j])
      PROVE  i = j
  <2>1. i \in 1..n /\ j \in 1..n /\ s[i] \in set /\ s[j] \in set
    BY <1>1, <1>5
  <2>2. KeyOf(s[i]) = KeyOf(s[j])
    BY <1>3, <1>8, <2>1
  <2>3. s[i] = s[j]
    BY <1>8, <2>1, <2>2 DEF Distinct
  <2> QED
    BY <1>1, <2>1, <2>3
<1>9. Fresh(news, set)
  BY <1>5, <1>6, <1>7, <1>8 DEF Fresh
<1> QED
  BY <1>9 DEF news

(* What a page's rows are. *)
LEMMA PageRows ==
  ASSUME FscTypesOK, IsFiniteSet(Companies), None \notin Nat, NEW k \in 1..2, NEW site
  PROVE  LET found == Insurers!enrichRows(k, site) IN
         found \in SUBSET Scraped /\ IsFiniteSet(found) /\ Distinct(found)
<1> DEFINE names == {c \in onPage[k] : ~Insurers!isHeaderRow(c)}
           found == {Insurers!ParsedRow(k, c, site) : c \in names}
<1>1. names \in SUBSET Companies /\ IsFiniteSet(names)
  BY FS_Subset DEF FscTypesOK
<1>2. IsFiniteSet(found)
  <2> DEFINE f == [c \in names |-> Insurers!ParsedRow(k, c, site)]
  <2>1. f \in Surjection(names, found)
    BY DEF Surjection
  <2> QED
    BY <1>1, <2>1, FS_Surjection
<1>3. ASSUME NEW c \in names
      PROVE  Insurers!ParsedRow(k, c, site) \in Scraped /\ Insurers!ParsedRow(k, c, site).name = c
  <2>1. c \in Companies /\ eik[c] \in Numbers /\ address[c] \in Texts
    BY <1>1 DEF FscTypesOK, Texts
  <2> QED
    BY <2>1 DEF Insurers!ParsedRow, Scraped, Texts
<1>4. found \in SUBSET Scraped
  BY <1>3
<1>5. Distinct(found)
  <2> SUFFICES ASSUME NEW x \in found, NEW y \in found, KeyOf(x) = KeyOf(y)
               PROVE  x = y
    BY DEF Distinct
  <2>1. PICK c \in names : x = Insurers!ParsedRow(k, c, site)
    OBVIOUS
  <2>2. PICK d \in names : y = Insurers!ParsedRow(k, d, site)
    OBVIOUS
  <2>3. x.name = y.name
    BY DEF KeyOf, Insurers!getDedupKey
  <2> QED
    BY <1>3, <2>1, <2>2, <2>3
<1> QED
  BY <1>2, <1>4, <1>5 DEF Insurers!enrichRows

-----------------------------------------------------------------------------
(* Steps that leave the table alone keep what was read of it. *)
LEMMA TableStays ==
  ASSUME rows' = rows, writes' = writes, NEW read, NEW times, FromTable(read, times)
  PROVE  FromTable(read, times)'
BY DEF FromTable

(* A save replaces rows by rows of the same keys, and adds some. *)
Grows(new) ==
  /\ new \in Seq(Entity)
  /\ \A i \in DOMAIN rows : i \in DOMAIN new /\ KeyOf(new[i]) = KeyOf(rows[i])

LEMMA TableGrows ==
  ASSUME Grows(rows'), writes \in Nat, writes' = writes + 1, NEW read, NEW times \in Nat,
         FromTable(read, times)
  PROVE  FromTable(read, times)'
<1>1. \A i \in DOMAIN read : i \in DOMAIN rows' /\ KeyOf(read[i]) = KeyOf(rows'[i])
  BY DEF FromTable, Grows
<1>2. times <= writes' /\ times # writes'
  BY DEF FromTable
<1>3. ((\A i \in DOMAIN read : i \in DOMAIN rows /\ KeyOf(read[i]) = KeyOf(rows[i]))')
  BY <1>1 DEF KeyOf, Insurers!getDedupKey
<1> QED
  BY <1>2, <1>3 DEF FromTable

LEMMA KeysStay ==
  ASSUME Grows(rows'), NEW k, InTable(k)
  PROVE  InTable(k)'
<1>1. \E i \in DOMAIN rows' : KeyOf(rows'[i]) = k
  BY DEF InTable, Grows
<1> QED
  BY <1>1 DEF InTable, KeyOf, Insurers!getDedupKey

-----------------------------------------------------------------------------
(* The table stays, or a save writes it. *)
TableStep ==
  \/ rows' = rows /\ writes' = writes /\ overlapped' = overlapped /\ cleared' = cleared
  \/ /\ Grows(rows') /\ writes' = writes + 1
     /\ overlapped' \in BOOLEAN /\ cleared' \in BOOLEAN
     /\ Twins' /\ (cleared' => overlapped')

(* A run keeps what it knows while another one takes a step. *)
LEMMA OthersKeep ==
  ASSUME FscInv, TableStep, NEW p \in Workers,
         fsc'[p] = fsc[p], enrich'[p] = enrich[p], fscStatus'[p] = fscStatus[p],
         seen'[p] = seen[p]
  PROVE  RunOK(p)'
<1>1. RunOK(p) /\ writes \in Nat /\ fsc[p] \in FscRun
      /\ (enrich[p] = None \/ enrich[p] \in Enrichment)
  BY DEF FscInv, FscTypesOK
<1> PICK run : run = fsc[p]
  OBVIOUS
<1> PICK e : e = enrich[p]
  OBVIOUS
<1> PICK keys : keys = seen[p]
  OBVIOUS
<1>2. (run.pc = "save" => FromTable(run.read, run.since)')
      /\ (e # None => FromTable(e.read, e.since)')
  <2>1. run.since \in Nat /\ (e # None => e.since \in Nat)
    BY <1>1 DEF FscRun, Enrichment
  <2>2. (run.pc = "save" => FromTable(run.read, run.since))
        /\ (e # None => FromTable(e.read, e.since))
    BY <1>1 DEF RunOK, ReadOK
  <2>3. CASE rows' = rows /\ writes' = writes
    BY <2>2, <2>3, TableStays
  <2>4. CASE Grows(rows') /\ writes' = writes + 1
    BY <1>1, <2>1, <2>2, <2>4, TableGrows
  <2> QED
    BY <2>3, <2>4 DEF TableStep
<1>3. \A k : InTable(k) => InTable(k)'
  <2>1. CASE rows' = rows
    BY <2>1 DEF InTable
  <2>2. CASE Grows(rows')
    BY <2>2, KeysStay
  <2> QED
    BY <2>1, <2>2 DEF TableStep
<1>4. ReadOK(p)'
  BY <1>2 DEF ReadOK
<1>5. ScrapedOK(p)'
  BY <1>1 DEF RunOK, ScrapedOK
<1>6. SeenOK(p)'
  BY <1>1, <1>3 DEF RunOK, SeenOK
<1> QED
  BY <1>4, <1>5, <1>6 DEF RunOK

(* A step of one run: what is left to show is that run, and the types. *)
OneMoves(p) ==
  \A q \in Workers : q # p =>
    fsc'[q] = fsc[q] /\ enrich'[q] = enrich[q] /\ fscStatus'[q] = fscStatus[q]
    /\ seen'[q] = seen[q]

LEMMA OneStep ==
  ASSUME FscInv, TableStep, NEW p, OneMoves(p), FscTypesOK', p \in Workers => RunOK(p)'
  PROVE  FscInv'
<1>1. ASSUME NEW q \in Workers PROVE RunOK(q)'
  BY OthersKeep DEF OneMoves
<1>2. Twins' /\ (cleared' => overlapped')
  BY DEF TableStep, FscInv, Twins
<1> QED
  BY <1>1, <1>2 DEF FscInv

-----------------------------------------------------------------------------
(* A run that is done with a category, or over, holds nothing any more. *)
Put(p, run) ==
  /\ fsc' = [fsc EXCEPT ![p] = run]
  /\ DOMAIN fscStatus' = Workers
  /\ \A q \in Workers : q # p => fscStatus'[q] = fscStatus[q]
  /\ fscStatus'[p] = "success" => run.pc = "idle"
Empty(run) ==
  /\ run \in FscRun /\ run.pc \in {"idle", "scrape"} /\ run.scraped = {}
  /\ run.pc = "scrape" => run.at \in 1..2

LEMMA IdleIsEmpty ==
  /\ Empty(Insurers!Idle)
  /\ \A k \in 1..2 : Empty([Insurers!Idle EXCEPT !.pc = "scrape", !.at = k])
<1>1. <<>> \in Seq(Entity) /\ 0 \in Nat /\ 0 \in 0..2 /\ {} \in SUBSET Scraped
  OBVIOUS
<1>2. Empty(Insurers!Idle)
  BY <1>1 DEF Insurers!Idle, Empty, FscRun, FscStates
<1>3. ASSUME NEW k \in 1..2
      PROVE  Empty([Insurers!Idle EXCEPT !.pc = "scrape", !.at = k])
  <2> DEFINE run == [Insurers!Idle EXCEPT !.pc = "scrape", !.at = k]
  <2>1. Insurers!Idle \in FscRun
    BY <1>2 DEF Empty
  <2>2. k \in 0..2 /\ "scrape" \in FscStates
    BY DEF FscStates
  <2>3. run \in FscRun /\ run.pc = "scrape" /\ run.at = k /\ run.scraped = Insurers!Idle.scraped
    BY <2>1, <2>2 DEF FscRun
  <2> QED
    BY <1>2, <2>3 DEF Empty
<1> QED
  BY <1>2, <1>3

LEMMA AdvanceIs ==
  ASSUME FscInv, NEW p \in Workers, Insurers!Advance(p, fsc[p]), fsc[p].pc # "idle"
  PROVE  \E run : Empty(run) /\ Put(p, run)
<1>1. fsc[p].at \in 0..2 /\ fscStatus[p] # "success" /\ DOMAIN fscStatus = Workers
  BY DEF FscInv, FscTypesOK, FscRun, RunOK, SeenOK
<1>2. Len(Insurers!Categories) = 2
  BY DEF Insurers!Categories
<1>3. CASE fsc[p].at < 2
  <2> DEFINE run == [Insurers!Idle EXCEPT !.pc = "scrape", !.at = fsc[p].at + 1]
  <2>0. fsc[p].at + 1 \in 1..2
    BY <1>1, <1>3
  <2>1. Empty(run)
    BY <2>0, IdleIsEmpty
  <2>2. fsc' = [fsc EXCEPT ![p] = run] /\ fscStatus' = fscStatus
    BY <1>2, <1>3 DEF Insurers!Advance
  <2>3. Put(p, run)
    BY <1>1, <2>2 DEF Put
  <2> QED
    BY <2>1, <2>3
<1>4. CASE ~(fsc[p].at < 2)
  <2>1. fsc' = [fsc EXCEPT ![p] = Insurers!Idle]
        /\ fscStatus' = [fscStatus EXCEPT ![p] = "success"]
    BY <1>2, <1>4 DEF Insurers!Advance
  <2>2. Put(p, Insurers!Idle)
    BY <1>1, <2>1 DEF Put, Insurers!Idle
  <2> QED
    BY <1>1, <2>2, IdleIsEmpty
<1> QED
  BY <1>3, <1>4

LEMMA FailIs ==
  ASSUME FscInv, NEW p \in Workers, Insurers!Fail(p)
  PROVE  Empty(Insurers!Idle) /\ Put(p, Insurers!Idle) /\ fscStatus'[p] = "error"
<1>1. DOMAIN fscStatus = Workers
  BY DEF FscInv, FscTypesOK
<1>2. Empty(Insurers!Idle)
  BY IdleIsEmpty
<1> QED
  BY <1>1, <1>2 DEF Insurers!Fail, Put

(* The end of a category keeps the invariant, if what the run scraped is in
   the table or the run has failed. *)
LEMMA EndKeeps ==
  ASSUME FscInv, TableStep, rows' \in Seq(Entity), writes' \in Nat, overlapped' \in BOOLEAN,
         cleared' \in BOOLEAN, NEW p \in Workers, NEW run, Empty(run), Put(p, run),
         UNCHANGED <<onPage, eik, address, enrich, seen>>,
         run.pc # "idle" \/ fscStatus'[p] = "success" => \A k \in seen[p] : InTable(k)'
  PROVE  FscInv'
<1>1. FscTypesOK
  BY DEF FscInv
<1>2. fsc' \in [Workers -> FscRun] /\ fsc'[p] = run
  BY <1>1 DEF FscTypesOK, Put, Empty
<1>3. FscTypesOK'
  BY <1>1, <1>2 DEF FscTypesOK, Put
<1>4. OneMoves(p)
  BY <1>1 DEF OneMoves, Put, FscTypesOK
<1>5. enrich[p] # None => FromTable(enrich[p].read, enrich[p].since)'
  <2> PICK e : e = enrich[p]
    OBVIOUS
  <2>1. e # None => FromTable(e.read, e.since) /\ e.since \in Nat
    BY <1>1 DEF FscInv, RunOK, ReadOK, FscTypesOK, Enrichment
  <2>2. e # None => FromTable(e.read, e.since)'
    <3>1. CASE rows' = rows /\ writes' = writes
      BY <2>1, <3>1, TableStays
    <3>2. CASE Grows(rows') /\ writes' = writes + 1
      BY <1>1, <2>1, <3>2, TableGrows DEF FscTypesOK
    <3> QED
      BY <3>1, <3>2 DEF TableStep
  <2> QED
    BY <2>2
<1>6. ReadOK(p)'
  BY <1>2, <1>5 DEF ReadOK, Empty
<1>7. ScrapedOK(p)'
  BY <1>2, FS_EmptySet DEF ScrapedOK, Empty, Distinct
<1>8. SeenOK(p)'
  BY <1>2 DEF SeenOK, Put, Empty
<1> QED
  BY <1>3, <1>4, <1>6, <1>7, <1>8, OneStep DEF RunOK

-----------------------------------------------------------------------------
(* What a save makes of the rows that are there. *)
Keeps(kept) ==
  /\ kept \in Seq(Entity) /\ DOMAIN kept = DOMAIN rows
  /\ \A i \in DOMAIN rows : KeyOf(kept[i]) = KeyOf(rows[i])

(* A new row is of a key that was not there when the table was read; and if
   it is there by now, the company has no number and the saves overlap. *)
LEMMA TwinsStep ==
  ASSUME FscInv, NEW kept, Keeps(kept), NEW news \in Seq(Entity), rows' = kept \o news,
         overlapped => overlapped',
         \A n, m \in DOMAIN news : KeyOf(news[n]) = KeyOf(news[m]) => n = m,
         \A n \in DOMAIN news, i \in DOMAIN rows :
           KeyOf(news[n]) = KeyOf(rows[i]) => news[n].eik = None /\ overlapped'
  PROVE  Twins'
<1>1. /\ rows \in Seq(Entity) /\ kept \in Seq(Entity) /\ Len(kept) = Len(rows)
      /\ DOMAIN rows = 1..Len(rows) /\ DOMAIN kept = 1..Len(rows)
  BY DEF FscInv, FscTypesOK, Keeps
<1>2. \A r, s : KeyOf(r) = KeyOf(s) => r.eik = s.eik
  BY DEF KeyOf, Insurers!getDedupKey
<1>3. \A i \in DOMAIN rows' :
        \/ i \in DOMAIN rows /\ rows'[i] = kept[i]
        \/ \E n \in DOMAIN news : i = Len(kept) + n /\ rows'[i] = news[n]
  <2> SUFFICES ASSUME NEW i \in DOMAIN (kept \o news)
               PROVE  \/ i \in DOMAIN rows /\ (kept \o news)[i] = kept[i]
                      \/ \E n \in DOMAIN news : i = Len(kept) + n /\ (kept \o news)[i] = news[n]
    OBVIOUS
  <2>1. i \in 1..(Len(kept) + Len(news))
    BY <1>1, ConcatProperties
  <2>2. CASE i <= Len(kept)
    BY <1>1, <2>1, <2>2, ConcatProperties
  <2>3. CASE ~(i <= Len(kept))
    <3>1. i - Len(kept) \in 1..Len(news) /\ i = Len(kept) + (i - Len(kept))
      BY <1>1, <2>1, <2>3
    <3>2. (kept \o news)[i] = news[i - Len(kept)]
      BY <1>1, <2>1, <2>3, ConcatProperties
    <3> QED
      BY <3>1, <3>2
  <2> QED
    BY <2>2, <2>3
<1>4. ASSUME NEW i \in DOMAIN rows', NEW j \in DOMAIN rows', i # j,
             KeyOf(rows'[i]) = KeyOf(rows'[j])
      PROVE  rows'[i].eik = None /\ overlapped'
  <2>1. CASE i \in DOMAIN rows /\ rows'[i] = kept[i] /\ j \in DOMAIN rows /\ rows'[j] = kept[j]
    <3>1. KeyOf(rows[i]) = KeyOf(rows[j]) /\ KeyOf(rows'[i]) = KeyOf(rows[i])
      BY <1>4, <2>1 DEF Keeps
    <3>2. rows[i].eik = None /\ overlapped
      BY <1>4, <2>1, <3>1 DEF FscInv, Twins
    <3> QED
      BY <1>2, <3>1, <3>2
  <2>2. ASSUME i \in DOMAIN rows, rows'[i] = kept[i], NEW n \in DOMAIN news, rows'[j] = news[n]
        PROVE  rows'[i].eik = None /\ overlapped'
    <3>1. KeyOf(news[n]) = KeyOf(rows[i])
      BY <1>4, <2>2 DEF Keeps
    <3> QED
      BY <1>2, <1>4, <2>2, <3>1
  <2>3. ASSUME j \in DOMAIN rows, rows'[j] = kept[j], NEW n \in DOMAIN news, rows'[i] = news[n]
        PROVE  rows'[i].eik = None /\ overlapped'
    <3>1. KeyOf(news[n]) = KeyOf(rows[j])
      BY <1>4, <2>3 DEF Keeps
    <3> QED
      BY <2>3, <3>1
  <2>4. ASSUME NEW n \in DOMAIN news, rows'[i] = news[n], i = Len(kept) + n,
               NEW m \in DOMAIN news, rows'[j] = news[m], j = Len(kept) + m
        PROVE  FALSE
    <3>1. KeyOf(news[n]) = KeyOf(news[m])
      BY <1>4, <2>4
    <3> QED
      BY <1>4, <2>4, <3>1
  <2> QED
    BY <1>3, <2>1, <2>2, <2>3, <2>4
<1>5. \A i, j \in DOMAIN rows' :
        i # j /\ KeyOf(rows'[i]) = KeyOf(rows'[j]) => rows'[i].eik = None /\ overlapped'
  BY <1>4
<1> QED
  BY <1>5 DEF Twins, KeyOf, Insurers!getDedupKey

(* SaveCategory: the rows merged in place. *)
LEMMA MergedKeeps ==
  ASSUME None \notin Nat, FscTypesOK, NEW read \in Seq(Entity), NEW scraped \in SUBSET Scraped,
         NEW times, FromTable(read, times)
  PROVE  LET merged == Insurers!Merged(read, scraped)
             kept == [i \in DOMAIN rows |-> IF i \in DOMAIN merged THEN merged[i] ELSE rows[i]]
         IN Keeps(kept) /\ (times = writes => \A i \in DOMAIN rows : ~Insurers!Lost(rows[i], kept[i]))
<1> DEFINE merged == Insurers!Merged(read, scraped)
           kept == [i \in DOMAIN rows |-> IF i \in DOMAIN merged THEN merged[i] ELSE rows[i]]
           Match(i) == CHOOSE r \in scraped : Insurers!getDedupKey(r) = Insurers!getDedupKey(read[i])
<1>1. ASSUME NEW i \in DOMAIN rows, i \in DOMAIN merged
      PROVE  /\ merged[i] \in Entity /\ KeyOf(merged[i]) = KeyOf(rows[i])
             /\ times = writes => ~Insurers!Lost(rows[i], merged[i])
  <2>1. /\ i \in DOMAIN read
        /\ \E r \in scraped : Insurers!getDedupKey(r) = Insurers!getDedupKey(read[i])
    BY <1>1 DEF Insurers!Merged
  <2>2. merged[i] = Insurers!buildMergedEntity(read[i], Match(i))
    BY <1>1 DEF Insurers!Merged
  <2>3. Match(i) \in scraped /\ KeyOf(Match(i)) = KeyOf(read[i])
    BY <2>1 DEF KeyOf
  <2> HIDE DEF Match, merged
  <2>4. read[i] \in Entity /\ Match(i) \in Scraped
    BY <2>1, <2>3
  <2>5. merged[i] \in Entity /\ KeyOf(merged[i]) = KeyOf(read[i])
        /\ ~Insurers!Lost(read[i], merged[i])
    BY <2>2, <2>3, <2>4, MergeKeeps
  <2> QED
    BY <2>1, <2>5 DEF FromTable
<1>2. ASSUME NEW i \in DOMAIN rows
      PROVE  /\ kept[i] \in Entity /\ KeyOf(kept[i]) = KeyOf(rows[i])
             /\ times = writes => ~Insurers!Lost(rows[i], kept[i])
  <2>1. rows[i] \in Entity
    BY DEF FscTypesOK
  <2>2. ~Insurers!Lost(rows[i], rows[i])
    BY DEF Insurers!Lost
  <2> QED
    BY <1>1, <2>1, <2>2
<1>3. DOMAIN rows = 1..Len(rows) /\ Len(rows) \in Nat
  BY DEF FscTypesOK
<1> HIDE DEF merged
<1>4. kept \in [1..Len(rows) -> Entity]
  BY <1>2, <1>3
<1>5. kept \in Seq(Entity) /\ DOMAIN kept = DOMAIN rows
  BY <1>3, <1>4
<1>6. Keeps(kept) /\ (times = writes => \A i \in DOMAIN rows : ~Insurers!Lost(rows[i], kept[i]))
  BY <1>2, <1>5 DEF Keeps
<1> QED
  BY <1>6 DEF merged

(* enrichAll: the rows that Trustpilot knows, as they were read. *)
LEMMA EnrichedKeeps ==
  ASSUME None \notin Nat, FscTypesOK, NEW read \in Seq(Entity), NEW known \in SUBSET DOMAIN read,
         NEW times, FromTable(read, times)
  PROVE  LET kept == Insurers!Enriched(read, known)
         IN Keeps(kept) /\ (times = writes => \A i \in DOMAIN rows : ~Insurers!Lost(rows[i], kept[i]))
<1> DEFINE kept == [i \in DOMAIN rows |->
                      IF i \in known
                      THEN [read[i] EXCEPT !.trustpilotUrl = 2, !.score = 1]
                      ELSE rows[i]]
<1>1. ASSUME NEW i \in DOMAIN rows
      PROVE  /\ kept[i] \in Entity /\ KeyOf(kept[i]) = KeyOf(rows[i])
             /\ times = writes => ~Insurers!Lost(rows[i], kept[i])
  <2>1. CASE i \in known
    <3>1. read[i] \in Entity
      BY <2>1
    <3>2. LET new == [read[i] EXCEPT !.trustpilotUrl = 2, !.score = 1] IN
          new \in Entity /\ KeyOf(new) = KeyOf(read[i]) /\ ~Insurers!Lost(read[i], new)
      BY <3>1, EnrichKeeps
    <3> QED
      BY <2>1, <3>2 DEF FromTable
  <2>2. CASE i \notin known
    <3>1. rows[i] \in Entity
      BY DEF FscTypesOK
    <3>2. ~Insurers!Lost(rows[i], rows[i])
      BY DEF Insurers!Lost
    <3> QED
      BY <2>2, <3>1, <3>2
  <2> QED
    BY <2>1, <2>2
<1>2. DOMAIN rows = 1..Len(rows) /\ Len(rows) \in Nat
  BY DEF FscTypesOK
<1>3. kept \in [1..Len(rows) -> Entity]
  BY <1>1, <1>2
<1> HIDE DEF kept
<1>4. kept \in Seq(Entity) /\ DOMAIN kept = DOMAIN rows
  BY <1>2, <1>3
<1>5. Keeps(kept) /\ (times = writes => \A i \in DOMAIN rows : ~Insurers!Lost(rows[i], kept[i]))
  BY <1>1, <1>4 DEF Keeps
<1> QED
  BY <1>5 DEF kept, Insurers!Enriched

(* Rows that are added stand after those that were there. *)
LEMMA AppendedAre ==
  ASSUME NEW olds \in Seq(Entity), NEW news \in Seq(Entity)
  PROVE  /\ olds \o news \in Seq(Entity)
         /\ \A i \in DOMAIN olds : i \in DOMAIN (olds \o news) /\ (olds \o news)[i] = olds[i]
         /\ \A n \in DOMAIN news : \E i \in DOMAIN (olds \o news) : (olds \o news)[i] = news[n]
<1>1. /\ olds \o news \in Seq(Entity) /\ Len(olds \o news) = Len(olds) + Len(news)
      /\ DOMAIN olds = 1..Len(olds) /\ DOMAIN news = 1..Len(news)
      /\ DOMAIN (olds \o news) = 1..(Len(olds) + Len(news))
      /\ Len(olds) \in Nat /\ Len(news) \in Nat
  BY ConcatProperties
<1>2. ASSUME NEW i \in DOMAIN olds
      PROVE  i \in DOMAIN (olds \o news) /\ (olds \o news)[i] = olds[i]
  BY <1>1, ConcatProperties
<1>3. ASSUME NEW n \in DOMAIN news
      PROVE  \E i \in DOMAIN (olds \o news) : (olds \o news)[i] = news[n]
  <2>1. Len(olds) + n \in 1..(Len(olds) + Len(news)) /\ ~(Len(olds) + n <= Len(olds))
        /\ Len(olds) + n - Len(olds) = n
    BY <1>1
  <2>2. (olds \o news)[Len(olds) + n] = news[n]
    BY <1>1, <2>1, ConcatProperties
  <2> QED
    BY <1>1, <2>1, <2>2
<1> QED
  BY <1>1, <1>2, <1>3

-----------------------------------------------------------------------------
LEMMA PublishStep ==
  ASSUME FscInv, NEW c \in Companies, Insurers!Publish(c)
  PROVE  FscInv'
<1>1. UNCHANGED <<onPage, rows, fsc, enrich, fscStatus, writes, overlapped, cleared, seen>>
  BY DEF Insurers!Publish
<1>2. FscTypesOK
  BY DEF FscInv
<1>3. eik' \in [Companies -> Numbers] /\ address' \in [Companies -> Nat]
  <2>1. eik \in [Companies -> Numbers] /\ address \in [Companies -> Nat] /\ 1 \in Numbers
    BY <1>2 DEF FscTypesOK, Numbers
  <2>2. CASE eik' = [eik EXCEPT ![c] = 1] /\ UNCHANGED address
    BY <2>1, <2>2
  <2>3. CASE address' = [address EXCEPT ![c] = @ + 1] /\ UNCHANGED eik
    BY <2>1, <2>3
  <2> QED
    BY <2>2, <2>3 DEF Insurers!Publish
<1>4. FscTypesOK'
  BY <1>1, <1>2, <1>3 DEF FscTypesOK
<1>5. TableStep
  BY <1>1 DEF TableStep
<1>6. \A q \in Workers : RunOK(q)'
  BY <1>1, <1>5, OthersKeep
<1> QED
  BY <1>1, <1>4, <1>6 DEF FscInv, Twins

LEMMA PausesKeep ==
  ASSUME FscInv, UNCHANGED <<onPage, eik, address, rows, fsc, enrich, fscStatus, writes,
                             overlapped, cleared, seen>>
  PROVE  FscInv'
<1>1. TableStep
  BY DEF TableStep
<1>2. \A q \in Workers : RunOK(q)'
  BY <1>1, OthersKeep
<1> QED
  BY <1>2 DEF FscInv, Twins, FscTypesOK

LEMMA StartStep ==
  ASSUME FscInv, NEW p \in Workers, Insurers!Start(p)
  PROVE  FscInv'
<1>1. FscTypesOK
  BY DEF FscInv
<1> PICK run : run = [Insurers!Idle EXCEPT !.pc = "scrape", !.at = 1]
  OBVIOUS
<1>2. Empty(run) /\ run.pc = "scrape"
  BY IdleIsEmpty DEF Insurers!Idle
<1>3. /\ fsc' = [fsc EXCEPT ![p] = run]
      /\ fscStatus' = [fscStatus EXCEPT ![p] = "running"]
      /\ seen' = [seen EXCEPT ![p] = {}]
      /\ UNCHANGED <<onPage, eik, address, rows, enrich, writes, overlapped, cleared>>
  BY DEF Insurers!Start
<1>4. TableStep
  BY <1>3 DEF TableStep
<1>5. fsc' \in [Workers -> FscRun] /\ fsc'[p] = run /\ fscStatus'[p] = "running" /\ seen'[p] = {}
  BY <1>1, <1>2, <1>3 DEF FscTypesOK, Empty
<1>6. FscTypesOK'
  BY <1>1, <1>3, <1>5 DEF FscTypesOK
<1>7. OneMoves(p)
  BY <1>1, <1>3 DEF OneMoves, FscTypesOK
<1>8. ReadOK(p)'
  <2>1. enrich[p] # None => FromTable(enrich[p].read, enrich[p].since)
    BY DEF FscInv, RunOK, ReadOK
  <2> QED
    BY <1>2, <1>3, <1>5, <2>1 DEF ReadOK, FromTable
<1>9. ScrapedOK(p)'
  BY <1>2, <1>5, FS_EmptySet DEF ScrapedOK, Empty, Distinct
<1>10. SeenOK(p)'
  BY <1>5 DEF SeenOK
<1> QED
  BY <1>4, <1>6, <1>7, <1>8, <1>9, <1>10, OneStep DEF RunOK

(* Advance, without a save. *)
LEMMA AdvanceStep ==
  ASSUME FscInv, NEW p \in Workers, fsc[p].pc = "scrape", Insurers!Advance(p, fsc[p]),
         UNCHANGED <<onPage, eik, address, rows, enrich, writes, overlapped, cleared, seen>>
  PROVE  FscInv'
<1>1. TableStep
  BY DEF TableStep
<1>2. FscTypesOK
  BY DEF FscInv
<1>3. PICK run : Empty(run) /\ Put(p, run)
  BY AdvanceIs
<1>4. \A k \in seen[p] : InTable(k)
  BY DEF FscInv, RunOK, SeenOK, ScrapedOK
<1>5. \A k \in seen[p] : InTable(k)'
  BY <1>4 DEF InTable
<1> QED
  BY <1>1, <1>2, <1>3, <1>5, EndKeeps DEF FscTypesOK

LEMMA FailStep ==
  ASSUME FscInv, NEW p \in Workers, Insurers!Fail(p),
         UNCHANGED <<onPage, eik, address, rows, enrich, writes, overlapped, cleared, seen>>
  PROVE  FscInv'
<1>1. TableStep
  BY DEF TableStep
<1>2. FscTypesOK
  BY DEF FscInv
<1>3. Insurers!Idle.pc = "idle"
  BY DEF Insurers!Idle
<1> QED
  BY <1>1, <1>2, <1>3, FailIs, EndKeeps DEF FscTypesOK

LEMMA ScrapeStep ==
  ASSUME FscInv, IsFiniteSet(Companies), None \notin Nat, NEW p \in Workers,
         Insurers!ScrapeCategory(p)
  PROVE  FscInv'
<1>1. FscTypesOK /\ fsc[p].pc = "scrape" /\ fsc[p].at \in 1..2 /\ fsc[p] \in FscRun
  BY DEF FscInv, FscTypesOK, RunOK, ScrapedOK, Insurers!ScrapeCategory
<1>2. PICK site \in SUBSET Companies :
        LET found == Insurers!enrichRows(fsc[p].at, site) IN
        \/ /\ found # {}
           /\ fsc' = [fsc EXCEPT ![p].pc = "find", ![p].scraped = found]
           /\ seen' = [seen EXCEPT ![p] = @ \cup {KeyOf(x) : x \in found}]
           /\ UNCHANGED fscStatus
        \/ Insurers!Advance(p, fsc[p]) /\ UNCHANGED seen
  BY DEF Insurers!ScrapeCategory, KeyOf
<1>3. UNCHANGED <<onPage, eik, address, rows, enrich, writes, overlapped, cleared>>
  BY DEF Insurers!ScrapeCategory
<1>4. CASE Insurers!Advance(p, fsc[p]) /\ UNCHANGED seen
  BY <1>1, <1>3, <1>4, AdvanceStep
<1>5. ASSUME fsc' = [fsc EXCEPT ![p].pc = "find",
                                ![p].scraped = Insurers!enrichRows(fsc[p].at, site)],
             seen' = [seen EXCEPT ![p] = @ \cup {KeyOf(x) : x \in Insurers!enrichRows(fsc[p].at, site)}],
             UNCHANGED fscStatus
      PROVE  FscInv'
  <2> PICK found : found = Insurers!enrichRows(fsc[p].at, site)
    OBVIOUS
  <2>1. found \in SUBSET Scraped /\ IsFiniteSet(found) /\ Distinct(found)
    BY <1>1, PageRows
  <2>2. fsc' = [fsc EXCEPT ![p] = [[fsc[p] EXCEPT !.pc = "find"] EXCEPT !.scraped = found]]
    BY <1>1, <1>5 DEF FscTypesOK
  <2> PICK run : run = [[fsc[p] EXCEPT !.pc = "find"] EXCEPT !.scraped = found]
    OBVIOUS
  <2>3. run \in FscRun /\ run.pc = "find" /\ run.scraped = found
    BY <1>1, <2>1 DEF FscRun, FscStates
  <2>4. fsc' = [fsc EXCEPT ![p] = run]
    BY <2>2
  <2>5. fsc' \in [Workers -> FscRun] /\ fsc'[p] = run
    BY <1>1, <2>3, <2>4 DEF FscTypesOK
  <2>6. DOMAIN seen' = Workers /\ (\A q \in Workers : q # p => seen'[q] = seen[q])
        /\ seen'[p] = seen[p] \cup {KeyOf(x) : x \in found}
    BY <1>1, <1>5 DEF FscTypesOK
  <2>7. FscTypesOK'
    BY <1>1, <1>3, <1>5, <2>5, <2>6 DEF FscTypesOK
  <2>8. OneMoves(p)
    BY <1>1, <1>3, <1>5, <2>4, <2>6 DEF OneMoves, FscTypesOK
  <2>9. ReadOK(p)'
    <3>1. enrich[p] # None => FromTable(enrich[p].read, enrich[p].since)
      BY DEF FscInv, RunOK, ReadOK
    <3> QED
      BY <1>3, <2>3, <2>5, <3>1 DEF ReadOK, FromTable
  <2>10. ScrapedOK(p)'
    BY <2>1, <2>3, <2>5 DEF ScrapedOK, Distinct, KeyOf, Insurers!getDedupKey
  <2>11. SeenOK(p)'
    <3>1. fscStatus[p] # "success" /\ \A k \in seen[p] : InTable(k)
      BY <1>1 DEF FscInv, RunOK, SeenOK, ScrapedOK
    <3>2. \A k \in seen'[p] : InTable(k)' \/ \E x \in found : KeyOf(x) = k
      BY <1>3, <2>6, <3>1 DEF InTable
    <3> QED
      BY <1>5, <2>3, <2>5, <3>1, <3>2 DEF SeenOK
  <2>12. TableStep
    BY <1>3 DEF TableStep
  <2> QED
    BY <2>7, <2>8, <2>9, <2>10, <2>11, <2>12, OneStep DEF RunOK
<1> QED
  BY <1>2, <1>4, <1>5

LEMMA PageFailsStep ==
  ASSUME FscInv, NEW p \in Workers, Insurers!PageFails(p)
  PROVE  FscInv'
BY AdvanceStep, FailStep DEF Insurers!PageFails

LEMMA FindStep ==
  ASSUME FscInv, NEW p \in Workers, Insurers!FindExisting(p)
  PROVE  FscInv'
<1>1. FscTypesOK /\ fsc[p] \in FscRun /\ fsc[p].pc = "find"
  BY DEF FscInv, FscTypesOK, Insurers!FindExisting
<1>2. UNCHANGED <<onPage, eik, address, rows, enrich, fscStatus, writes, overlapped, cleared,
                  seen>>
  BY DEF Insurers!FindExisting
<1> PICK run : run = [[[fsc[p] EXCEPT !.pc = "save"] EXCEPT !.read = rows] EXCEPT !.since = writes]
  OBVIOUS
<1>3. fsc' = [fsc EXCEPT ![p] = run]
  BY <1>1 DEF Insurers!FindExisting, FscTypesOK
<1>4. /\ run \in FscRun /\ run.pc = "save" /\ run.scraped = fsc[p].scraped
      /\ run.read = rows /\ run.since = writes
  <2>1. rows \in Seq(Entity) /\ writes \in Nat /\ "save" \in FscStates
    BY <1>1 DEF FscTypesOK, FscStates
  <2> QED
    BY <1>1, <2>1 DEF FscRun
<1>5. fsc' \in [Workers -> FscRun] /\ fsc'[p] = run
  BY <1>1, <1>3, <1>4 DEF FscTypesOK
<1>6. FscTypesOK'
  BY <1>1, <1>2, <1>5 DEF FscTypesOK
<1>7. OneMoves(p)
  BY <1>1, <1>2, <1>3 DEF OneMoves, FscTypesOK
<1>8. ReadOK(p)'
  <2>1. enrich[p] # None => FromTable(enrich[p].read, enrich[p].since)
    BY DEF FscInv, RunOK, ReadOK
  <2>2. FromTable(rows, writes)
    BY <1>1 DEF FromTable, FscTypesOK
  <2> QED
    BY <1>2, <1>4, <1>5, <2>1, <2>2 DEF ReadOK, FromTable
<1>9. ScrapedOK(p)'
  <2>1. IsFiniteSet(fsc[p].scraped) /\ Distinct(fsc[p].scraped)
    BY DEF FscInv, RunOK, ScrapedOK
  <2> QED
    BY <1>4, <1>5, <2>1 DEF ScrapedOK, Distinct, KeyOf, Insurers!getDedupKey
<1>10. SeenOK(p)'
  <2>1. /\ fscStatus[p] # "success"
        /\ \A k \in seen[p] : InTable(k) \/ \E x \in fsc[p].scraped : KeyOf(x) = k
    BY <1>1 DEF FscInv, RunOK, SeenOK
  <2> QED
    BY <1>2, <1>4, <1>5, <2>1 DEF SeenOK, InTable
<1>11. TableStep
  BY <1>2 DEF TableStep
<1> QED
  BY <1>6, <1>7, <1>8, <1>9, <1>10, <1>11, OneStep DEF RunOK

(* The save of a category: what was scraped of it is in the table then. *)
LEMMA SaveStep ==
  ASSUME FscInv, None \notin Nat, NEW p \in Workers, Insurers!SaveCategory(p)
  PROVE  FscInv'
<1>1. FscTypesOK /\ fsc[p] \in FscRun /\ fsc[p].pc = "save"
  BY DEF FscInv, FscTypesOK, Insurers!SaveCategory
<1> PICK read : read = fsc[p].read
  OBVIOUS
<1> PICK scraped : scraped = fsc[p].scraped
  OBVIOUS
<1> PICK times : times = fsc[p].since
  OBVIOUS
<1>2. /\ read \in Seq(Entity) /\ scraped \in SUBSET Scraped /\ times \in Nat
      /\ FromTable(read, times) /\ IsFiniteSet(scraped) /\ Distinct(scraped)
      /\ fscStatus[p] # "success"
      /\ \A k \in seen[p] : InTable(k) \/ \E x \in scraped : KeyOf(x) = k
  BY <1>1 DEF FscInv, RunOK, ReadOK, ScrapedOK, SeenOK, FscRun
<1> DEFINE merged == Insurers!Merged(read, scraped)
           new == Insurers!Inserted(read, scraped)
           kept == [i \in DOMAIN rows |-> IF i \in DOMAIN merged THEN merged[i] ELSE rows[i]]
           refused == \E x \in new : x.eik # None /\ Insurers!Existing(rows, x) # {}
<1>3. UNCHANGED <<onPage, eik, address, enrich, seen>>
  BY DEF Insurers!SaveCategory
<1>4. CASE refused
  <2>1. Insurers!Fail(p) /\ UNCHANGED <<rows, writes, overlapped, cleared>>
    BY <1>4 DEF Insurers!SaveCategory
  <2> QED
    BY <1>3, <2>1, FailStep
<1>5. CASE ~refused
  <2>1. /\ rows' = kept \o Insurers!NewEntities(new)
        /\ writes' = writes + 1
        /\ overlapped' = (overlapped \/ times # writes)
        /\ cleared' = (cleared \/ \E i \in DOMAIN rows : Insurers!Lost(rows[i], kept[i]))
        /\ Insurers!Advance(p, fsc[p])
    BY <1>5 DEF Insurers!SaveCategory
  <2> PICK news : news = Insurers!NewEntities(new)
    OBVIOUS
  <2>2. new \in SUBSET scraped
    BY DEF Insurers!Inserted
  <2>3. Fresh(news, new) /\ Distinct(new)
    <3>1. new \in SUBSET Scraped /\ IsFiniteSet(new)
      BY <1>2, <2>2, FS_Subset
    <3>2. Distinct(new)
      BY <1>2, <2>2 DEF Distinct
    <3> QED
      BY <3>1, <3>2, NewEntitiesAre
  <2>4. /\ Keeps(kept)
        /\ times = writes => \A i \in DOMAIN rows : ~Insurers!Lost(rows[i], kept[i])
    BY <1>1, <1>2, MergedKeeps
  <2>5. \A x \in new, i \in DOMAIN rows :
          KeyOf(x) = KeyOf(rows[i]) => x.eik = None /\ times # writes
    <3> SUFFICES ASSUME NEW x \in new, NEW i \in DOMAIN rows, KeyOf(x) = KeyOf(rows[i])
                 PROVE  x.eik = None /\ times # writes
      OBVIOUS
    <3>1. i \in Insurers!Existing(rows, x)
      BY DEF Insurers!Existing, KeyOf
    <3>2. x.eik = None
      BY <1>5, <3>1
    <3>3. Insurers!Existing(read, x) = {}
      BY DEF Insurers!Inserted
    <3>4. read # rows
      BY <3>1, <3>3
    <3> QED
      BY <1>2, <3>2, <3>4 DEF FromTable
  <2>6. ASSUME NEW x \in scraped, x \notin new
        PROVE  InTable(KeyOf(x))
    <3>1. PICK i \in DOMAIN read : KeyOf(read[i]) = KeyOf(x)
      BY <2>6 DEF Insurers!Inserted, Insurers!Existing, KeyOf
    <3> QED
      BY <1>2, <3>1 DEF FromTable, InTable
  <2> PICK fresh : fresh = new
    OBVIOUS
  <2> PICK made : made = kept
    OBVIOUS
  <2> HIDE DEF merged, new, kept, refused
  <2>7. /\ Fresh(news, fresh) /\ Distinct(fresh) /\ Keeps(made) /\ rows' = made \o news
        /\ overlapped' = (overlapped \/ times # writes)
        /\ cleared' = (cleared \/ \E i \in DOMAIN rows : Insurers!Lost(rows[i], made[i]))
        /\ times = writes => \A i \in DOMAIN rows : ~Insurers!Lost(rows[i], made[i])
    BY <2>1, <2>3, <2>4
  <2>8. \A r, s : KeyOf(r) = KeyOf(s) => r.eik = s.eik
    BY DEF KeyOf, Insurers!getDedupKey
  <2>9. \A n \in DOMAIN news, i \in DOMAIN rows :
          KeyOf(news[n]) = KeyOf(rows[i]) => news[n].eik = None /\ overlapped'
    <3> SUFFICES ASSUME NEW n \in DOMAIN news, NEW i \in DOMAIN rows,
                        KeyOf(news[n]) = KeyOf(rows[i])
                 PROVE  news[n].eik = None /\ times # writes
      BY <2>7
    <3>1. PICK x \in fresh : KeyOf(news[n]) = KeyOf(x)
      BY <2>7 DEF Fresh
    <3>2. x.eik = None /\ times # writes
      BY <2>5, <3>1
    <3> QED
      BY <2>8, <3>1, <3>2
  <2>10. Twins'
    BY <2>7, <2>9, TwinsStep DEF Fresh
  <2>11. /\ rows' \in Seq(Entity)
         /\ \A i \in DOMAIN rows : i \in DOMAIN rows' /\ rows'[i] = made[i]
         /\ \A n \in DOMAIN news : \E i \in DOMAIN rows' : rows'[i] = news[n]
    <3>1. made \in Seq(Entity) /\ news \in Seq(Entity) /\ DOMAIN made = DOMAIN rows
      BY <2>7 DEF Keeps, Fresh
    <3>2. /\ made \o news \in Seq(Entity)
          /\ \A i \in DOMAIN made : i \in DOMAIN (made \o news) /\ (made \o news)[i] = made[i]
          /\ \A n \in DOMAIN news : \E i \in DOMAIN (made \o news) : (made \o news)[i] = news[n]
      BY <3>1, AppendedAre
    <3> QED
      BY <2>7, <3>1, <3>2
  <2>12. Grows(rows')
    BY <2>7, <2>11 DEF Grows, Keeps
  <2>13. overlapped' \in BOOLEAN /\ cleared' \in BOOLEAN /\ (cleared' => overlapped')
    BY <2>7 DEF FscInv
  <2>14. TableStep
    BY <2>1, <2>10, <2>12, <2>13 DEF TableStep
  <2>15. \A k \in seen[p] : InTable(k)'
    <3> SUFFICES ASSUME NEW k \in seen[p] PROVE InTable(k)'
      OBVIOUS
    <3>1. CASE InTable(k)
      BY <2>12, <3>1, KeysStay
    <3>2. CASE ~InTable(k)
      <4>1. PICK x \in scraped : KeyOf(x) = k
        BY <1>2, <3>2
      <4>2. x \in fresh
        BY <2>6, <3>2, <4>1
      <4>3. PICK n \in DOMAIN news : KeyOf(news[n]) = KeyOf(x)
        BY <2>7, <4>2 DEF Fresh
      <4>4. PICK i \in DOMAIN rows' : rows'[i] = news[n]
        BY <2>11
      <4>5. KeyOf(rows'[i]) = k
        BY <4>1, <4>3, <4>4
      <4> QED
        BY <4>5 DEF InTable, KeyOf, Insurers!getDedupKey
    <3> QED
      BY <3>1, <3>2
  <2>16. PICK run : Empty(run) /\ Put(p, run)
    BY <1>1, <2>1, AdvanceIs
  <2>17. writes' \in Nat
    BY <1>1, <2>1 DEF FscTypesOK
  <2> QED
    BY <1>3, <2>11, <2>13, <2>14, <2>15, <2>16, <2>17, EndKeeps
<1> QED
  BY <1>4, <1>5

LEMMA EnrichStep ==
  ASSUME FscInv, None \notin Nat, NEW p \in Workers, Insurers!enrichTrustpilotAll(p)
  PROVE  FscInv'
<1>1. FscTypesOK
  BY DEF FscInv
<1>2. UNCHANGED <<onPage, eik, address, rows, fsc, fscStatus, writes, overlapped, cleared, seen>>
  BY DEF Insurers!enrichTrustpilotAll
<1> PICK e : e = [read |-> rows, since |-> writes]
  OBVIOUS
<1>3. e \in Enrichment /\ e.read = rows /\ e.since = writes
  BY <1>1 DEF Enrichment, FscTypesOK
<1>4. /\ DOMAIN enrich' = Workers /\ enrich'[p] = e
      /\ \A q \in Workers : q # p => enrich'[q] = enrich[q]
  BY <1>1 DEF Insurers!enrichTrustpilotAll, FscTypesOK
<1>5. FscTypesOK'
  BY <1>1, <1>2, <1>3, <1>4 DEF FscTypesOK
<1>6. OneMoves(p)
  BY <1>2, <1>4 DEF OneMoves
<1>7. ReadOK(p)'
  <2>1. fsc[p].pc = "save" => FromTable(fsc[p].read, fsc[p].since)
    BY DEF FscInv, RunOK, ReadOK
  <2>2. FromTable(rows, writes)
    BY <1>1 DEF FromTable, FscTypesOK
  <2> QED
    BY <1>2, <1>3, <1>4, <2>1, <2>2 DEF ReadOK, FromTable
<1>8. ScrapedOK(p)' /\ SeenOK(p)'
  <2>1. ScrapedOK(p) /\ SeenOK(p)
    BY DEF FscInv, RunOK
  <2> QED
    BY <1>2, <2>1 DEF ScrapedOK, SeenOK, InTable
<1>9. TableStep
  BY <1>2 DEF TableStep
<1> QED
  BY <1>5, <1>6, <1>7, <1>8, <1>9, OneStep DEF RunOK

(* A synchronisation goes on while its process ends an enrichment. *)
LEMMA RunGoesOn ==
  ASSUME FscInv, TableStep, NEW p \in Workers, UNCHANGED <<fsc, fscStatus, seen>>,
         enrich'[p] = None
  PROVE  RunOK(p)'
<1>1. RunOK(p) /\ writes \in Nat /\ fsc[p] \in FscRun
  BY DEF FscInv, FscTypesOK
<1> PICK run : run = fsc[p]
  OBVIOUS
<1>2. run.pc = "save" => FromTable(run.read, run.since)'
  <2>1. run.since \in Nat /\ (run.pc = "save" => FromTable(run.read, run.since))
    BY <1>1 DEF FscRun, RunOK, ReadOK
  <2>2. CASE rows' = rows /\ writes' = writes
    BY <2>1, <2>2, TableStays
  <2>3. CASE Grows(rows') /\ writes' = writes + 1
    BY <1>1, <2>1, <2>3, TableGrows
  <2> QED
    BY <2>2, <2>3 DEF TableStep
<1>3. \A k : InTable(k) => InTable(k)'
  <2>1. CASE rows' = rows
    BY <2>1 DEF InTable
  <2>2. CASE Grows(rows')
    BY <2>2, KeysStay
  <2> QED
    BY <2>1, <2>2 DEF TableStep
<1>4. ReadOK(p)'
  BY <1>2 DEF ReadOK
<1>5. ScrapedOK(p)'
  BY <1>1 DEF RunOK, ScrapedOK
<1>6. SeenOK(p)'
  BY <1>1, <1>3 DEF RunOK, SeenOK
<1> QED
  BY <1>4, <1>5, <1>6 DEF RunOK

LEMMA TrustpilotStep ==
  ASSUME FscInv, None \notin Nat, NEW p \in Workers, Insurers!SaveTrustpilot(p)
  PROVE  FscInv'
<1>1. FscTypesOK /\ enrich[p] \in Enrichment
  BY DEF FscInv, FscTypesOK, Insurers!SaveTrustpilot
<1> PICK read : read = enrich[p].read
  OBVIOUS
<1> PICK times : times = enrich[p].since
  OBVIOUS
<1>2. read \in Seq(Entity) /\ times \in Nat /\ FromTable(read, times)
  BY <1>1 DEF FscInv, RunOK, ReadOK, Enrichment, Insurers!SaveTrustpilot
<1>3. UNCHANGED <<onPage, eik, address, fsc, fscStatus, seen>>
  BY DEF Insurers!SaveTrustpilot
<1>4. PICK known \in SUBSET DOMAIN read :
        LET kept == Insurers!Enriched(read, known) IN
        \/ UNCHANGED <<rows, writes, overlapped, cleared>>
        \/ /\ rows' = kept /\ writes' = writes + 1
           /\ overlapped' = (overlapped \/ times # writes)
           /\ cleared' = (cleared \/ \E i \in DOMAIN rows : Insurers!Lost(rows[i], kept[i]))
  BY DEF Insurers!SaveTrustpilot
<1> PICK made : made = Insurers!Enriched(read, known)
  OBVIOUS
<1>5. /\ Keeps(made)
      /\ times = writes => \A i \in DOMAIN rows : ~Insurers!Lost(rows[i], made[i])
  BY <1>1, <1>2, EnrichedKeeps
<1>6. ASSUME rows' = made, writes' = writes + 1, overlapped' = (overlapped \/ times # writes),
             cleared' = (cleared \/ \E i \in DOMAIN rows : Insurers!Lost(rows[i], made[i]))
      PROVE  TableStep
  <2>1. Grows(rows')
    BY <1>5, <1>6 DEF Grows, Keeps
  <2>2. overlapped' \in BOOLEAN /\ cleared' \in BOOLEAN /\ (cleared' => overlapped')
        /\ (overlapped => overlapped')
    BY <1>5, <1>6 DEF FscInv
  <2>3. <<>> \in Seq(Entity) /\ DOMAIN <<>> = {} /\ made \in Seq(Entity)
    BY <1>5 DEF Keeps
  <2>4. rows' = made \o <<>>
    BY <1>6, <2>3, ConcatEmptySeq
  <2>5. Twins'
    BY <1>5, <2>2, <2>3, <2>4, TwinsStep
  <2> QED
    BY <1>6, <2>1, <2>2, <2>5 DEF TableStep
<1>7. TableStep
  <2>1. CASE UNCHANGED <<rows, writes, overlapped, cleared>>
    BY <2>1 DEF TableStep
  <2> QED
    BY <1>4, <1>6, <2>1
<1>8. /\ DOMAIN enrich' = Workers /\ enrich'[p] = None
      /\ \A q \in Workers : q # p => enrich'[q] = enrich[q]
  BY <1>1 DEF Insurers!SaveTrustpilot, FscTypesOK
<1>9. /\ rows' \in Seq(Entity) /\ writes' \in Nat
      /\ overlapped' \in BOOLEAN /\ cleared' \in BOOLEAN
  BY <1>1, <1>7 DEF TableStep, Grows, FscTypesOK
<1>10. FscTypesOK'
  BY <1>1, <1>3, <1>8, <1>9 DEF FscTypesOK
<1>11. OneMoves(p)
  BY <1>3, <1>8 DEF OneMoves
<1>12. RunOK(p)'
  BY <1>3, <1>7, <1>8, RunGoesOn
<1> QED
  BY <1>7, <1>10, <1>11, <1>12, OneStep

LEMMA CrashStep ==
  ASSUME FscInv, NEW p \in Workers, Insurers!Crash(p)
  PROVE  FscInv'
<1>1. FscTypesOK
  BY DEF FscInv
<1> PICK run : run = Insurers!Idle
  OBVIOUS
<1>2. Empty(run) /\ run.pc = "idle"
  BY IdleIsEmpty DEF Insurers!Idle
<1>3. /\ fsc' = [fsc EXCEPT ![p] = run]
      /\ fscStatus' = [fscStatus EXCEPT ![p] = "idle"]
      /\ enrich' = [enrich EXCEPT ![p] = None]
      /\ UNCHANGED <<onPage, eik, address, rows, writes, overlapped, cleared, seen>>
  BY DEF Insurers!Crash
<1>4. TableStep
  BY <1>3 DEF TableStep
<1>5. fsc' \in [Workers -> FscRun] /\ fsc'[p] = run
  BY <1>1, <1>2, <1>3 DEF FscTypesOK, Empty
<1>6. fscStatus'[p] = "idle" /\ enrich'[p] = None /\ DOMAIN enrich' = Workers
      /\ \A q \in Workers : q # p => enrich'[q] = enrich[q]
  BY <1>1, <1>3 DEF FscTypesOK
<1>7. FscTypesOK'
  BY <1>1, <1>3, <1>5, <1>6 DEF FscTypesOK
<1>8. OneMoves(p)
  BY <1>1, <1>3, <1>6 DEF OneMoves, FscTypesOK
<1>9. ReadOK(p)'
  BY <1>2, <1>5, <1>6 DEF ReadOK
<1>10. ScrapedOK(p)'
  BY <1>2, <1>5, FS_EmptySet DEF ScrapedOK, Empty, Distinct
<1>11. SeenOK(p)'
  BY <1>2, <1>5, <1>6 DEF SeenOK
<1> QED
  BY <1>4, <1>7, <1>8, <1>9, <1>10, <1>11, OneStep DEF RunOK

LEMMA FscInit == Insurers!Init => FscInv
<1> SUFFICES ASSUME Insurers!Init PROVE FscInv
  OBVIOUS
<1>1. Empty(Insurers!Idle) /\ Insurers!Idle.pc = "idle"
  BY IdleIsEmpty DEF Insurers!Idle
<1>2. /\ rows = <<>> /\ writes = 0 /\ overlapped = FALSE /\ cleared = FALSE
      /\ fsc = [p \in Workers |-> Insurers!Idle]
      /\ enrich = [p \in Workers |-> None]
      /\ fscStatus = [p \in Workers |-> "idle"] /\ seen = [p \in Workers |-> {}]
      /\ eik \in [Companies -> {None, 1}] /\ address = [c \in Companies |-> 1]
      /\ onPage \in [1..2 -> SUBSET Companies]
  BY DEF Insurers!Init
<1>3. <<>> \in Seq(Entity) /\ DOMAIN <<>> = {}
  OBVIOUS
<1>4. fsc \in [Workers -> FscRun] /\ \A p \in Workers : fsc[p] = Insurers!Idle
  BY <1>1, <1>2 DEF Empty
<1>5. FscTypesOK
  BY <1>2, <1>3, <1>4 DEF FscTypesOK, Numbers
<1>6. Twins
  BY <1>2, <1>3 DEF Twins
<1>7. ASSUME NEW p \in Workers PROVE RunOK(p)
  <2>1. ReadOK(p)
    BY <1>1, <1>2, <1>4 DEF ReadOK
  <2>2. ScrapedOK(p)
    BY <1>1, <1>4, FS_EmptySet DEF ScrapedOK, Empty, Distinct
  <2>3. SeenOK(p)
    BY <1>1, <1>2, <1>4 DEF SeenOK
  <2> QED
    BY <2>1, <2>2, <2>3 DEF RunOK
<1> QED
  BY <1>2, <1>5, <1>6, <1>7 DEF FscInv

LEMMA FscKeeps ==
  ASSUME FscInv, [Insurers!Next]_Insurers!vars, IsFiniteSet(Companies), None \notin Nat
  PROVE  FscInv'
<1>1. ASSUME NEW c \in Companies, Insurers!Publish(c) PROVE FscInv'
  BY <1>1, PublishStep
<1>2. ASSUME NEW p \in Workers, Insurers!handleDailySync(p) PROVE FscInv'
  BY <1>2, StartStep DEF Insurers!handleDailySync
<1>3. ASSUME NEW p \in Workers, Insurers!syncFromFsc(p) PROVE FscInv'
  BY <1>3, StartStep, PausesKeep DEF Insurers!syncFromFsc
<1>4. ASSUME NEW p \in Workers, Insurers!ScrapeCategory(p) PROVE FscInv'
  BY <1>4, ScrapeStep
<1>5. ASSUME NEW p \in Workers, Insurers!PageFails(p) PROVE FscInv'
  BY <1>5, PageFailsStep
<1>6. ASSUME NEW p \in Workers, Insurers!FindExisting(p) PROVE FscInv'
  BY <1>6, FindStep
<1>7. ASSUME NEW p \in Workers, Insurers!SaveCategory(p) PROVE FscInv'
  BY <1>7, SaveStep
<1>8. ASSUME NEW p \in Workers, Insurers!enrichTrustpilotAll(p) PROVE FscInv'
  BY <1>8, EnrichStep
<1>9. ASSUME NEW p \in Workers, Insurers!SaveTrustpilot(p) PROVE FscInv'
  BY <1>9, TrustpilotStep
<1>10. ASSUME NEW p \in Workers, Insurers!Crash(p) PROVE FscInv'
  BY <1>10, CrashStep
<1>11. CASE UNCHANGED Insurers!vars
  BY <1>11, PausesKeep DEF Insurers!vars
<1> QED
  BY <1>1, <1>2, <1>3, <1>4, <1>5, <1>6, <1>7, <1>8, <1>9, <1>10, <1>11 DEF Insurers!Next

(* What a run that reports success has read is in the table. *)
LEMMA FscConcludes == FscInv => Insurers!RegisterExplained
<1> SUFFICES ASSUME FscInv PROVE Insurers!RegisterExplained
  OBVIOUS
<1>1. Insurers!FilledStays
  BY DEF FscInv, Insurers!FilledStays
<1>2. Insurers!NoTwins
  BY DEF FscInv, Twins, Insurers!NoTwins, KeyOf
<1>3. Insurers!SuccessIsWhole
  <2> SUFFICES ASSUME NEW p \in Workers, fscStatus[p] = "success", NEW k \in seen[p]
               PROVE  InTable(k)
    BY DEF Insurers!SuccessIsWhole, InTable, KeyOf
  <2> QED
    BY DEF FscInv, RunOK, SeenOK, ScrapedOK
<1> QED
  BY <1>1, <1>2, <1>3 DEF Insurers!RegisterExplained

(* What the office's register of insurers holds is neither lost nor
   replaced unless two operations save over each other, a company has one
   row unless it has no number and they do, and a synchronisation that
   reports success has put in the table all it read (InsurersService). *)
THEOREM RegisterIsExplained ==
  ASSUME IsFiniteSet(Companies), None \notin Nat
  PROVE  Insurers!Spec => []Insurers!RegisterExplained
<1>1. FscInv /\ [Insurers!Next]_Insurers!vars => FscInv'
  BY FscKeeps
<1> QED
  BY <1>1, FscInit, FscConcludes, PTL DEF Insurers!Spec

-----------------------------------------------------------------------------
(***************************************************************************)
(* The register's pages.  The office's queries: what they hold, whether    *)
(* they are asked, and what has been answered but not arrived.             *)
(***************************************************************************)
QueryOf(S) == [data : S \union {None}, asked : BOOLEAN, answer : S \union {None}]
Pictures == [Entries -> Logos \union {None}]
SyncSteps == {"none", "waiting", "success", "error"}

PagesTypesOK ==
  /\ logos \in Seq(Pictures) /\ Len(logos) >= 1
  /\ view \in Entries \union {None}
  /\ list \in QueryOf(Nat) /\ progress \in QueryOf(BOOLEAN)
  /\ detail \in [Entries -> QueryOf(Nat)]
  /\ asked \in [{"here", "before"} -> SyncSteps]
  /\ since \in Nat /\ opened \in Nat /\ busy \in BOOLEAN

(* A page that is left waits for no answer, and says nothing. *)
LeftInv ==
  /\ view # None => asked["here"] = "none" /\ message # "synced"
  /\ since <= Len(logos)

(* What has arrived, or is about to, is of the table after the run. *)
UpToDate(x) == x = 0 \/ (x # None /\ x >= since)
ListInv ==
  view = None /\ message = "synced" =>
    \/ "list" \in excused
    \/ /\ list.answer = None \/ UpToDate(list.answer)
       /\ list.asked \/ UpToDate(list.data)

(* A progress that nobody asks again, and that may be of a run that is over. *)
ShownInv ==
  ~polling =>
    \/ "progress" \in excused
    \/ progress.answer # TRUE /\ (progress.asked \/ progress.data # TRUE)

PagesInv ==
  PagesTypesOK /\ LeftInv /\ ListInv /\ ShownInv /\ Pages!FallbackExplained
  /\ Pages!DetailFollows

NamesApart == None \notin Nat /\ None \notin BOOLEAN /\ None \notin Entries /\ Entries \intersect {"list", "progress"} = {}

(* What becomes of a query. *)
LEMMA QuerySteps ==
  ASSUME NEW S, NEW q \in QueryOf(S), NEW b
  PROVE  /\ Pages!NoQuery \in QueryOf(S)
         /\ Pages!AskFor(q) \in QueryOf(S) /\ Pages!AskFor(q).data = q.data
         /\ Pages!AskFor(q).asked /\ Pages!AskFor(q).answer = None
         /\ Pages!Invalidate(q, b) \in QueryOf(S) /\ Pages!Invalidate(q, b).data = q.data
         /\ b => Pages!Invalidate(q, b).asked
         /\ b /\ ~Pages!IsFirst(q) => Pages!Invalidate(q, b).answer = None
         /\ ~b => Pages!Invalidate(q, b) = q
         /\ Pages!Mount(q, b) \in QueryOf(S) /\ Pages!Mount(q, b).data = q.data
         /\ q.asked => Pages!Mount(q, b) = q
         /\ Pages!Mount(q, b).answer = None \/ Pages!Mount(q, b) = q
         /\ b => Pages!Mount(q, b).asked
         /\ Pages!Mount(q, b) = q \/ Pages!Mount(q, b).asked
         /\ Pages!Failed(q) \in QueryOf(S) /\ Pages!Failed(q).data = q.data
         /\ Pages!Failed(q).answer = None /\ ~Pages!Failed(q).asked
<1>1. Pages!NoQuery \in QueryOf(S)
  BY DEF Pages!NoQuery, QueryOf
<1>2. /\ Pages!AskFor(q) \in QueryOf(S) /\ Pages!AskFor(q).data = q.data
      /\ Pages!AskFor(q).asked /\ Pages!AskFor(q).answer = None
  BY DEF Pages!AskFor, QueryOf
<1>3. /\ Pages!Failed(q) \in QueryOf(S) /\ Pages!Failed(q).data = q.data
      /\ Pages!Failed(q).answer = None /\ ~Pages!Failed(q).asked
  BY DEF Pages!Failed, QueryOf
<1>4. /\ Pages!Invalidate(q, b) \in QueryOf(S) /\ Pages!Invalidate(q, b).data = q.data
      /\ b => Pages!Invalidate(q, b).asked
      /\ b /\ ~Pages!IsFirst(q) => Pages!Invalidate(q, b).answer = None
      /\ ~b => Pages!Invalidate(q, b) = q
  BY <1>2 DEF Pages!Invalidate, Pages!IsFirst
<1>5. /\ Pages!Mount(q, b) \in QueryOf(S) /\ Pages!Mount(q, b).data = q.data
      /\ q.asked => Pages!Mount(q, b) = q
      /\ Pages!Mount(q, b).answer = None \/ Pages!Mount(q, b) = q
      /\ b => Pages!Mount(q, b).asked
      /\ Pages!Mount(q, b) = q \/ Pages!Mount(q, b).asked
  BY <1>2 DEF Pages!Mount
<1> QED
  BY <1>1, <1>2, <1>3, <1>4, <1>5

LEMMA AnswerSteps ==
  ASSUME NEW S, NEW q \in QueryOf(S), NEW a \in S \union {None}
  PROVE  /\ Pages!Answered(q, a) \in QueryOf(S) /\ Pages!Answered(q, a).data = q.data
         /\ Pages!Answered(q, a).asked = q.asked /\ Pages!Answered(q, a).answer = a
         /\ Pages!Arrived(q) \in QueryOf(S) /\ Pages!Arrived(q).data = q.answer
         /\ ~Pages!Arrived(q).asked /\ Pages!Arrived(q).answer = None
<1>1. /\ Pages!Answered(q, a) \in QueryOf(S) /\ Pages!Answered(q, a).data = q.data
      /\ Pages!Answered(q, a).asked = q.asked /\ Pages!Answered(q, a).answer = a
  BY DEF Pages!Answered, QueryOf
<1>2. /\ Pages!Arrived(q) \in QueryOf(S) /\ Pages!Arrived(q).data = q.answer
      /\ ~Pages!Arrived(q).asked /\ Pages!Arrived(q).answer = None
  BY DEF Pages!Arrived, Pages!NoQuery, QueryOf
<1> QED
  BY <1>1, <1>2

-----------------------------------------------------------------------------
PagesStep ==
  \/ Pages!StartElsewhere \/ Pages!Save \/ Pages!RunEnds \/ Pages!SyncFsc
  \/ Pages!EnrichTrustpilot \/ Pages!Filter \/ Pages!BackToList
  \/ Pages!Poll \/ Pages!ProgressAnswered \/ Pages!ListAnswered \/ Pages!ProgressArrives
  \/ Pages!ListArrives \/ Pages!Fail \/ Pages!MinutePasses \/ Pages!Focus
  \/ \E r \in {"here", "before"} : Pages!AnswerLost(r) \/ Pages!SyncSettled(r)
  \/ \E c \in Entries : Pages!OpenDetail(c) \/ Pages!DetailArrives(c) \/ Pages!LogoFails(c)
  \/ UNCHANGED <<logos, busy, view, message, polling, list, progress, detail, asked, since,
                 opened, stale, excused>>

LEMMA PagesSteps ==
  ASSUME PagesTypesOK, [Pages!Next]_Pages!vars
  PROVE  PagesStep
<1>1. CASE Pages!Next
  BY <1>1 DEF Pages!Next, Pages!QueryNext, PagesStep, PagesTypesOK
<1>2. CASE UNCHANGED Pages!vars
  BY <1>2 DEF Pages!vars, Pages!serverVars, Pages!registerVars, Pages!queryVars, Pages!ghosts,
              PagesStep
<1> QED
  BY <1>1, <1>2

(* What is done with the answer of a synchronisation. *)
LEMMA SettledKeeps ==
  ASSUME NEW r, Pages!SyncSettled(r)
  PROVE  /\ \A n : n \notin {"list", "progress"} => (n \in excused <=> n \in excused')
         /\ polling /\ Pages!IsFirst(progress) => "progress" \in excused'
         /\ ~polling => ("progress" \in excused <=> "progress" \in excused')
         /\ asked[r] = "success" /\ view = None /\ Pages!IsFirst(list) => "list" \in excused'
         /\ asked[r] # "success" => ("list" \in excused <=> "list" \in excused')
BY DEF Pages!SyncSettled, Pages!Excused

(* Nothing is asked for by a page that is left. *)
LEMMA LeftKeeps ==
  ASSUME PagesInv, NamesApart, PagesStep
  PROVE  LeftInv'
<1> USE DEF Pages!Others, Pages!serverVars, Pages!registerVars, Pages!queryVars, Pages!ghosts
<1> USE DEF PagesInv, LeftInv, PagesTypesOK
<1>0. Len(logos) \in Nat
  OBVIOUS
<1>1. ASSUME Pages!StartElsewhere PROVE LeftInv'
  BY <1>1, <1>0 DEF Pages!StartElsewhere, SyncSteps
<1>2. ASSUME Pages!Save PROVE LeftInv'
  BY <1>2, <1>0 DEF Pages!Save, SyncSteps
<1>3. ASSUME Pages!RunEnds PROVE LeftInv'
  BY <1>3, <1>0 DEF Pages!RunEnds, SyncSteps
<1>4. ASSUME NEW r \in {"here", "before"}, Pages!AnswerLost(r) PROVE LeftInv'
  BY <1>4, <1>0 DEF Pages!AnswerLost, SyncSteps
<1>5. ASSUME Pages!SyncFsc PROVE LeftInv'
  BY <1>5, <1>0 DEF Pages!SyncFsc, SyncSteps
<1>6. ASSUME NEW r \in {"here", "before"}, Pages!SyncSettled(r) PROVE LeftInv'
  BY <1>6, <1>0 DEF Pages!SyncSettled, SyncSteps
<1>7. ASSUME Pages!EnrichTrustpilot PROVE LeftInv'
  BY <1>7, <1>0 DEF Pages!EnrichTrustpilot, SyncSteps
<1>8. ASSUME Pages!Filter PROVE LeftInv'
  BY <1>8, <1>0 DEF Pages!Filter, SyncSteps
<1>9. ASSUME NEW c \in Entries, Pages!OpenDetail(c) PROVE LeftInv'
  BY <1>9, <1>0 DEF Pages!OpenDetail, SyncSteps
<1>10. ASSUME Pages!BackToList PROVE LeftInv'
  BY <1>10, <1>0 DEF Pages!BackToList, SyncSteps
<1>11. ASSUME Pages!Poll PROVE LeftInv'
  BY <1>11, <1>0 DEF Pages!Poll, SyncSteps
<1>12. ASSUME Pages!ProgressAnswered PROVE LeftInv'
  BY <1>12, <1>0 DEF Pages!ProgressAnswered, SyncSteps
<1>13. ASSUME Pages!ListAnswered PROVE LeftInv'
  BY <1>13, <1>0 DEF Pages!ListAnswered, SyncSteps
<1>14. ASSUME Pages!ProgressArrives PROVE LeftInv'
  BY <1>14, <1>0 DEF Pages!ProgressArrives, SyncSteps
<1>15. ASSUME Pages!ListArrives PROVE LeftInv'
  BY <1>15, <1>0 DEF Pages!ListArrives, SyncSteps
<1>16. ASSUME NEW c \in Entries, Pages!DetailArrives(c) PROVE LeftInv'
  BY <1>16, <1>0 DEF Pages!DetailArrives, SyncSteps
<1>17. ASSUME Pages!Fail PROVE LeftInv'
  BY <1>17, <1>0 DEF Pages!Fail, SyncSteps
<1>18. ASSUME Pages!MinutePasses PROVE LeftInv'
  BY <1>18, <1>0 DEF Pages!MinutePasses, SyncSteps
<1>19. ASSUME Pages!Focus PROVE LeftInv'
  BY <1>19, <1>0 DEF Pages!Focus, SyncSteps
<1>20. ASSUME NEW c \in Entries, Pages!LogoFails(c) PROVE LeftInv'
  BY <1>20, <1>0 DEF Pages!LogoFails, SyncSteps
<1>21. CASE UNCHANGED <<logos, busy, view, message, polling, list, progress, detail, asked, since,
                      opened, stale, excused>>
  BY <1>21 DEF PagesInv, SyncSteps
<1> QED
  BY <1>1, <1>2, <1>3, <1>4, <1>5, <1>6, <1>7, <1>8, <1>9, <1>10, <1>11, <1>12, <1>13, <1>14, <1>15, <1>16, <1>17, <1>18, <1>19, <1>20, <1>21 DEF PagesStep

(* The rows shown are asked for again after the run. *)
LEMMA ListShownKeeps ==
  ASSUME PagesInv, NamesApart, PagesStep
  PROVE  ListInv'
<1> USE DEF Pages!Others, Pages!serverVars, Pages!registerVars, Pages!queryVars, Pages!ghosts
<1>0. /\ list \in QueryOf(Nat) /\ since \in Nat /\ LeftInv /\ ListInv /\ Len(logos) \in Nat
      /\ DOMAIN asked = {"here", "before"}
  BY DEF PagesInv, PagesTypesOK
<1>a. \A b : /\ Pages!Invalidate(list, b).data = list.data
             /\ b => Pages!Invalidate(list, b).asked
             /\ b /\ ~Pages!IsFirst(list) => Pages!Invalidate(list, b).answer = None
             /\ ~b => Pages!Invalidate(list, b) = list
             /\ Pages!Mount(list, b).data = list.data
             /\ Pages!Mount(list, b).answer = None \/ Pages!Mount(list, b) = list
             /\ Pages!Mount(list, b) = list \/ Pages!Mount(list, b).asked
  BY <1>0, QuerySteps
<1>1. ASSUME Pages!StartElsewhere PROVE ListInv'
  BY <1>1, <1>0, <1>a DEF Pages!StartElsewhere, LeftInv, ListInv, UpToDate, NamesApart
<1>2. ASSUME Pages!Save PROVE ListInv'
  BY <1>2, <1>0, <1>a DEF Pages!Save, LeftInv, ListInv, UpToDate, NamesApart
<1>3. ASSUME Pages!RunEnds PROVE ListInv'
  BY <1>3, <1>0, <1>a DEF Pages!RunEnds, LeftInv, ListInv, UpToDate, NamesApart
<1>4. ASSUME NEW r \in {"here", "before"}, Pages!AnswerLost(r) PROVE ListInv'
  BY <1>4, <1>0, <1>a DEF Pages!AnswerLost, LeftInv, ListInv, UpToDate, NamesApart
<1>5. ASSUME Pages!SyncFsc PROVE ListInv'
  BY <1>5, <1>0, <1>a DEF Pages!SyncFsc, LeftInv, ListInv, UpToDate, NamesApart
<1>6. ASSUME NEW r \in {"here", "before"}, Pages!SyncSettled(r) PROVE ListInv'
  <2>1. view' = view
    BY <1>6 DEF Pages!SyncSettled
  <2>2. CASE asked[r] = "success"
    <3>1. list' = Pages!Invalidate(list, view = None)
      BY <1>6, <2>2 DEF Pages!SyncSettled
    <3>2. ASSUME view = None PROVE "list" \in excused' \/ (list'.asked /\ list'.answer = None)
      BY <1>6, <1>a, <2>2, <3>1, <3>2, SettledKeeps
    <3> QED
      BY <2>1, <3>2 DEF ListInv
  <2>3. CASE asked[r] # "success"
    <3>1. list' = list /\ ("list" \in excused <=> "list" \in excused')
      BY <1>6, <2>3, SettledKeeps DEF Pages!SyncSettled
    <3>2. message' = "failed" \/ UNCHANGED <<message, since>>
      BY <1>6, <2>3 DEF Pages!SyncSettled
    <3> QED
      BY <1>0, <2>1, <3>1, <3>2 DEF ListInv, UpToDate
  <2> QED
    BY <2>2, <2>3
<1>7. ASSUME Pages!EnrichTrustpilot PROVE ListInv'
  BY <1>7, <1>0, <1>a DEF Pages!EnrichTrustpilot, LeftInv, ListInv, UpToDate, NamesApart
<1>8. ASSUME Pages!Filter PROVE ListInv'
  BY <1>8, <1>0, <1>a DEF Pages!Filter, LeftInv, ListInv, UpToDate, NamesApart
<1>9. ASSUME NEW c \in Entries, Pages!OpenDetail(c) PROVE ListInv'
  BY <1>9, <1>0, <1>a DEF Pages!OpenDetail, LeftInv, ListInv, UpToDate, NamesApart
<1>10. ASSUME Pages!BackToList PROVE ListInv'
  BY <1>10, <1>0, <1>a DEF Pages!BackToList, LeftInv, ListInv, UpToDate, NamesApart
<1>11. ASSUME Pages!Poll PROVE ListInv'
  BY <1>11, <1>0, <1>a DEF Pages!Poll, LeftInv, ListInv, UpToDate, NamesApart
<1>12. ASSUME Pages!ProgressAnswered PROVE ListInv'
  BY <1>12, <1>0, <1>a DEF Pages!ProgressAnswered, LeftInv, ListInv, UpToDate, NamesApart
<1>13. ASSUME Pages!ListAnswered PROVE ListInv'
  <2>1. UNCHANGED <<view, message, since, excused>>
    BY <1>13 DEF Pages!ListAnswered
  <2>2. PICK a \in {0, Len(logos)} : list' = Pages!Answered(list, a)
    BY <1>13 DEF Pages!ListAnswered
  <2>3. list'.data = list.data /\ list'.asked = list.asked /\ list'.answer = a
    BY <1>0, <2>2 DEF Pages!Answered, QueryOf
  <2>4. UpToDate(a)
    BY <1>0 DEF LeftInv, UpToDate, NamesApart
  <2> QED
    BY <1>0, <2>1, <2>3, <2>4 DEF ListInv, UpToDate
<1>14. ASSUME Pages!ProgressArrives PROVE ListInv'
  BY <1>14, <1>0, <1>a DEF Pages!ProgressArrives, LeftInv, ListInv, UpToDate, NamesApart
<1>15. ASSUME Pages!ListArrives PROVE ListInv'
  <2>1. UNCHANGED <<view, message, since, excused>> /\ list.answer # None
    BY <1>15 DEF Pages!ListArrives
  <2>2. list' = Pages!Arrived(list) /\ None \in Nat \union {None}
    BY <1>15 DEF Pages!ListArrives
  <2>3. list'.data = list.answer /\ list'.answer = None
    BY <1>0, <2>2, AnswerSteps
  <2> QED
    BY <1>0, <2>1, <2>3 DEF ListInv, UpToDate
<1>16. ASSUME NEW c \in Entries, Pages!DetailArrives(c) PROVE ListInv'
  BY <1>16, <1>0, <1>a DEF Pages!DetailArrives, LeftInv, ListInv, UpToDate, NamesApart
<1>17. ASSUME Pages!Fail PROVE ListInv'
  BY <1>17, <1>0, <1>a DEF Pages!Fail, LeftInv, ListInv, UpToDate, NamesApart
<1>18. ASSUME Pages!MinutePasses PROVE ListInv'
  BY <1>18, <1>0, <1>a DEF Pages!MinutePasses, LeftInv, ListInv, UpToDate, NamesApart
<1>19. ASSUME Pages!Focus PROVE ListInv'
  BY <1>19, <1>0, <1>a DEF Pages!Focus, LeftInv, ListInv, UpToDate, NamesApart
<1>20. ASSUME NEW c \in Entries, Pages!LogoFails(c) PROVE ListInv'
  BY <1>20, <1>0, <1>a DEF Pages!LogoFails, LeftInv, ListInv, UpToDate, NamesApart
<1>21. CASE UNCHANGED <<logos, busy, view, message, polling, list, progress, detail, asked, since,
                      opened, stale, excused>>
  BY <1>21 DEF PagesInv, LeftInv, ListInv, UpToDate, NamesApart
<1> QED
  BY <1>1, <1>2, <1>3, <1>4, <1>5, <1>6, <1>7, <1>8, <1>9, <1>10, <1>11, <1>12, <1>13, <1>14, <1>15, <1>16, <1>17, <1>18, <1>19, <1>20, <1>21 DEF PagesStep

(* The progress shown is asked for again when the page stops to ask. *)
LEMMA ShownKeeps ==
  ASSUME PagesInv, NamesApart, PagesStep
  PROVE  ShownInv'
<1> USE DEF Pages!Others, Pages!serverVars, Pages!registerVars, Pages!queryVars, Pages!ghosts
<1>0. progress \in QueryOf(BOOLEAN) /\ ShownInv
  BY DEF PagesInv, PagesTypesOK
<1>a. \A b : /\ Pages!Invalidate(progress, b).data = progress.data
             /\ b => Pages!Invalidate(progress, b).asked
             /\ b /\ ~Pages!IsFirst(progress) => Pages!Invalidate(progress, b).answer = None
             /\ ~b => Pages!Invalidate(progress, b) = progress
  BY <1>0, QuerySteps
<1>1. ASSUME Pages!StartElsewhere PROVE ShownInv'
  BY <1>1, <1>0, <1>a DEF Pages!StartElsewhere, ShownInv, NamesApart
<1>2. ASSUME Pages!Save PROVE ShownInv'
  BY <1>2, <1>0, <1>a DEF Pages!Save, ShownInv, NamesApart
<1>3. ASSUME Pages!RunEnds PROVE ShownInv'
  BY <1>3, <1>0, <1>a DEF Pages!RunEnds, ShownInv, NamesApart
<1>4. ASSUME NEW r \in {"here", "before"}, Pages!AnswerLost(r) PROVE ShownInv'
  BY <1>4, <1>0, <1>a DEF Pages!AnswerLost, ShownInv, NamesApart
<1>5. ASSUME Pages!SyncFsc PROVE ShownInv'
  BY <1>5, <1>0, <1>a DEF Pages!SyncFsc, ShownInv, NamesApart
<1>6. ASSUME NEW r \in {"here", "before"}, Pages!SyncSettled(r) PROVE ShownInv'
  <2>1. progress' = Pages!Invalidate(progress, polling) /\ (~polling \/ polling)
    BY <1>6 DEF Pages!SyncSettled
  <2>2. CASE polling
    <3>1. None # TRUE
      BY DEF NamesApart
    <3>2. "progress" \in excused' \/ (progress'.asked /\ progress'.answer # TRUE)
      BY <1>6, <1>a, <2>1, <2>2, <3>1, SettledKeeps
    <3> QED
      BY <3>2 DEF ShownInv
  <2>3. CASE ~polling
    <3>1. ("progress" \in excused <=> "progress" \in excused') /\ progress' = progress
      BY <1>6, <1>a, <2>1, <2>3, SettledKeeps
    <3> QED
      BY <1>0, <2>3, <3>1 DEF ShownInv
  <2> QED
    BY <2>2, <2>3
<1>7. ASSUME Pages!EnrichTrustpilot PROVE ShownInv'
  BY <1>7, <1>0, <1>a DEF Pages!EnrichTrustpilot, ShownInv, NamesApart
<1>8. ASSUME Pages!Filter PROVE ShownInv'
  BY <1>8, <1>0, <1>a DEF Pages!Filter, ShownInv, NamesApart
<1>9. ASSUME NEW c \in Entries, Pages!OpenDetail(c) PROVE ShownInv'
  BY <1>9, <1>0, <1>a DEF Pages!OpenDetail, ShownInv, NamesApart
<1>10. ASSUME Pages!BackToList PROVE ShownInv'
  BY <1>10, <1>0, <1>a DEF Pages!BackToList, ShownInv, NamesApart
<1>11. ASSUME Pages!Poll PROVE ShownInv'
  BY <1>11, <1>0, <1>a DEF Pages!Poll, ShownInv, NamesApart
<1>12. ASSUME Pages!ProgressAnswered PROVE ShownInv'
  <2>1. polling' = polling /\ ("progress" \in excused => "progress" \in excused')
        /\ (~polling /\ busy => "progress" \in excused')
    BY <1>12 DEF Pages!ProgressAnswered
  <2>2. \/ progress' = Pages!Answered(progress, busy)
        \/ progress' = Pages!Answered(progress, FALSE)
    BY <1>12 DEF Pages!ProgressAnswered
  <2>3. /\ progress'.data = progress.data /\ progress'.asked = progress.asked
        /\ progress'.answer = busy \/ progress'.answer = FALSE
    BY <1>0, <2>2 DEF Pages!Answered, QueryOf
  <2>4. ~busy => progress'.answer # TRUE
    BY <2>3
  <2> QED
    BY <1>0, <2>1, <2>3, <2>4 DEF ShownInv
<1>13. ASSUME Pages!ListAnswered PROVE ShownInv'
  BY <1>13, <1>0, <1>a DEF Pages!ListAnswered, ShownInv, NamesApart
<1>14. ASSUME Pages!ProgressArrives PROVE ShownInv'
  <2>1. UNCHANGED <<polling, excused>>
    BY <1>14 DEF Pages!ProgressArrives
  <2>2. progress' = Pages!Arrived(progress) /\ None \in BOOLEAN \union {None}
    BY <1>14 DEF Pages!ProgressArrives
  <2>3. progress'.data = progress.answer /\ progress'.answer = None
    BY <1>0, <2>2, AnswerSteps
  <2> QED
    BY <1>0, <2>1, <2>3 DEF ShownInv, NamesApart
<1>15. ASSUME Pages!ListArrives PROVE ShownInv'
  BY <1>15, <1>0, <1>a DEF Pages!ListArrives, ShownInv, NamesApart
<1>16. ASSUME NEW c \in Entries, Pages!DetailArrives(c) PROVE ShownInv'
  BY <1>16, <1>0, <1>a DEF Pages!DetailArrives, ShownInv, NamesApart
<1>17. ASSUME Pages!Fail PROVE ShownInv'
  BY <1>17, <1>0, <1>a DEF Pages!Fail, ShownInv, NamesApart
<1>18. ASSUME Pages!MinutePasses PROVE ShownInv'
  BY <1>18, <1>0, <1>a DEF Pages!MinutePasses, ShownInv, NamesApart
<1>19. ASSUME Pages!Focus PROVE ShownInv'
  BY <1>19, <1>0, <1>a DEF Pages!Focus, ShownInv, NamesApart
<1>20. ASSUME NEW c \in Entries, Pages!LogoFails(c) PROVE ShownInv'
  BY <1>20, <1>0, <1>a DEF Pages!LogoFails, ShownInv, NamesApart
<1>21. CASE UNCHANGED <<logos, busy, view, message, polling, list, progress, detail, asked, since,
                      opened, stale, excused>>
  BY <1>21 DEF PagesInv, ShownInv, NamesApart
<1> QED
  BY <1>1, <1>2, <1>3, <1>4, <1>5, <1>6, <1>7, <1>8, <1>9, <1>10, <1>11, <1>12, <1>13, <1>14, <1>15, <1>16, <1>17, <1>18, <1>19, <1>20, <1>21 DEF PagesStep

(* The page of a row asks again for what is out of date. *)
LEMMA DetailKeeps ==
  ASSUME PagesInv, NamesApart, PagesStep
  PROVE  Pages!DetailFollows'
<1> USE DEF Pages!Others, Pages!serverVars, Pages!registerVars, Pages!queryVars, Pages!ghosts
<1>0. detail \in [Entries -> QueryOf(Nat)] /\ Pages!DetailFollows /\ opened \in Nat
      /\ view \in Entries \union {None}
  BY DEF PagesInv, PagesTypesOK
<1>a. \A c \in Entries : \A b :
        /\ Pages!Mount(detail[c], b).data = detail[c].data
        /\ detail[c].asked => Pages!Mount(detail[c], b) = detail[c]
        /\ b => Pages!Mount(detail[c], b).asked
        /\ Pages!Mount(detail[c], b) = detail[c] \/ Pages!Mount(detail[c], b).asked
  BY <1>0, QuerySteps
<1>1. ASSUME Pages!StartElsewhere PROVE Pages!DetailFollows'
  BY <1>1, <1>0, <1>a DEF Pages!StartElsewhere, Pages!DetailFollows, NamesApart
<1>2. ASSUME Pages!Save PROVE Pages!DetailFollows'
  BY <1>2, <1>0, <1>a DEF Pages!Save, Pages!DetailFollows, NamesApart
<1>3. ASSUME Pages!RunEnds PROVE Pages!DetailFollows'
  BY <1>3, <1>0, <1>a DEF Pages!RunEnds, Pages!DetailFollows, NamesApart
<1>4. ASSUME NEW r \in {"here", "before"}, Pages!AnswerLost(r) PROVE Pages!DetailFollows'
  BY <1>4, <1>0, <1>a DEF Pages!AnswerLost, Pages!DetailFollows, NamesApart
<1>5. ASSUME Pages!SyncFsc PROVE Pages!DetailFollows'
  BY <1>5, <1>0, <1>a DEF Pages!SyncFsc, Pages!DetailFollows, NamesApart
<1>6. ASSUME NEW r \in {"here", "before"}, Pages!SyncSettled(r) PROVE Pages!DetailFollows'
  <2>1. UNCHANGED <<view, detail, opened>> /\ stale' \subseteq stale \union {"list"}
    BY <1>6 DEF Pages!SyncSettled
  <2>2. view # None => view \notin {"list", "progress"}
    BY <1>0 DEF NamesApart
  <2>3. view # None => (view \in excused <=> view \in excused')
    BY <1>6, <2>2, SettledKeeps
  <2> QED
    BY <1>0, <2>1, <2>2, <2>3 DEF Pages!DetailFollows
<1>7. ASSUME Pages!EnrichTrustpilot PROVE Pages!DetailFollows'
  BY <1>7, <1>0, <1>a DEF Pages!EnrichTrustpilot, Pages!DetailFollows, NamesApart
<1>8. ASSUME Pages!Filter PROVE Pages!DetailFollows'
  BY <1>8, <1>0, <1>a DEF Pages!Filter, Pages!DetailFollows, NamesApart
<1>9. ASSUME NEW c \in Entries, Pages!OpenDetail(c) PROVE Pages!DetailFollows'
  BY <1>9, <1>0, <1>a DEF Pages!OpenDetail, Pages!DetailFollows, NamesApart
<1>10. ASSUME Pages!BackToList PROVE Pages!DetailFollows'
  BY <1>10, <1>0, <1>a DEF Pages!BackToList, Pages!DetailFollows, NamesApart
<1>11. ASSUME Pages!Poll PROVE Pages!DetailFollows'
  BY <1>11, <1>0, <1>a DEF Pages!Poll, Pages!DetailFollows, NamesApart
<1>12. ASSUME Pages!ProgressAnswered PROVE Pages!DetailFollows'
  BY <1>12, <1>0, <1>a DEF Pages!ProgressAnswered, Pages!DetailFollows, NamesApart
<1>13. ASSUME Pages!ListAnswered PROVE Pages!DetailFollows'
  BY <1>13, <1>0, <1>a DEF Pages!ListAnswered, Pages!DetailFollows, NamesApart
<1>14. ASSUME Pages!ProgressArrives PROVE Pages!DetailFollows'
  BY <1>14, <1>0, <1>a DEF Pages!ProgressArrives, Pages!DetailFollows, NamesApart
<1>15. ASSUME Pages!ListArrives PROVE Pages!DetailFollows'
  BY <1>15, <1>0, <1>a DEF Pages!ListArrives, Pages!DetailFollows, NamesApart
<1>16. ASSUME NEW c \in Entries, Pages!DetailArrives(c) PROVE Pages!DetailFollows'
  BY <1>16, <1>0, <1>a DEF Pages!DetailArrives, Pages!DetailFollows, NamesApart
<1>17. ASSUME Pages!Fail PROVE Pages!DetailFollows'
  BY <1>17, <1>0, <1>a DEF Pages!Fail, Pages!DetailFollows, NamesApart
<1>18. ASSUME Pages!MinutePasses PROVE Pages!DetailFollows'
  BY <1>18, <1>0, <1>a DEF Pages!MinutePasses, Pages!DetailFollows, NamesApart
<1>19. ASSUME Pages!Focus PROVE Pages!DetailFollows'
  BY <1>19, <1>0, <1>a DEF Pages!Focus, Pages!DetailFollows, NamesApart
<1>20. ASSUME NEW c \in Entries, Pages!LogoFails(c) PROVE Pages!DetailFollows'
  BY <1>20, <1>0, <1>a DEF Pages!LogoFails, Pages!DetailFollows, NamesApart
<1>21. CASE UNCHANGED <<logos, busy, view, message, polling, list, progress, detail, asked, since,
                      opened, stale, excused>>
  BY <1>21 DEF PagesInv, Pages!DetailFollows, NamesApart
<1> QED
  BY <1>1, <1>2, <1>3, <1>4, <1>5, <1>6, <1>7, <1>8, <1>9, <1>10, <1>11, <1>12, <1>13, <1>14, <1>15, <1>16, <1>17, <1>18, <1>19, <1>20, <1>21 DEF PagesStep

(* The types of what the pages hold. *)
LEMMA PagesTypesKeep ==
  ASSUME PagesInv, NamesApart, PagesStep
  PROVE  PagesTypesOK'
<1> USE DEF Pages!Others, Pages!serverVars, Pages!registerVars, Pages!queryVars, Pages!ghosts
<1> USE DEF PagesInv
<1>0. PagesTypesOK /\ Len(logos) \in Nat
  BY DEF PagesTypesOK
<1>a. /\ \A b : Pages!Invalidate(list, b) \in QueryOf(Nat) /\ Pages!Mount(list, b) \in QueryOf(Nat)
      /\ \A b : Pages!Invalidate(progress, b) \in QueryOf(BOOLEAN)
      /\ Pages!AskFor(progress) \in QueryOf(BOOLEAN) /\ Pages!Failed(progress) \in QueryOf(BOOLEAN)
      /\ Pages!Failed(list) \in QueryOf(Nat)
      /\ \A b : Pages!Answered(progress, b) \in QueryOf(BOOLEAN) \/ b \notin BOOLEAN
      /\ \A n \in Nat : Pages!Answered(list, n) \in QueryOf(Nat)
      /\ Pages!Arrived(progress) \in QueryOf(BOOLEAN) /\ Pages!Arrived(list) \in QueryOf(Nat)
  <2>1. list \in QueryOf(Nat) /\ progress \in QueryOf(BOOLEAN)
    BY <1>0 DEF PagesTypesOK
  <2>2. \A b : Pages!Invalidate(list, b) \in QueryOf(Nat) /\ Pages!Mount(list, b) \in QueryOf(Nat)
    BY <2>1, QuerySteps
  <2>3. \A b : Pages!Invalidate(progress, b) \in QueryOf(BOOLEAN)
    BY <2>1, QuerySteps
  <2>4. /\ Pages!AskFor(progress) \in QueryOf(BOOLEAN) /\ Pages!Failed(progress) \in QueryOf(BOOLEAN)
        /\ Pages!Failed(list) \in QueryOf(Nat)
    BY <2>1, QuerySteps
  <2>5. /\ \A b : Pages!Answered(progress, b) \in QueryOf(BOOLEAN) \/ b \notin BOOLEAN
        /\ \A n \in Nat : Pages!Answered(list, n) \in QueryOf(Nat)
    BY <2>1, AnswerSteps
  <2>6. Pages!Arrived(progress) \in QueryOf(BOOLEAN) /\ Pages!Arrived(list) \in QueryOf(Nat)
    <3>1. None \in BOOLEAN \union {None} /\ None \in Nat \union {None}
      OBVIOUS
    <3> QED
      BY <2>1, <3>1, AnswerSteps
  <2> QED
    BY <2>2, <2>3, <2>4, <2>5, <2>6
<1>b. \A c \in Entries :
        /\ \A b : Pages!Mount(detail[c], b) \in QueryOf(Nat)
        /\ Pages!Failed(detail[c]) \in QueryOf(Nat)
        /\ \A n \in Nat : Pages!Arrived(Pages!Answered(detail[c], n)) \in QueryOf(Nat)
  <2> SUFFICES ASSUME NEW c \in Entries
               PROVE  /\ \A b : Pages!Mount(detail[c], b) \in QueryOf(Nat)
                      /\ Pages!Failed(detail[c]) \in QueryOf(Nat)
                      /\ \A n \in Nat : Pages!Arrived(Pages!Answered(detail[c], n)) \in QueryOf(Nat)
    OBVIOUS
  <2>1. detail[c] \in QueryOf(Nat)
    BY <1>0 DEF PagesTypesOK
  <2>2. \A n \in Nat : Pages!Answered(detail[c], n) \in QueryOf(Nat)
    BY <2>1, AnswerSteps
  <2>3. \A n \in Nat : Pages!Arrived(Pages!Answered(detail[c], n)) \in QueryOf(Nat)
    <3>1. None \in Nat \union {None}
      OBVIOUS
    <3> QED
      BY <2>2, <3>1, AnswerSteps
  <2> QED
    BY <2>1, <2>3, QuerySteps
<1>1. ASSUME Pages!StartElsewhere PROVE PagesTypesOK'
  BY <1>1, <1>0, <1>a, <1>b DEF Pages!StartElsewhere, PagesTypesOK, SyncSteps
<1>2. ASSUME Pages!Save PROVE PagesTypesOK'
  <2>1. PICK c \in Entries, l \in Logos :
           logos' = Append(logos, [logos[Len(logos)] EXCEPT ![c] = l])
    BY <1>2 DEF Pages!Save
  <2>2. logos[Len(logos)] \in Pictures
    BY <1>0 DEF PagesTypesOK
  <2> PICK t : t = [logos[Len(logos)] EXCEPT ![c] = l]
    OBVIOUS
  <2>3. t \in Pictures
    BY <2>2 DEF Pictures
  <2>4. logos' \in Seq(Pictures) /\ Len(logos') >= 1
    BY <1>0, <2>1, <2>3 DEF PagesTypesOK
  <2> QED
    BY <1>2, <1>0, <2>4 DEF Pages!Save, PagesTypesOK
<1>3. ASSUME Pages!RunEnds PROVE PagesTypesOK'
  BY <1>3, <1>0, <1>a, <1>b DEF Pages!RunEnds, PagesTypesOK, SyncSteps
<1>4. ASSUME NEW r \in {"here", "before"}, Pages!AnswerLost(r) PROVE PagesTypesOK'
  BY <1>4, <1>0, <1>a, <1>b DEF Pages!AnswerLost, PagesTypesOK, SyncSteps
<1>5. ASSUME Pages!SyncFsc PROVE PagesTypesOK'
  BY <1>5, <1>0, <1>a, <1>b DEF Pages!SyncFsc, PagesTypesOK, SyncSteps
<1>6. ASSUME NEW r \in {"here", "before"}, Pages!SyncSettled(r) PROVE PagesTypesOK'
  BY <1>6, <1>0, <1>a, <1>b DEF Pages!SyncSettled, PagesTypesOK, SyncSteps
<1>7. ASSUME Pages!EnrichTrustpilot PROVE PagesTypesOK'
  BY <1>7, <1>0, <1>a, <1>b DEF Pages!EnrichTrustpilot, PagesTypesOK, SyncSteps
<1>8. ASSUME Pages!Filter PROVE PagesTypesOK'
  BY <1>8, <1>0, <1>a, <1>b DEF Pages!Filter, PagesTypesOK, SyncSteps
<1>9. ASSUME NEW c \in Entries, Pages!OpenDetail(c) PROVE PagesTypesOK'
  <2>1. /\ UNCHANGED <<logos, busy, list, progress>>
        /\ since' = 0 /\ view' = c /\ opened' = list.data
        /\ detail' = [detail EXCEPT ![c] = Pages!Mount(detail[c], c \in stale)]
    BY <1>9 DEF Pages!OpenDetail
  <2>2. list.data \in Nat
    BY <1>9, <1>0 DEF Pages!OpenDetail, Pages!Shown, PagesTypesOK, QueryOf
  <2>3. detail' \in [Entries -> QueryOf(Nat)]
    BY <1>0, <1>b, <2>1 DEF PagesTypesOK
  <2>4. asked' \in [{"here", "before"} -> SyncSteps]
    <3>1. asked \in [{"here", "before"} -> SyncSteps] /\ "none" \in SyncSteps
          /\ asked["here"] \in SyncSteps
      BY <1>0 DEF PagesTypesOK, SyncSteps
    <3>2. CASE asked' = asked
      BY <3>1, <3>2
    <3>3. CASE asked' = [asked EXCEPT !["here"] = "none", !["before"] = asked["here"]]
      BY <3>1, <3>3
    <3> QED
      BY <1>9, <3>2, <3>3 DEF Pages!OpenDetail
  <2> QED
    BY <1>0, <2>1, <2>2, <2>3, <2>4 DEF PagesTypesOK
<1>10. ASSUME Pages!BackToList PROVE PagesTypesOK'
  BY <1>10, <1>0, <1>a, <1>b DEF Pages!BackToList, PagesTypesOK, SyncSteps
<1>11. ASSUME Pages!Poll PROVE PagesTypesOK'
  BY <1>11, <1>0, <1>a, <1>b DEF Pages!Poll, PagesTypesOK, SyncSteps
<1>12. ASSUME Pages!ProgressAnswered PROVE PagesTypesOK'
  BY <1>12, <1>0, <1>a, <1>b DEF Pages!ProgressAnswered, PagesTypesOK, SyncSteps
<1>13. ASSUME Pages!ListAnswered PROVE PagesTypesOK'
  BY <1>13, <1>0, <1>a, <1>b DEF Pages!ListAnswered, PagesTypesOK, SyncSteps
<1>14. ASSUME Pages!ProgressArrives PROVE PagesTypesOK'
  BY <1>14, <1>0, <1>a, <1>b DEF Pages!ProgressArrives, PagesTypesOK, SyncSteps
<1>15. ASSUME Pages!ListArrives PROVE PagesTypesOK'
  BY <1>15, <1>0, <1>a, <1>b DEF Pages!ListArrives, PagesTypesOK, SyncSteps
<1>16. ASSUME NEW c \in Entries, Pages!DetailArrives(c) PROVE PagesTypesOK'
  BY <1>16, <1>0, <1>a, <1>b DEF Pages!DetailArrives, PagesTypesOK, SyncSteps
<1>17. ASSUME Pages!Fail PROVE PagesTypesOK'
  BY <1>17, <1>0, <1>a, <1>b DEF Pages!Fail, PagesTypesOK, SyncSteps
<1>18. ASSUME Pages!MinutePasses PROVE PagesTypesOK'
  BY <1>18, <1>0, <1>a, <1>b DEF Pages!MinutePasses, PagesTypesOK, SyncSteps
<1>19. ASSUME Pages!Focus PROVE PagesTypesOK'
  BY <1>19, <1>0, <1>a, <1>b DEF Pages!Focus, PagesTypesOK, SyncSteps
<1>20. ASSUME NEW c \in Entries, Pages!LogoFails(c) PROVE PagesTypesOK'
  BY <1>20, <1>0, <1>a, <1>b DEF Pages!LogoFails, PagesTypesOK, SyncSteps
<1>21. CASE UNCHANGED <<logos, busy, view, message, polling, list, progress, detail, asked, since,
                      opened, stale, excused>>
  BY <1>21 DEF PagesInv, PagesTypesOK, SyncSteps
<1> QED
  BY <1>1, <1>2, <1>3, <1>4, <1>5, <1>6, <1>7, <1>8, <1>9, <1>10, <1>11, <1>12, <1>13, <1>14, <1>15, <1>16, <1>17, <1>18, <1>19, <1>20, <1>21 DEF PagesStep

(* A picture that has failed is known while its card stands. *)
LEMMA FallbackKeeps ==
  ASSUME Pages!FallbackExplained, [Pages!Next]_Pages!vars
  PROVE  Pages!FallbackExplained'
<1>1. CASE Pages!Cards({})
  BY <1>1 DEF Pages!Cards, Pages!FallbackExplained
<1>2. ASSUME NEW c \in Entries, Pages!LogoFails(c), Pages!Cards({c})
      PROVE  Pages!FallbackExplained'
  BY <1>2 DEF Pages!Cards, Pages!FallbackExplained, Pages!LogoFails
<1>3. CASE UNCHANGED Pages!vars
  BY <1>3 DEF Pages!vars, Pages!serverVars, Pages!registerVars, Pages!queryVars,
              Pages!FallbackExplained, Pages!Shown
<1> QED
  BY <1>1, <1>2, <1>3 DEF Pages!Next

LEMMA PagesInit ==
  ASSUME NamesApart, Pages!Init
  PROVE  PagesInv
<1>1. Pages!NoQuery \in QueryOf(Nat) /\ Pages!NoQuery \in QueryOf(BOOLEAN)
      /\ Pages!NoQuery.data = None /\ Pages!NoQuery.answer = None
  BY DEF Pages!NoQuery, QueryOf
<1>2. Pages!AskFor(Pages!NoQuery) \in QueryOf(Nat)
  BY <1>1, QuerySteps
<1>3. logos \in Seq(Pictures) /\ Len(logos) = 1
  <2>1. PICK t \in Pictures : logos = <<t>>
    BY DEF Pages!Init, Pictures
  <2> QED
    BY <2>1
<1>4. PagesTypesOK
  <2>1. list \in QueryOf(Nat) /\ progress \in QueryOf(BOOLEAN) /\ detail \in [Entries -> QueryOf(Nat)]
    BY <1>1, <1>2 DEF Pages!Init
  <2>2. asked \in [{"here", "before"} -> SyncSteps]
    BY DEF Pages!Init, SyncSteps
  <2>3. view \in Entries \union {None} /\ since \in Nat /\ opened \in Nat /\ busy \in BOOLEAN
    BY DEF Pages!Init
  <2> QED
    BY <1>3, <2>1, <2>2, <2>3 DEF PagesTypesOK
<1>5. LeftInv /\ ListInv
  BY <1>3 DEF Pages!Init, LeftInv, ListInv
<1>6. None # TRUE
  BY DEF NamesApart
<1>7. ShownInv
  BY <1>1, <1>6 DEF Pages!Init, ShownInv
<1>8. Pages!FallbackExplained /\ Pages!DetailFollows
  BY DEF Pages!Init, Pages!FallbackExplained, Pages!DetailFollows
<1> QED
  BY <1>4, <1>5, <1>7, <1>8 DEF PagesInv

(* What the office sees of the register follows its runs: its rows after a
   synchronisation that succeeded, its progress, its pictures, and the page
   of a row, unless a request failed or nobody asked again
   (admin/insurers/page.tsx, fsc/[id]/page.tsx). *)
THEOREM PagesAreExplained ==
  ASSUME NamesApart
  PROVE  Pages!Spec => []Pages!PagesExplained
<1>1. Pages!Init => PagesInv
  BY PagesInit
<1>2. PagesInv /\ [Pages!Next]_Pages!vars => PagesInv'
  <2> SUFFICES ASSUME PagesInv, [Pages!Next]_Pages!vars PROVE PagesInv'
    OBVIOUS
  <2>1. PagesStep
    BY PagesSteps DEF PagesInv
  <2>2. Pages!FallbackExplained'
    BY FallbackKeeps DEF PagesInv
  <2> QED
    BY <2>1, <2>2, PagesTypesKeep, LeftKeeps, ListShownKeeps, ShownKeeps, DetailKeeps DEF PagesInv
<1>3. PagesInv => Pages!PagesExplained
  <2> SUFFICES ASSUME PagesInv PROVE Pages!PagesExplained
    OBVIOUS
  <2>1. Pages!ListFollows
    BY DEF PagesInv, ListInv, UpToDate, Pages!ListFollows
  <2>2. Pages!ProgressFollows
    BY DEF PagesInv, ShownInv, Pages!ProgressFollows
  <2> QED
    BY <2>1, <2>2 DEF PagesInv, Pages!PagesExplained
<1> QED
  BY <1>1, <1>2, <1>3, PTL DEF Pages!Spec

(* The register of insurers, in the table and on the office's pages
   (InsurersService, admin/insurers/page.tsx, fsc/[id]/page.tsx). *)
THEOREM InsurersAreExplained ==
  ASSUME IsFiniteSet(Companies), NamesApart
  PROVE  Insurers!Spec /\ Pages!Spec => []InsurersExplained
<1>1. None \notin Nat
  BY DEF NamesApart
<1>2. Insurers!RegisterExplained /\ Pages!PagesExplained => InsurersExplained
  BY DEF InsurersExplained
<1> QED
  BY <1>1, <1>2, RegisterIsExplained, PagesAreExplained, PTL

-----------------------------------------------------------------------------
(***************************************************************************)
(* The jobs together.  They share no row and no key: what one of them does *)
(* leaves the others as they were.                                         *)
(***************************************************************************)
LEMMA JobsAreEach ==
  JobsSpec => /\ Billing!Spec /\ Catalog!Spec /\ Register!Spec /\ Domain!Spec
              /\ Seed!Spec /\ Insurers!Spec /\ Pages!Spec
<1> DEFINE all == <<side, vars, runVars, syncVars, breachVars, fscVars, seedVars, domainVars, pageVars>>
<1>1. JobsInit => /\ Billing!Init /\ Catalog!Init /\ Register!Init /\ Domain!Init
                  /\ Seed!Init /\ Insurers!Init /\ Pages!Init
  BY DEF JobsInit
<1>2. [JobsNext]_all => [Billing!Next]_Billing!vars
  BY DEF JobsNext, runVars, Billing!vars, Billing!queueVars, Billing!billingVars,
         Billing!workerVars
<1>3. [JobsNext]_all => [Catalog!Next]_Catalog!vars
  BY DEF JobsNext, syncVars, Catalog!vars, Catalog!files, Catalog!importVars
<1>4. [JobsNext]_all => [Register!Next]_Register!vars
  BY DEF JobsNext, breachVars, Register!vars, Register!jobVars, Register!adminVars
<1>5. [JobsNext]_all => [Domain!Next]_Domain!vars
  BY DEF JobsNext, domainVars, Domain!vars, Domain!jobVars
<1>6. [JobsNext]_all => [Seed!Next]_Seed!vars
  BY DEF JobsNext, seedVars, Seed!vars
<1>7. [JobsNext]_all => [Insurers!Next]_Insurers!vars
  BY DEF JobsNext, fscVars, Insurers!vars
<1>8. [JobsNext]_all => [Pages!Next]_Pages!vars
  BY DEF JobsNext, pageVars, Pages!vars, Pages!serverVars, Pages!registerVars,
         Pages!queryVars, Pages!ghosts
<1> QED
  BY <1>1, <1>2, <1>3, <1>4, <1>5, <1>6, <1>7, <1>8, PTL
     DEF JobsSpec, Billing!Spec, Catalog!Spec, Register!Spec, Domain!Spec, Seed!Spec,
         Insurers!Spec, Pages!Spec

(* Whatever the schedule brings, all of it holds of the API's jobs at      *)
(* once: a run completed has accounted for its tenants, no broker is       *)
(* mailed twice, an import is whole, no breach is passed over in silence,  *)
(* a host that still answers is one on its way out, what a start has not   *)
(* seeded is explained, and so is what the register of insurers shows      *)
(* (invoice-generation.processor.ts:75-92, billing.service.ts:94-186,      *)
(* vehicle-catalog-sync.processor.ts:46-92, data-breach-alert.job.ts:16-78, *)
(* domains.service.ts:107-140, seed.service.ts:32-66,                      *)
(* insurers.service.ts:51-180).                                            *)
THEOREM JobsAreSound ==
  ASSUME None \notin Runs,
         Ages \subseteq Nat, None \notin Register!Levels, None \notin Register!Row,
         IsFiniteSet(Companies), NamesApart
  PROVE  JobsSpec => [](/\ RunAccountsForAll /\ InvoiceMailedOnce /\ DoneIsWhole
                        /\ BreachesExplained /\ HostsExplained
                        /\ SeedExplained /\ InsurersExplained)
  BY JobsAreEach, RunsAccountForAll, InvoiceIsMailedOnce, SyncIsWhole, BreachesAreFollowed,
     DeletedHostsAreLeft, SeedIsExplained, InsurersAreExplained, PTL
=============================================================================
