--------------------------- MODULE PolicyActivation ---------------------------
(***************************************************************************)
(* From a client's payment to an active policy: createIntent (the payment  *)
(* row and the pending commission event), Stripe, the webhook queue, and   *)
(* the two handlers of stripe-webhook.service.ts that activate a policy or *)
(* fail a payment.  No handler opens a transaction, so every awaited       *)
(* statement commits alone and is an action of its own here: handlers of   *)
(* several events, double runs of one event, retries and crashes           *)
(* interleave between any two of them.  A broker can also enter a policies *)
(* row by hand, under the intent of a purchase (POST /policies).           *)
(*                                                                         *)
(* Money, names, addresses, the payment method and the policy number are   *)
(* abstracted; a Stripe intent and its idempotency key are identified with *)
(* the quote that is bought (payments.service.ts:38).                      *)
(***************************************************************************)
EXTENDS BullQueue, TLC

CONSTANTS
  Quotes,          \* quotes that can be bought
  Requests,        \* POST /payments/intent calls
  RequestQuote,    \* the quote each request buys
  Brokers,         \* broker sessions that edit policies
  SucceededEvents, \* Stripe event ids of type payment_intent.succeeded
  FailedEvents,    \* Stripe event ids of type payment_intent.payment_failed
  QuoteOf,         \* the quote whose intent an event is about
  WithAddress,     \* quotes bought with a delivery address
  MaxFaults        \* bound on throws, crashes and lost locks

ASSUME PurchaseAssumption ==
  /\ RequestQuote \in [Requests -> Quotes]
  /\ Jobs = SucceededEvents \union FailedEvents
  /\ SucceededEvents \intersect FailedEvents = {}
  /\ QuoteOf \in [Jobs -> Quotes]
  /\ WithAddress \subseteq Quotes
  /\ None \notin Quotes
  /\ MaxFaults \in Nat

VARIABLES
  request,     \* request[r]: where a createIntent call stands
  payment,     \* payment[q]: status of the payments row, "none" without a row
  commission,  \* commission[q]: status of the pending_commission_events row
  policy,      \* policy[q]: status of the policies row of q's intent
  deleted,     \* quotes whose policies row is soft-deleted
  snapshot,    \* snapshot[q]: the commission columns of the policies row
  byHand,      \* quotes whose policies row a broker has entered (history)
  activated,   \* events with an ACTIVATED row in policy_events
  pdf,         \* pdf[e]: generate-policy-pdf jobs that runs for e have queued
  sticker,     \* sticker[e]: logistics jobs that runs for e have queued
  charged,     \* quotes Stripe has charged (external)
  emitted,     \* events Stripe has created (external)
  acked,       \* events Stripe got a 200 for (external)
  pc, cur,     \* per worker: the handler's next statement, its event
  seen,        \* per worker: the handler found a policies row
  edit,        \* per broker: the policy updatePolicy has read and not yet written
  faults       \* faults injected so far

purchaseVars == <<request, payment, commission>>
policyVars   == <<policy, deleted, snapshot, byHand>>
outputVars   == <<activated, pdf, sticker>>
stripeVars   == <<charged, emitted, acked>>
workerVars   == <<pc, cur, seen>>
vars == <<queueVars, purchaseVars, policyVars, outputVars, stripeVars,
          workerVars, edit, faults>>

PaymentStatus    == {"none", "pending", "succeeded", "failed"}
CommissionStatus == {"none", "pending", "confirmed", "failed"}
PolicyStatus     == {"pending", "active", "failed", "canceled"}
Snapshot         == {"none", "original", "edited"}
SucceededSteps   == {"check", "find", "succeed", "issue", "record", "pdf",
                     "sticker", "confirm"}
FailedSteps      == {"read", "fail", "failCommission"}

TypeOK ==
  /\ QueueTypeOK
  /\ request \in [Requests -> {"start", "save", "event", "returned", "rejected"}]
  /\ payment \in [Quotes -> PaymentStatus]
  /\ commission \in [Quotes -> CommissionStatus]
  /\ policy \in [Quotes -> PolicyStatus \union {"none"}]
  /\ deleted \subseteq Quotes
  /\ snapshot \in [Quotes -> Snapshot]
  /\ byHand \subseteq Quotes
  /\ activated \subseteq Jobs
  /\ pdf \in [Jobs -> Nat]
  /\ sticker \in [Jobs -> Nat]
  /\ charged \subseteq Quotes
  /\ emitted \subseteq Jobs
  /\ acked \subseteq Jobs
  /\ pc \in [Workers -> SucceededSteps \union FailedSteps \union {"idle"}]
  /\ cur \in [Workers -> Jobs \union {None}]
  /\ seen \in [Workers -> BOOLEAN]
  /\ edit \in [Brokers -> Quotes \union {None}]
  /\ faults \in 0..MaxFaults

Init ==
  /\ QueueInit
  /\ request = [r \in Requests |-> "start"]
  /\ payment = [q \in Quotes |-> "none"]
  /\ commission = [q \in Quotes |-> "none"]
  /\ policy = [q \in Quotes |-> "none"]
  /\ deleted = {}
  /\ snapshot = [q \in Quotes |-> "none"]
  /\ byHand = {}
  /\ activated = {}
  /\ pdf = [e \in Jobs |-> 0]
  /\ sticker = [e \in Jobs |-> 0]
  /\ charged = {}
  /\ emitted = {}
  /\ acked = {}
  /\ pc = [w \in Workers |-> "idle"]
  /\ cur = [w \in Workers |-> None]
  /\ seen = [w \in Workers |-> FALSE]
  /\ edit = [b \in Brokers |-> None]
  /\ faults = 0

Fault == faults < MaxFaults /\ faults' = faults + 1

-----------------------------------------------------------------------------
(***************************************************************************)
(* PaymentsService.createIntent.  The calls to Stripe carry the key        *)
(* tenant:quote, so every request for a quote gets the same intent.        *)
(***************************************************************************)
RequestStep(r, from, to) ==
  /\ request[r] = from
  /\ request' = [request EXCEPT ![r] = to]

NotInRequest == UNCHANGED <<queueVars, policyVars, outputVars, stripeVars,
                            workerVars, edit>>

(* A payment row under the idempotency key is returned as it is. *)
FindPayment(r) ==
  /\ RequestStep(r, "start",
       IF payment[RequestQuote[r]] = "none" THEN "save" ELSE "returned")
  /\ UNCHANGED <<payment, commission, faults>> /\ NotInRequest

(* The quote, the tenant or Stripe turns the purchase down. *)
RejectPurchase(r) ==
  /\ RequestStep(r, "save", "rejected")
  /\ UNCHANGED <<payment, commission, faults>> /\ NotInRequest

(* The insert, under a unique idempotency key and intent id. *)
SavePayment(r) ==
  LET q == RequestQuote[r] IN
  /\ \/ /\ payment[q] = "none"
        /\ RequestStep(r, "save", "event")
        /\ payment' = [payment EXCEPT ![q] = "pending"]
     \/ /\ payment[q] # "none"
        /\ RequestStep(r, "save", "rejected")
        /\ UNCHANGED payment
  /\ UNCHANGED <<commission, faults>> /\ NotInRequest

(* The pending commission event; an error here is logged and swallowed. *)
CreatePendingEvent(r) ==
  LET q == RequestQuote[r] IN
  /\ RequestStep(r, "event", "returned")
  /\ \/ /\ commission' = [commission EXCEPT ![q] = IF @ = "none" THEN "pending" ELSE @]
        /\ UNCHANGED faults
     \/ Fault /\ UNCHANGED commission
  /\ UNCHANGED payment /\ NotInRequest

(* The process dies between the two inserts. *)
CrashRequest(r) ==
  /\ RequestStep(r, "event", "rejected") /\ Fault
  /\ UNCHANGED <<payment, commission>> /\ NotInRequest

-----------------------------------------------------------------------------
(***************************************************************************)
(* Stripe and the client, as the code relies on them: only a client that   *)
(* holds the client secret can pay; an intent is charged once and declined *)
(* only before; an event is delivered until a 200, possibly again after,   *)
(* and in any order.                                                       *)
(***************************************************************************)
HoldsSecret(q) == \E r \in Requests : RequestQuote[r] = q /\ request[r] = "returned"

NotAtStripe == UNCHANGED <<purchaseVars, policyVars, outputVars, workerVars,
                           edit, faults>>

Charge(q) ==
  /\ HoldsSecret(q)
  /\ q \notin charged
  /\ charged' = charged \union {q}
  /\ emitted' = emitted \union {e \in SucceededEvents : QuoteOf[e] = q}
  /\ UNCHANGED <<acked, queueVars>> /\ NotAtStripe

Decline(e) ==
  /\ e \in FailedEvents
  /\ HoldsSecret(QuoteOf[e])
  /\ QuoteOf[e] \notin charged
  /\ emitted' = emitted \union {e}
  /\ UNCHANGED <<charged, acked, queueVars>> /\ NotAtStripe

(* POST /payments/webhook: verify the signature, queue under the event id. *)
HandleWebhook(e) ==
  /\ e \in emitted
  /\ Add(e)
  /\ acked' = acked \union {e}
  /\ UNCHANGED <<charged, emitted>> /\ NotAtStripe

-----------------------------------------------------------------------------
(***************************************************************************)
(* The queue around the handlers.                                          *)
(***************************************************************************)
Step(w, from, to) ==
  /\ pc[w] = from
  /\ pc' = [pc EXCEPT ![w] = to]

Return(w) ==
  /\ pc' = [pc EXCEPT ![w] = "idle"]
  /\ cur' = [cur EXCEPT ![w] = None]
  /\ seen' = [seen EXCEPT ![w] = FALSE]
  /\ Complete(w, cur[w])

ThrowError(w) ==
  /\ pc' = [pc EXCEPT ![w] = "idle"]
  /\ cur' = [cur EXCEPT ![w] = None]
  /\ seen' = [seen EXCEPT ![w] = FALSE]
  /\ Throw(w, cur[w])

(* Mutant: the switch on event.type falls through to the success handler. *)
TakeEventFallsThrough(w, e) ==
  /\ Step(w, "idle", "check")
  /\ Take(w, e)
  /\ cur' = [cur EXCEPT ![w] = e]
  /\ UNCHANGED <<seen, purchaseVars, policyVars, outputVars, stripeVars, edit, faults>>

(* process(job) and the dispatch on event.type in handleEvent *)
TakeEvent(w, e) ==
  /\ Step(w, "idle", IF e \in SucceededEvents THEN "check" ELSE "read")
  /\ Take(w, e)
  /\ cur' = [cur EXCEPT ![w] = e]
  /\ UNCHANGED <<seen, purchaseVars, policyVars, outputVars, stripeVars, edit, faults>>

(* A statement of a handler throws: a lost connection, a timeout. *)
HandlerThrows(w) ==
  /\ pc[w] # "idle" /\ Fault
  /\ ThrowError(w)
  /\ UNCHANGED <<purchaseVars, policyVars, outputVars, stripeVars, edit>>

CrashWorker(w) ==
  /\ Step(w, pc[w], "idle") /\ pc[w] # "idle" /\ Fault
  /\ cur' = [cur EXCEPT ![w] = None]
  /\ seen' = [seen EXCEPT ![w] = FALSE]
  /\ UNCHANGED <<queueVars, purchaseVars, policyVars, outputVars, stripeVars, edit>>

(* The stalled-job checker finds the job of a worker that died ... *)
Recover(e) ==
  /\ \A w \in Workers : lock[e] = w => cur[w] # e
  /\ Reclaim(e)
  /\ UNCHANGED <<purchaseVars, policyVars, outputVars, stripeVars, workerVars, edit, faults>>

(* ... or of one that is alive and still runs the handler. *)
LoseLock(e) ==
  /\ \E w \in Workers : lock[e] = w /\ cur[w] = e
  /\ Fault
  /\ Reclaim(e)
  /\ UNCHANGED <<purchaseVars, policyVars, outputVars, stripeVars, workerVars, edit>>

ForgetEvent(e) ==
  /\ Forget(e)
  /\ UNCHANGED <<purchaseVars, policyVars, outputVars, stripeVars, workerVars, edit, faults>>

-----------------------------------------------------------------------------
(***************************************************************************)
(* handlePaymentSucceeded, one action per awaited statement that reads or  *)
(* writes shared state.                                                    *)
(***************************************************************************)
Live(q) == policy[q] # "none" /\ q \notin deleted

(* 0. the event already has its ACTIVATED row *)
CheckDuplicate(w) ==
  /\ pc[w] = "check"
  /\ IF cur[w] \in activated
     THEN Return(w)
     ELSE Step(w, "check", "find") /\ UNCHANGED <<cur, seen, queueVars>>
  /\ UNCHANGED <<purchaseVars, policyVars, outputVars, stripeVars, edit, faults>>

(* Mutant: the check for an ACTIVE policy is dropped. *)
FindPolicyUnchecked(w) ==
  /\ Step(w, "find", "succeed")
  /\ seen' = [seen EXCEPT ![w] = Live(QuoteOf[cur[w]])]
  /\ UNCHANGED <<cur, queueVars, purchaseVars, policyVars, outputVars, stripeVars, edit, faults>>

(* 1., 2. the payment row, and the policy row of the intent *)
FindPolicy(w) ==
  LET q == QuoteOf[cur[w]] IN
  /\ pc[w] = "find"
  /\ IF payment[q] = "none" \/ (Live(q) /\ policy[q] = "active")
     THEN Return(w)
     ELSE /\ Step(w, "find", "succeed")
          /\ seen' = [seen EXCEPT ![w] = Live(q)]
          /\ UNCHANGED <<cur, queueVars>>
  /\ UNCHANGED <<purchaseVars, policyVars, outputVars, stripeVars, edit, faults>>

(* Mutant: the payment row is not updated. *)
MarkSucceededSkipped(w) ==
  /\ Step(w, "succeed", "issue")
  /\ UNCHANGED <<cur, seen, queueVars, purchaseVars, policyVars, outputVars,
                 stripeVars, edit, faults>>

(* Mutant: the commission is confirmed together with the payment. *)
MarkSucceededConfirms(w) ==
  LET q == QuoteOf[cur[w]] IN
  /\ Step(w, "succeed", "issue")
  /\ payment' = [payment EXCEPT ![q] = "succeeded"]
  /\ commission' = [commission EXCEPT ![q] = IF @ = "none" THEN @ ELSE "confirmed"]
  /\ UNCHANGED <<cur, seen, queueVars, request, policyVars, outputVars,
                 stripeVars, edit, faults>>

(* 3. the payment row, whatever its status *)
MarkSucceeded(w) ==
  /\ Step(w, "succeed", "issue")
  /\ payment' = [payment EXCEPT ![QuoteOf[cur[w]]] = "succeeded"]
  /\ UNCHANGED <<cur, seen, queueVars, request, commission, policyVars, outputVars,
                 stripeVars, edit, faults>>

(* Mutant: activating the row that was found computes the commission. *)
IssuePolicyAgain(w) ==
  LET q == QuoteOf[cur[w]] IN
  /\ Step(w, "issue", "record")
  /\ policy' = [policy EXCEPT ![q] = "active"]
  /\ snapshot' = [snapshot EXCEPT ![q] = "original"]
  /\ UNCHANGED <<cur, seen, queueVars, deleted, byHand, purchaseVars, outputVars,
                 stripeVars, edit, faults>>

(* 8. activate the row that was found; or insert one, which the unique     *)
(* intent id refuses when a row exists, deleted or not.                    *)
IssuePolicy(w) ==
  LET q == QuoteOf[cur[w]] IN
  /\ pc[w] = "issue"
  /\ \/ /\ seen[w]
        /\ Step(w, "issue", "record")
        /\ policy' = [policy EXCEPT ![q] = "active"]
        /\ UNCHANGED <<cur, seen, queueVars, snapshot>>
     \/ /\ ~seen[w] /\ policy[q] = "none"
        /\ Step(w, "issue", "record")
        /\ policy' = [policy EXCEPT ![q] = "active"]
        /\ snapshot' = [snapshot EXCEPT ![q] = "original"]
        /\ UNCHANGED <<cur, seen, queueVars>>
     \/ /\ ~seen[w] /\ policy[q] # "none"
        /\ ThrowError(w)
        /\ UNCHANGED <<policy, snapshot>>
  /\ UNCHANGED <<deleted, byHand, purchaseVars, outputVars, stripeVars, edit, faults>>

(* Mutant: no unique index on stripe_event_id. *)
RecordActivationTwice(w) ==
  /\ Step(w, "record", "pdf")
  /\ activated' = activated \union {cur[w]}
  /\ UNCHANGED <<cur, seen, queueVars, pdf, sticker, purchaseVars, policyVars,
                 stripeVars, edit, faults>>

(* Mutant: the PDF job is left out. *)
RecordActivationNoPdf(w) ==
  /\ pc[w] = "record"
  /\ IF cur[w] \in activated
     THEN Return(w) /\ UNCHANGED activated
     ELSE /\ Step(w, "record", "sticker")
          /\ activated' = activated \union {cur[w]}
          /\ UNCHANGED <<cur, seen, queueVars>>
  /\ UNCHANGED <<pdf, sticker, purchaseVars, policyVars, stripeVars, edit, faults>>

(* 8. the ACTIVATED row, unique per Stripe event *)
RecordActivation(w) ==
  /\ pc[w] = "record"
  /\ IF cur[w] \in activated
     THEN Return(w) /\ UNCHANGED activated
     ELSE /\ Step(w, "record", "pdf")
          /\ activated' = activated \union {cur[w]}
          /\ UNCHANGED <<cur, seen, queueVars>>
  /\ UNCHANGED <<pdf, sticker, purchaseVars, policyVars, stripeVars, edit, faults>>

(* 9., 10. the PDF job and its log row *)
QueuePdf(w) ==
  /\ Step(w, "pdf", "sticker")
  /\ pdf' = [pdf EXCEPT ![cur[w]] = @ + 1]
  /\ UNCHANGED <<cur, seen, queueVars, activated, sticker, purchaseVars, policyVars,
                 stripeVars, edit, faults>>

(* 11. the sticker job, when the tenant has the feature at this moment *)
QueueSticker(w) ==
  /\ Step(w, "sticker", "confirm")
  /\ \E enabled \in BOOLEAN :
       sticker' = IF enabled /\ QuoteOf[cur[w]] \in WithAddress
                  THEN [sticker EXCEPT ![cur[w]] = @ + 1] ELSE sticker
  /\ UNCHANGED <<cur, seen, queueVars, activated, pdf, purchaseVars, policyVars,
                 stripeVars, edit, faults>>

(* An UPDATE ... WHERE payment_id: no row, no effect. *)
SetCommission(q, status) ==
  commission' = [commission EXCEPT ![q] = IF @ = "none" THEN @ ELSE status]

(* Mutant: the payment's status is written to the commission row. *)
ConfirmCommissionSucceeded(w) ==
  /\ pc[w] = "confirm"
  /\ SetCommission(QuoteOf[cur[w]], "succeeded")
  /\ Return(w)
  /\ UNCHANGED <<request, payment, policyVars, outputVars, stripeVars, edit, faults>>

(* Mutant: the handler waits for the pending commission event. *)
ConfirmCommissionWaits(w) ==
  /\ pc[w] = "confirm"
  /\ commission[QuoteOf[cur[w]]] # "none"
  /\ SetCommission(QuoteOf[cur[w]], "confirmed")
  /\ Return(w)
  /\ UNCHANGED <<request, payment, policyVars, outputVars, stripeVars, edit, faults>>

(* 12. confirm the pending commission event; errors are swallowed *)
ConfirmCommission(w) ==
  /\ pc[w] = "confirm"
  /\ \/ SetCommission(QuoteOf[cur[w]], "confirmed") /\ UNCHANGED faults
     \/ Fault /\ UNCHANGED commission
  /\ Return(w)
  /\ UNCHANGED <<request, payment, policyVars, outputVars, stripeVars, edit>>

-----------------------------------------------------------------------------
(***************************************************************************)
(* handlePaymentFailed.                                                    *)
(***************************************************************************)
ReadPayment(w) ==
  /\ pc[w] = "read"
  /\ IF payment[QuoteOf[cur[w]]] \in {"none", "failed"}
     THEN Return(w)
     ELSE Step(w, "read", "fail") /\ UNCHANGED <<cur, seen, queueVars>>
  /\ UNCHANGED <<purchaseVars, policyVars, outputVars, stripeVars, edit, faults>>

MarkFailed(w) ==
  /\ Step(w, "fail", "failCommission")
  /\ payment' = [payment EXCEPT ![QuoteOf[cur[w]]] = "failed"]
  /\ UNCHANGED <<cur, seen, queueVars, request, commission, policyVars, outputVars,
                 stripeVars, edit, faults>>

FailCommission(w) ==
  /\ pc[w] = "failCommission"
  /\ \/ SetCommission(QuoteOf[cur[w]], "failed") /\ UNCHANGED faults
     \/ Fault /\ UNCHANGED commission
  /\ Return(w)
  /\ UNCHANGED <<request, payment, policyVars, outputVars, stripeVars, edit>>

-----------------------------------------------------------------------------
(***************************************************************************)
(* PoliciesService: a row may be entered by hand; a broker's update reads  *)
(* the row and later writes every column back, from the request or as it   *)
(* was read; a delete is soft.                                             *)
(***************************************************************************)
NotBroker == UNCHANGED <<queueVars, purchaseVars, outputVars, stripeVars, workerVars, faults>>

(* The intent has its id: a createIntent call has gone on to Stripe.       *)
AtStripe(q) == \E r \in Requests : RequestQuote[r] = q /\ request[r] # "start"

(* POST /policies: a row in any status (active, when the request names     *)
(* none) under the intent the request names.  Its payment_id may be any    *)
(* payment of the tenant, so the purchase's own payment is not asked; the  *)
(* unique intent id refuses a second row.  A row whose intent id is made   *)
(* up, because the request names none, belongs to no purchase here.        *)
CreatePolicy(b, q) ==
  /\ edit[b] = None
  /\ AtStripe(q)
  /\ policy[q] = "none"
  /\ \E s \in PolicyStatus : policy' = [policy EXCEPT ![q] = s]
  /\ \E s \in {"original", "edited"} : snapshot' = [snapshot EXCEPT ![q] = s]
  /\ byHand' = byHand \union {q}
  /\ UNCHANGED <<deleted, edit>> /\ NotBroker

ReadForUpdate(b, q) ==
  /\ edit[b] = None
  /\ Live(q)
  /\ edit' = [edit EXCEPT ![b] = q]
  /\ UNCHANGED policyVars /\ NotBroker

UpdatePolicy(b) ==
  LET q == edit[b] IN
  /\ q # None
  /\ \E s \in PolicyStatus : policy' = [policy EXCEPT ![q] = s]
  /\ \E s \in {"original", "edited"} : snapshot' = [snapshot EXCEPT ![q] = s]
  /\ edit' = [edit EXCEPT ![b] = None]
  /\ UNCHANGED <<deleted, byHand>> /\ NotBroker

DeletePolicy(b, q) ==
  /\ edit[b] = None
  /\ Live(q)
  /\ deleted' = deleted \union {q}
  /\ UNCHANGED <<policy, snapshot, byHand, edit>> /\ NotBroker

-----------------------------------------------------------------------------
RequestAction(r) ==
  \/ FindPayment(r) \/ RejectPurchase(r) \/ SavePayment(r)
  \/ CreatePendingEvent(r) \/ CrashRequest(r)

HandlerAction(w) ==
  \/ CheckDuplicate(w) \/ FindPolicy(w) \/ MarkSucceeded(w) \/ IssuePolicy(w)
  \/ RecordActivation(w) \/ QueuePdf(w) \/ QueueSticker(w) \/ ConfirmCommission(w)
  \/ ReadPayment(w) \/ MarkFailed(w) \/ FailCommission(w)

WorkerAction(w) ==
  \/ HandlerAction(w) \/ HandlerThrows(w) \/ CrashWorker(w)
  \/ \E e \in Jobs : TakeEvent(w, e)

EventAction(e) ==
  \/ Decline(e) \/ HandleWebhook(e) \/ Recover(e) \/ LoseLock(e) \/ ForgetEvent(e)

BrokerAction(b) ==
  \/ UpdatePolicy(b)
  \/ \E q \in Quotes : CreatePolicy(b, q) \/ ReadForUpdate(b, q) \/ DeletePolicy(b, q)

Next ==
  \/ \E r \in Requests : RequestAction(r)
  \/ \E q \in Quotes : Charge(q)
  \/ \E e \in Jobs : EventAction(e)
  \/ \E w \in Workers : WorkerAction(w)
  \/ \E b \in Brokers : BrokerAction(b)

(***************************************************************************)
(* What the code and its platform keep doing: a call that has started goes *)
(* on, Stripe delivers until it gets a 200, the queue hands out jobs in    *)
(* FIFO order, the stalled-job checker runs.  No client, broker, fault or  *)
(* redelivery is ever forced.                                              *)
(***************************************************************************)
Fairness ==
  /\ \A r \in Requests :
       WF_vars(FindPayment(r) \/ SavePayment(r) \/ CreatePendingEvent(r))
  /\ \A e \in Jobs :
       /\ WF_vars(e \notin acked /\ HandleWebhook(e))
       /\ WF_vars(Recover(e))
       /\ SF_vars(\E w \in Workers : TakeEvent(w, e))
  /\ \A w \in Workers : WF_vars(HandlerAction(w))

Spec == Init /\ [][Next]_vars
FairSpec == Spec /\ Fairness

-----------------------------------------------------------------------------
(***************************************************************************)
(* Properties.                                                             *)
(***************************************************************************)

(* What the pipeline itself does towards "a policy is never activated      *)
(* client-side" (README.md:13): a policies row that no broker entered      *)
(* exists only when Stripe has charged its intent and the payment row has  *)
(* left "pending" before, and an activation is on record only then, also   *)
(* of a row entered by hand (stripe-webhook.service.ts:177-285).           *)
Paid(q) == q \in charged /\ payment[q] \in {"succeeded", "failed"}

PolicyIsPaid ==
  /\ \A q \in Quotes \ byHand : policy[q] # "none" => Paid(q)
  /\ \A e \in activated : Paid(QuoteOf[e])

(* However often an event is redelivered, retried or run twice, its        *)
(* handlers order the policy's PDF at most once, and a sticker only with   *)
(* it: the unique stripe_event_id of policy_events decides which run goes  *)
(* on (stripe-webhook.service.ts:263-285).                                 *)
DocumentsOncePerEvent ==
  \A e \in Jobs : pdf[e] <= 1 /\ sticker[e] <= pdf[e]

(* Two Stripe events that report the same payment order the documents of   *)
(* one policy once: the unique intent id of policies and the ACTIVE check  *)
(* stop the other (stripe-webhook.service.ts:184-191).  Only a broker who  *)
(* takes the policy out of ACTIVE in between lets the second one through.  *)
DocumentsOncePerPolicy ==
  \A e, f \in SucceededEvents :
    e # f /\ QuoteOf[e] = QuoteOf[f] => pdf[e] + pdf[f] <= 1

(* A payment row says "succeeded" only of a charged intent, and "failed"   *)
(* only when Stripe has reported a failure of that intent.                 *)
PaymentStatusExplained ==
  \A q \in Quotes :
    /\ payment[q] = "succeeded" => q \in charged
    /\ payment[q] = "failed" => \E e \in FailedEvents \intersect emitted : QuoteOf[e] = q

(* A commission is confirmed only for a purchase whose activation is on    *)
(* record in policy_events.                                                *)
ConfirmedHasActivation ==
  \A q \in Quotes :
    commission[q] = "confirmed" => \E e \in activated : QuoteOf[e] = q

(* Unless a handler's run is cut short, a charged purchase gets its        *)
(* documents ordered, however its events interleave.                       *)
Ordered(q) == \E e \in SucceededEvents : QuoteOf[e] = q /\ pdf[e] = 1

DocumentsEventuallyOrdered ==
  \A q \in Quotes : [](faults = 0) => (q \in charged ~> Ordered(q))

(* ... and that without the exception: a purchase Stripe has charged       *)
(* always has its documents ordered in the end.                            *)
ChargedGetsDocuments == \A q \in Quotes : q \in charged ~> Ordered(q)

(* Every delivered event is finally done with: completed, or in the dead   *)
(* letter set, or forgotten.                                               *)
DeliveredIsSettled ==
  \A e \in Jobs : e \in acked ~> job[e] \in {"completed", "failed", "absent"}

(* The pipeline implements the ledger of purchases: a policy counts as     *)
(* issued from the moment its row exists, and as entered when a broker     *)
(* wrote that row.                                                         *)
Ledger == INSTANCE PurchaseLedger WITH
  Events <- SucceededEvents,
  issued <- {q \in Quotes : policy[q] # "none"},
  entered <- byHand,
  recorded <- activated,
  pdf <- [e \in SucceededEvents |-> pdf[e]],
  sticker <- [e \in SucceededEvents |-> sticker[e]]

ImplementsLedger == Ledger!Spec

(* A payment the system calls failed has no active policy: "payment failed *)
(* ... no policy activation" (stripe-webhook.service.ts:382, :397).        *)
FailedPaymentHasNoActivePolicy ==
  \A q \in Quotes : ~(payment[q] = "failed" /\ Live(q) /\ policy[q] = "active")

(* The commission columns of a policy ("IMMUTABLE snapshot",               *)
(* policy.entity.ts:60, :63) are changed by a broker's update alone: no    *)
(* redelivered or retried event computes them again.                       *)
OnlyBrokersEditSnapshots ==
  [][\A q \in Quotes : snapshot[q] \notin {"none", snapshot'[q]} =>
       \E b \in Brokers : edit[b] = q /\ edit'[b] = None]_vars
-----------------------------------------------------------------------------
(* The instance that TLC checks: every request and event is about one      *)
(* quote, and workers are interchangeable.                                 *)
RequestsOfOneQuote == [r \in Requests |-> CHOOSE q \in Quotes : TRUE]
EventsOfOneQuote == [e \in Jobs |-> CHOOSE q \in Quotes : TRUE]
WorkerSymmetry == Permutations(Workers)
=============================================================================
