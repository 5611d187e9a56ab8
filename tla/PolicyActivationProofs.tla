------------------------ MODULE PolicyActivationProofs ------------------------
(***************************************************************************)
(* Theorems about PolicyActivation, for every set of quotes, requests,     *)
(* events, workers and brokers and any number of faults.                   *)
(*                                                                         *)
(* The inductive invariant IInv adds to the type invariant what the        *)
(* handlers know at each statement: which rows exist, that the event a     *)
(* worker handles was emitted by Stripe, and that past the unique insert   *)
(* of the ACTIVATED row a worker is alone with its event.                  *)
(***************************************************************************)
EXTENDS PolicyActivation, TLAPS

(* What Redis holds of a job agrees with its counters and its lock. *)
QueueInv ==
  \A j \in Jobs :
    /\ job[j] \in {"waiting", "active"} => tries[j] < MaxAttempts /\ stalls[j] <= MaxStalls
    /\ job[j] = "absent" => tries[j] = 0 /\ stalls[j] = 0
    /\ lock[j] # None => job[j] = "active"

(* Nothing is charged, emitted or queued before the payment row exists. *)
PaymentInv ==
  /\ \A r \in Requests :
       request[r] \in {"event", "returned"} => payment[RequestQuote[r]] # "none"
  /\ \A q \in charged : payment[q] # "none"
  /\ \A e \in emitted :
       /\ payment[QuoteOf[e]] # "none"
       /\ e \in SucceededEvents => QuoteOf[e] \in charged
  /\ \A e \in Jobs : job[e] # "absent" => e \in emitted

(* What the rows say of each other. *)
RowInv ==
  /\ PolicyIsPaid
  /\ PaymentStatusExplained
  /\ ConfirmedHasActivation
  /\ \A e \in activated : e \in SucceededEvents /\ policy[QuoteOf[e]] # "none"
  /\ \A q \in byHand : policy[q] # "none"
  /\ \A b \in Brokers : edit[b] # None => policy[edit[b]] # "none"

(* What a worker knows at its next statement. *)
WorkerInv ==
  \A w \in Workers :
    /\ cur[w] = None <=> pc[w] = "idle"
    /\ pc[w] \in SucceededSteps => cur[w] \in SucceededEvents \intersect emitted
    /\ pc[w] \in FailedSteps => cur[w] \in FailedEvents \intersect emitted
    /\ pc[w] \in {"issue", "record", "pdf", "sticker", "confirm"} =>
         payment[QuoteOf[cur[w]]] \in {"succeeded", "failed"}
    /\ pc[w] \in {"record", "pdf", "sticker", "confirm"} =>
         policy[QuoteOf[cur[w]]] # "none"
    /\ pc[w] \in {"succeed", "issue"} /\ seen[w] => policy[QuoteOf[cur[w]]] # "none"
    /\ pc[w] \in {"pdf", "sticker", "confirm"} => cur[w] \in activated
    /\ pc[w] = "pdf" => pdf[cur[w]] = 0
    /\ pc[w] = "sticker" => pdf[cur[w]] = 1 /\ sticker[cur[w]] = 0

(* Documents belong to recorded events, and one worker orders them. *)
DocumentInv ==
  /\ \A e \in Jobs \ activated : pdf[e] = 0
  /\ DocumentsOncePerEvent
  /\ \A v, w \in Workers :
       /\ v # w
       /\ pc[v] \in {"pdf", "sticker", "confirm"}
       /\ pc[w] \in {"pdf", "sticker", "confirm"}
       => cur[v] # cur[w]

IInv ==
  /\ TypeOK
  /\ QueueInv
  /\ PaymentInv
  /\ RowInv
  /\ WorkerInv
  /\ DocumentInv

-----------------------------------------------------------------------------
(***************************************************************************)
(* Type correctness.                                                       *)
(***************************************************************************)

(* The tables, the queue and the workers start well-typed.                 *)
LEMMA TypeInit == Init => TypeOK /\ QueueInv
  BY QueueAssumption, PurchaseAssumption
     DEF Init, QueueInit, TypeOK, QueueTypeOK, QueueInv, JobState, PaymentStatus,
         CommissionStatus, Snapshot

(* Every step of the pipeline is, on the queue, one of these. *)
QueueStep ==
  \/ UNCHANGED queueVars
  \/ \E w \in Workers, j \in Jobs \union {None} : Complete(w, j) \/ Throw(w, j)
  \/ \E w \in Workers, j \in Jobs : Take(w, j)
  \/ \E j \in emitted : Add(j)
  \/ \E j \in Jobs : Reclaim(j) \/ Forget(j)

(* Only an event that Stripe emitted comes to the queue. *)
NoneAppears ==
  \A j \in Jobs : job'[j] # "absent" => job[j] # "absent" \/ j \in emitted

(* The queue's own typing: attempts and stalls stay within their bounds, and *)
(* a lock belongs to an active job.                                        *)
LEMMA QueueSteps ==
  ASSUME QueueTypeOK, QueueInv, QueueStep, emitted \subseteq Jobs
  PROVE  QueueTypeOK' /\ QueueInv' /\ NoneAppears
<1> USE QueueAssumption DEF QueueTypeOK, QueueInv, JobState, NoneAppears
<1>1. CASE UNCHANGED queueVars
  BY <1>1 DEF queueVars
<1>2. ASSUME NEW w \in Workers, NEW j \in Jobs \union {None}, Complete(w, j)
      PROVE  QueueTypeOK' /\ QueueInv' /\ NoneAppears
  BY <1>2 DEF Complete, queueVars
<1>3. ASSUME NEW w \in Workers, NEW j \in Jobs \union {None}, Throw(w, j)
      PROVE  QueueTypeOK' /\ QueueInv' /\ NoneAppears
  BY <1>3 DEF Throw, queueVars
<1>4. ASSUME NEW w \in Workers, NEW j \in Jobs, Take(w, j)
      PROVE  QueueTypeOK' /\ QueueInv' /\ NoneAppears
  BY <1>4 DEF Take
<1>5. ASSUME NEW j \in emitted, Add(j)
      PROVE  QueueTypeOK' /\ QueueInv' /\ NoneAppears
  BY <1>5 DEF Add
<1>6. ASSUME NEW j \in Jobs, Reclaim(j)
      PROVE  QueueTypeOK' /\ QueueInv' /\ NoneAppears
  BY <1>6 DEF Reclaim
<1>7. ASSUME NEW j \in Jobs, Forget(j)
      PROVE  QueueTypeOK' /\ QueueInv' /\ NoneAppears
  BY <1>7 DEF Forget
<1> QED
  BY <1>1, <1>2, <1>3, <1>4, <1>5, <1>6, <1>7 DEF QueueStep

(* Whatever a handler does, it touches the queue only through Bull's calls. *)
LEMMA EveryStepIsQueueStep ==
  ASSUME TypeOK, [Next]_vars
  PROVE  QueueStep
<1> USE DEF QueueStep, TypeOK, queueVars
<1>1. ASSUME NEW r \in Requests, FindPayment(r)
      PROVE  QueueStep
  BY <1>1 DEF FindPayment, RequestStep, NotInRequest
<1>2. ASSUME NEW r \in Requests, RejectPurchase(r)
      PROVE  QueueStep
  BY <1>2 DEF RejectPurchase, RequestStep, NotInRequest
<1>3. ASSUME NEW r \in Requests, SavePayment(r)
      PROVE  QueueStep
  BY <1>3 DEF SavePayment, RequestStep, NotInRequest
<1>4. ASSUME NEW r \in Requests, CreatePendingEvent(r)
      PROVE  QueueStep
  BY <1>4 DEF CreatePendingEvent, RequestStep, NotInRequest, Fault
<1>5. ASSUME NEW r \in Requests, CrashRequest(r)
      PROVE  QueueStep
  BY <1>5 DEF CrashRequest, RequestStep, NotInRequest, Fault
<1>6. ASSUME NEW q \in Quotes, Charge(q)
      PROVE  QueueStep
  BY <1>6 DEF Charge, NotAtStripe
<1>7. ASSUME NEW e \in Jobs, Decline(e)
      PROVE  QueueStep
  BY <1>7 DEF Decline, NotAtStripe
<1>8. ASSUME NEW e \in Jobs, HandleWebhook(e)
      PROVE  QueueStep
  BY <1>8 DEF HandleWebhook, NotAtStripe
<1>9. ASSUME NEW e \in Jobs, Recover(e)
      PROVE  QueueStep
  BY <1>9 DEF Recover
<1>10. ASSUME NEW e \in Jobs, LoseLock(e)
      PROVE  QueueStep
  BY <1>10 DEF LoseLock, Fault
<1>11. ASSUME NEW e \in Jobs, ForgetEvent(e)
      PROVE  QueueStep
  BY <1>11 DEF ForgetEvent
<1>12. ASSUME NEW w \in Workers, NEW e \in Jobs, TakeEvent(w, e)
      PROVE  QueueStep
  BY <1>12 DEF TakeEvent, Step
<1>13. ASSUME NEW w \in Workers, HandlerThrows(w)
      PROVE  QueueStep
  BY <1>13 DEF HandlerThrows, Fault, ThrowError
<1>14. ASSUME NEW w \in Workers, CrashWorker(w)
      PROVE  QueueStep
  BY <1>14 DEF CrashWorker, Fault, Step
<1>15. ASSUME NEW w \in Workers, CheckDuplicate(w)
      PROVE  QueueStep
  BY <1>15 DEF CheckDuplicate, Return, Step
<1>16. ASSUME NEW w \in Workers, FindPolicy(w)
      PROVE  QueueStep
  BY <1>16 DEF FindPolicy, Return, Step
<1>17. ASSUME NEW w \in Workers, MarkSucceeded(w)
      PROVE  QueueStep
  BY <1>17 DEF MarkSucceeded, Step
<1>18. ASSUME NEW w \in Workers, IssuePolicy(w)
      PROVE  QueueStep
  BY <1>18 DEF IssuePolicy, Step, ThrowError
<1>19. ASSUME NEW w \in Workers, RecordActivation(w)
      PROVE  QueueStep
  BY <1>19 DEF RecordActivation, Return, Step
<1>20. ASSUME NEW w \in Workers, QueuePdf(w)
      PROVE  QueueStep
  BY <1>20 DEF QueuePdf, Step
<1>21. ASSUME NEW w \in Workers, QueueSticker(w)
      PROVE  QueueStep
  BY <1>21 DEF QueueSticker, Step
<1>22. ASSUME NEW w \in Workers, ConfirmCommission(w)
      PROVE  QueueStep
  BY <1>22 DEF ConfirmCommission, Return, Fault, SetCommission
<1>23. ASSUME NEW w \in Workers, ReadPayment(w)
      PROVE  QueueStep
  BY <1>23 DEF ReadPayment, Return, Step
<1>24. ASSUME NEW w \in Workers, MarkFailed(w)
      PROVE  QueueStep
  BY <1>24 DEF MarkFailed, Step
<1>25. ASSUME NEW w \in Workers, FailCommission(w)
      PROVE  QueueStep
  BY <1>25 DEF FailCommission, Return, Fault, SetCommission
<1>26. ASSUME NEW b \in Brokers, UpdatePolicy(b)
      PROVE  QueueStep
  BY <1>26 DEF UpdatePolicy, NotBroker
<1>27. ASSUME NEW b \in Brokers, NEW q \in Quotes, ReadForUpdate(b, q)
      PROVE  QueueStep
  BY <1>27 DEF ReadForUpdate, NotBroker
<1>28. ASSUME NEW b \in Brokers, NEW q \in Quotes, DeletePolicy(b, q)
      PROVE  QueueStep
  BY <1>28 DEF DeletePolicy, NotBroker
<1>29. CASE UNCHANGED vars
  BY <1>29 DEF vars
<1>30. ASSUME NEW b \in Brokers, NEW q \in Quotes, CreatePolicy(b, q)
      PROVE  QueueStep
  BY <1>30 DEF CreatePolicy, NotBroker
<1> QED
  BY <1>1, <1>2, <1>3, <1>4, <1>5, <1>6, <1>7, <1>8, <1>9, <1>10, <1>11,
     <1>12, <1>13, <1>14, <1>15, <1>16, <1>17, <1>18, <1>19, <1>20,
     <1>21, <1>22, <1>23, <1>24, <1>25, <1>26, <1>27, <1>28, <1>29, <1>30
     DEF Next, RequestAction, EventAction, WorkerAction, HandlerAction, BrokerAction

(* The variables of the handlers, and the others but the queue's.         *)
HandlerTypeOK ==
  /\ pc \in [Workers -> SucceededSteps \union FailedSteps \union {"idle"}]
  /\ cur \in [Workers -> Jobs \union {None}]
  /\ seen \in [Workers -> BOOLEAN]
  /\ \A w \in Workers : cur[w] = None <=> pc[w] = "idle"

DataTypeOK ==
  /\ request \in [Requests -> {"start", "save", "event", "returned", "rejected"}]
  /\ payment \in [Quotes -> PaymentStatus]
  /\ commission \in [Quotes -> CommissionStatus]
  /\ policy \in [Quotes -> PolicyStatus \union {"none"}]
  /\ deleted \subseteq Quotes
  /\ snapshot \in [Quotes -> Snapshot]
  /\ byHand \subseteq Quotes
  /\ activated \subseteq Jobs
  /\ pdf \in [Jobs -> Nat]
  /\ sticker \in [Jobs -> Nat]
  /\ charged \subseteq Quotes
  /\ emitted \subseteq Jobs
  /\ acked \subseteq Jobs
  /\ edit \in [Brokers -> Quotes \union {None}]
  /\ faults \in 0..MaxFaults

(* A worker has an event exactly while it runs a handler.                  *)
LEMMA HandlerTypeStep ==
  ASSUME HandlerTypeOK, [Next]_vars
  PROVE  HandlerTypeOK'
<1> USE QueueAssumption DEF HandlerTypeOK, SucceededSteps, FailedSteps, workerVars
<1>1. ASSUME NEW r \in Requests, FindPayment(r)
      PROVE  HandlerTypeOK'
  BY <1>1 DEF FindPayment, RequestStep, NotInRequest
<1>2. ASSUME NEW r \in Requests, RejectPurchase(r)
      PROVE  HandlerTypeOK'
  BY <1>2 DEF RejectPurchase, RequestStep, NotInRequest
<1>3. ASSUME NEW r \in Requests, SavePayment(r)
      PROVE  HandlerTypeOK'
  BY <1>3 DEF SavePayment, RequestStep, NotInRequest
<1>4. ASSUME NEW r \in Requests, CreatePendingEvent(r)
      PROVE  HandlerTypeOK'
  BY <1>4 DEF CreatePendingEvent, RequestStep, NotInRequest, Fault
<1>5. ASSUME NEW r \in Requests, CrashRequest(r)
      PROVE  HandlerTypeOK'
  BY <1>5 DEF CrashRequest, RequestStep, NotInRequest, Fault
<1>6. ASSUME NEW q \in Quotes, Charge(q)
      PROVE  HandlerTypeOK'
  BY <1>6 DEF Charge, HoldsSecret, NotAtStripe
<1>7. ASSUME NEW e \in Jobs, Decline(e)
      PROVE  HandlerTypeOK'
  BY <1>7 DEF Decline, HoldsSecret, NotAtStripe
<1>8. ASSUME NEW e \in Jobs, HandleWebhook(e)
      PROVE  HandlerTypeOK'
  BY <1>8 DEF HandleWebhook, NotAtStripe
<1>9. ASSUME NEW e \in Jobs, Recover(e)
      PROVE  HandlerTypeOK'
  BY <1>9 DEF Recover
<1>10. ASSUME NEW e \in Jobs, LoseLock(e)
      PROVE  HandlerTypeOK'
  BY <1>10 DEF LoseLock, Fault
<1>11. ASSUME NEW e \in Jobs, ForgetEvent(e)
      PROVE  HandlerTypeOK'
  BY <1>11 DEF ForgetEvent
<1>12. ASSUME NEW w \in Workers, NEW e \in Jobs, TakeEvent(w, e)
      PROVE  HandlerTypeOK'
  BY <1>12 DEF TakeEvent, Step
<1>13. ASSUME NEW w \in Workers, HandlerThrows(w)
      PROVE  HandlerTypeOK'
  BY <1>13 DEF HandlerThrows, Fault, ThrowError
<1>14. ASSUME NEW w \in Workers, CrashWorker(w)
      PROVE  HandlerTypeOK'
  BY <1>14 DEF CrashWorker, Fault, Step
<1>15. ASSUME NEW w \in Workers, CheckDuplicate(w)
      PROVE  HandlerTypeOK'
  BY <1>15 DEF CheckDuplicate, Return, Step
<1>16. ASSUME NEW w \in Workers, FindPolicy(w)
      PROVE  HandlerTypeOK'
  BY <1>16 DEF FindPolicy, Return, Step, Live
<1>17. ASSUME NEW w \in Workers, MarkSucceeded(w)
      PROVE  HandlerTypeOK'
  BY <1>17 DEF MarkSucceeded, Step
<1>18. ASSUME NEW w \in Workers, IssuePolicy(w)
      PROVE  HandlerTypeOK'
  BY <1>18 DEF IssuePolicy, Step, ThrowError
<1>19. ASSUME NEW w \in Workers, RecordActivation(w)
      PROVE  HandlerTypeOK'
  BY <1>19 DEF RecordActivation, Return, Step
<1>20. ASSUME NEW w \in Workers, QueuePdf(w)
      PROVE  HandlerTypeOK'
  BY <1>20 DEF QueuePdf, Step
<1>21. ASSUME NEW w \in Workers, QueueSticker(w)
      PROVE  HandlerTypeOK'
  BY <1>21 DEF QueueSticker, Step
<1>22. ASSUME NEW w \in Workers, ConfirmCommission(w)
      PROVE  HandlerTypeOK'
  BY <1>22 DEF ConfirmCommission, Return, Fault, SetCommission
<1>23. ASSUME NEW w \in Workers, ReadPayment(w)
      PROVE  HandlerTypeOK'
  BY <1>23 DEF ReadPayment, Return, Step
<1>24. ASSUME NEW w \in Workers, MarkFailed(w)
      PROVE  HandlerTypeOK'
  BY <1>24 DEF MarkFailed, Step
<1>25. ASSUME NEW w \in Workers, FailCommission(w)
      PROVE  HandlerTypeOK'
  BY <1>25 DEF FailCommission, Return, Fault, SetCommission
<1>26. ASSUME NEW b \in Brokers, UpdatePolicy(b)
      PROVE  HandlerTypeOK'
  BY <1>26 DEF UpdatePolicy, PolicyStatus, NotBroker
<1>27. ASSUME NEW b \in Brokers, NEW q \in Quotes, ReadForUpdate(b, q)
      PROVE  HandlerTypeOK'
  BY <1>27 DEF ReadForUpdate, Live, NotBroker
<1>28. ASSUME NEW b \in Brokers, NEW q \in Quotes, DeletePolicy(b, q)
      PROVE  HandlerTypeOK'
  BY <1>28 DEF DeletePolicy, NotBroker
<1>29. CASE UNCHANGED vars
  BY <1>29 DEF vars
<1>30. ASSUME NEW b \in Brokers, NEW q \in Quotes, CreatePolicy(b, q)
      PROVE  HandlerTypeOK'
  BY <1>30 DEF CreatePolicy, NotBroker
<1> QED
  BY <1>1, <1>2, <1>3, <1>4, <1>5, <1>6, <1>7, <1>8, <1>9, <1>10, <1>11,
     <1>12, <1>13, <1>14, <1>15, <1>16, <1>17, <1>18, <1>19, <1>20, <1>21,
     <1>22, <1>23, <1>24, <1>25, <1>26, <1>27, <1>28, <1>29, <1>30
     DEF Next, RequestAction, EventAction, WorkerAction, HandlerAction, BrokerAction

(* The typing of the tables and of what Stripe keeps.                      *)
LEMMA DataTypeStep ==
  ASSUME HandlerTypeOK, DataTypeOK, [Next]_vars
  PROVE  DataTypeOK'
<1> USE PurchaseAssumption DEF DataTypeOK, HandlerTypeOK, PaymentStatus, CommissionStatus,
        PolicyStatus, Snapshot, purchaseVars, policyVars, outputVars, stripeVars
<1>1. ASSUME NEW r \in Requests, FindPayment(r)
      PROVE  DataTypeOK'
  BY <1>1 DEF FindPayment, RequestStep, NotInRequest
<1>2. ASSUME NEW r \in Requests, RejectPurchase(r)
      PROVE  DataTypeOK'
  BY <1>2 DEF RejectPurchase, RequestStep, NotInRequest
<1>3. ASSUME NEW r \in Requests, SavePayment(r)
      PROVE  DataTypeOK'
  BY <1>3 DEF SavePayment, RequestStep, NotInRequest
<1>4. ASSUME NEW r \in Requests, CreatePendingEvent(r)
      PROVE  DataTypeOK'
  BY <1>4 DEF CreatePendingEvent, RequestStep, NotInRequest, Fault
<1>5. ASSUME NEW r \in Requests, CrashRequest(r)
      PROVE  DataTypeOK'
  BY <1>5 DEF CrashRequest, RequestStep, NotInRequest, Fault
<1>6. ASSUME NEW q \in Quotes, Charge(q)
      PROVE  DataTypeOK'
  BY <1>6 DEF Charge, HoldsSecret, NotAtStripe
<1>7. ASSUME NEW e \in Jobs, Decline(e)
      PROVE  DataTypeOK'
  BY <1>7 DEF Decline, HoldsSecret, NotAtStripe
<1>8. ASSUME NEW e \in Jobs, HandleWebhook(e)
      PROVE  DataTypeOK'
  BY <1>8 DEF HandleWebhook, NotAtStripe
<1>9. ASSUME NEW e \in Jobs, Recover(e)
      PROVE  DataTypeOK'
  BY <1>9 DEF Recover
<1>10. ASSUME NEW e \in Jobs, LoseLock(e)
      PROVE  DataTypeOK'
  BY <1>10 DEF LoseLock, Fault
<1>11. ASSUME NEW e \in Jobs, ForgetEvent(e)
      PROVE  DataTypeOK'
  BY <1>11 DEF ForgetEvent
<1>12. ASSUME NEW w \in Workers, NEW e \in Jobs, TakeEvent(w, e)
      PROVE  DataTypeOK'
  BY <1>12 DEF TakeEvent, Step
<1>13. ASSUME NEW w \in Workers, HandlerThrows(w)
      PROVE  DataTypeOK'
  BY <1>13 DEF HandlerThrows, Fault
<1>14. ASSUME NEW w \in Workers, CrashWorker(w)
      PROVE  DataTypeOK'
  BY <1>14 DEF CrashWorker, Fault, Step
<1>15. ASSUME NEW w \in Workers, CheckDuplicate(w)
      PROVE  DataTypeOK'
  BY <1>15 DEF CheckDuplicate, Step
<1>16. ASSUME NEW w \in Workers, FindPolicy(w)
      PROVE  DataTypeOK'
  BY <1>16 DEF FindPolicy, Step, Live
<1>17. ASSUME NEW w \in Workers, MarkSucceeded(w)
      PROVE  DataTypeOK'
  BY <1>17 DEF MarkSucceeded, Step
<1>18. ASSUME NEW w \in Workers, IssuePolicy(w)
      PROVE  DataTypeOK'
  BY <1>18 DEF IssuePolicy, Step
<1>19. ASSUME NEW w \in Workers, RecordActivation(w)
      PROVE  DataTypeOK'
  BY <1>19 DEF RecordActivation, Step
<1>20. ASSUME NEW w \in Workers, QueuePdf(w)
      PROVE  DataTypeOK'
  BY <1>20 DEF QueuePdf, Step
<1>21. ASSUME NEW w \in Workers, QueueSticker(w)
      PROVE  DataTypeOK'
  BY <1>21 DEF QueueSticker, Step
<1>22. ASSUME NEW w \in Workers, ConfirmCommission(w)
      PROVE  DataTypeOK'
  BY <1>22 DEF ConfirmCommission, Fault, SetCommission
<1>23. ASSUME NEW w \in Workers, ReadPayment(w)
      PROVE  DataTypeOK'
  BY <1>23 DEF ReadPayment, Step
<1>24. ASSUME NEW w \in Workers, MarkFailed(w)
      PROVE  DataTypeOK'
  BY <1>24 DEF MarkFailed, Step
<1>25. ASSUME NEW w \in Workers, FailCommission(w)
      PROVE  DataTypeOK'
  BY <1>25 DEF FailCommission, Fault, SetCommission
<1>26. ASSUME NEW b \in Brokers, UpdatePolicy(b)
      PROVE  DataTypeOK'
  BY <1>26 DEF UpdatePolicy, PolicyStatus, NotBroker
<1>27. ASSUME NEW b \in Brokers, NEW q \in Quotes, ReadForUpdate(b, q)
      PROVE  DataTypeOK'
  BY <1>27 DEF ReadForUpdate, Live, NotBroker
<1>28. ASSUME NEW b \in Brokers, NEW q \in Quotes, DeletePolicy(b, q)
      PROVE  DataTypeOK'
  BY <1>28 DEF DeletePolicy, NotBroker
<1>29. CASE UNCHANGED vars
  BY <1>29 DEF vars
<1>30. ASSUME NEW b \in Brokers, NEW q \in Quotes, CreatePolicy(b, q)
      PROVE  DataTypeOK'
  BY <1>30 DEF CreatePolicy, NotBroker
<1> QED
  BY <1>1, <1>2, <1>3, <1>4, <1>5, <1>6, <1>7, <1>8, <1>9, <1>10, <1>11,
     <1>12, <1>13, <1>14, <1>15, <1>16, <1>17, <1>18, <1>19, <1>20, <1>21,
     <1>22, <1>23, <1>24, <1>25, <1>26, <1>27, <1>28, <1>29, <1>30
     DEF Next, RequestAction, EventAction, WorkerAction, HandlerAction, BrokerAction

(* The type invariant is inductive together with what the queue and the    *)
(* workers know of each other.                                             *)
TypeInv == TypeOK /\ QueueInv /\ HandlerTypeOK

(* A step preserves the typing and lets no unknown event into the queue.   *)
LEMMA TypeStep ==
  ASSUME TypeInv, [Next]_vars
  PROVE  TypeInv' /\ NoneAppears
<1>1. QueueTypeOK' /\ QueueInv' /\ NoneAppears
  <2>1. QueueStep
    BY EveryStepIsQueueStep DEF TypeInv
  <2> QED
    BY <2>1, QueueSteps DEF TypeInv, TypeOK
<1>2. HandlerTypeOK'
  BY HandlerTypeStep DEF TypeInv
<1>3. DataTypeOK'
  <2>1. DataTypeOK
    BY DEF TypeInv, TypeOK, DataTypeOK
  <2> QED
    BY <2>1, DataTypeStep DEF TypeInv
<1> QED
  BY <1>1, <1>2, <1>3 DEF TypeInv, TypeOK, HandlerTypeOK, DataTypeOK

(* Every variable keeps its type: no handler writes a status of another    *)
(* table's column, and no counter of the queue leaves its bound.           *)
THEOREM TypeCorrect == Spec => []TypeOK
<1>1. Init => TypeInv
  BY TypeInit, QueueAssumption DEF TypeInv, Init, HandlerTypeOK, SucceededSteps, FailedSteps
<1>2. TypeInv /\ [Next]_vars => TypeInv'
  BY TypeStep
<1>3. TypeInv => TypeOK
  BY DEF TypeInv
<1> QED
  BY <1>1, <1>2, <1>3, PTL DEF Spec

-----------------------------------------------------------------------------
(***************************************************************************)
(* The inductive invariant, one lemma per conjunct.                        *)
(***************************************************************************)

(* Only SavePayment ends "none", and only the code above lets Stripe act. *)
LEMMA PaymentStep ==
  ASSUME TypeOK, PaymentInv, NoneAppears, [Next]_vars
  PROVE  PaymentInv'
<1> USE QueueAssumption, PurchaseAssumption DEF TypeOK, PaymentInv, NoneAppears, purchaseVars, stripeVars, queueVars
<1>1. ASSUME NEW r \in Requests, FindPayment(r)
      PROVE  PaymentInv'
  BY <1>1 DEF FindPayment, RequestStep, NotInRequest
<1>2. ASSUME NEW r \in Requests, RejectPurchase(r)
      PROVE  PaymentInv'
  BY <1>2 DEF RejectPurchase, RequestStep, NotInRequest
<1>3. ASSUME NEW r \in Requests, SavePayment(r)
      PROVE  PaymentInv'
  BY <1>3 DEF SavePayment, RequestStep, NotInRequest
<1>4. ASSUME NEW r \in Requests, CreatePendingEvent(r)
      PROVE  PaymentInv'
  BY <1>4 DEF CreatePendingEvent, RequestStep, NotInRequest, Fault
<1>5. ASSUME NEW r \in Requests, CrashRequest(r)
      PROVE  PaymentInv'
  BY <1>5 DEF CrashRequest, RequestStep, NotInRequest, Fault
<1>6. ASSUME NEW q \in Quotes, Charge(q)
      PROVE  PaymentInv'
  BY <1>6 DEF Charge, HoldsSecret, NotAtStripe
<1>7. ASSUME NEW e \in Jobs, Decline(e)
      PROVE  PaymentInv'
  BY <1>7 DEF Decline, HoldsSecret, NotAtStripe
<1>8. ASSUME NEW w \in Workers, MarkSucceeded(w)
      PROVE  PaymentInv'
  BY <1>8 DEF MarkSucceeded, Step
<1>9. ASSUME NEW w \in Workers, MarkFailed(w)
      PROVE  PaymentInv'
  BY <1>9 DEF MarkFailed, Step
<1>10. ASSUME UNCHANGED <<request, payment, charged, emitted>>
      PROVE  PaymentInv'
  BY <1>10
<1>11. ASSUME NEW e \in Jobs, HandleWebhook(e) \/ Recover(e) \/
      LoseLock(e) \/ ForgetEvent(e)
      PROVE  UNCHANGED <<request, payment, charged, emitted>>
  BY <1>11 DEF HandleWebhook, NotAtStripe, Recover, LoseLock, Fault,
      ForgetEvent
<1>12. ASSUME NEW w \in Workers, NEW e \in Jobs, TakeEvent(w, e)
      PROVE  UNCHANGED <<request, payment, charged, emitted>>
  BY <1>12 DEF TakeEvent, Step
<1>13. ASSUME NEW w \in Workers, HandlerThrows(w) \/ CrashWorker(w) \/
      CheckDuplicate(w) \/ FindPolicy(w) \/ IssuePolicy(w) \/
      RecordActivation(w) \/ QueuePdf(w) \/ QueueSticker(w) \/
      ConfirmCommission(w) \/ ReadPayment(w) \/ FailCommission(w)
      PROVE  UNCHANGED <<request, payment, charged, emitted>>
  BY <1>13 DEF HandlerThrows, Fault, ThrowError, CrashWorker, Step,
      CheckDuplicate, Return, FindPolicy, Live, IssuePolicy,
      RecordActivation, QueuePdf, QueueSticker, ConfirmCommission,
      SetCommission, ReadPayment, FailCommission
<1>14. ASSUME NEW b \in Brokers, UpdatePolicy(b)
      PROVE  UNCHANGED <<request, payment, charged, emitted>>
  BY <1>14 DEF UpdatePolicy, PolicyStatus, NotBroker
<1>15. ASSUME NEW b \in Brokers, NEW q \in Quotes, ReadForUpdate(b, q) \/
      DeletePolicy(b, q) \/ CreatePolicy(b, q)
      PROVE  UNCHANGED <<request, payment, charged, emitted>>
  BY <1>15 DEF ReadForUpdate, Live, NotBroker, DeletePolicy, CreatePolicy
<1>16. ASSUME UNCHANGED vars
      PROVE  UNCHANGED <<request, payment, charged, emitted>>
  BY <1>16 DEF vars
<1> QED
  BY <1>1, <1>2, <1>3, <1>4, <1>5, <1>6, <1>7, <1>8, <1>9, <1>10, <1>11,
     <1>12, <1>13, <1>14, <1>15, <1>16
     DEF Next, RequestAction, EventAction, WorkerAction, HandlerAction, BrokerAction

(* The rows agree: each write is made by a worker that knows enough.       *)
LEMMA RowStep ==
  ASSUME TypeOK, PaymentInv, RowInv, WorkerInv, [Next]_vars
  PROVE  RowInv'
<1> USE QueueAssumption, PurchaseAssumption DEF TypeOK, RowInv, PolicyIsPaid, Paid,
        PaymentStatusExplained, ConfirmedHasActivation, purchaseVars, policyVars,
        outputVars, stripeVars
<1>1. ASSUME NEW r \in Requests, SavePayment(r)
      PROVE  RowInv'
  BY <1>1 DEF SavePayment, RequestStep, NotInRequest
<1>2. ASSUME NEW r \in Requests, CreatePendingEvent(r)
      PROVE  RowInv'
  BY <1>2 DEF CreatePendingEvent, RequestStep, NotInRequest, Fault
<1>3. ASSUME NEW q \in Quotes, Charge(q)
      PROVE  RowInv'
  BY <1>3 DEF Charge, HoldsSecret, NotAtStripe
<1>4. ASSUME NEW e \in Jobs, Decline(e)
      PROVE  RowInv'
  BY <1>4 DEF Decline, HoldsSecret, NotAtStripe
<1>5. ASSUME NEW w \in Workers, MarkSucceeded(w)
      PROVE  RowInv'
  <2>1. QuoteOf[cur[w]] \in charged
    BY <1>5 DEF MarkSucceeded, Step, WorkerInv, PaymentInv, SucceededSteps
  <2> QED
    BY <1>5, <2>1 DEF MarkSucceeded, Step
<1>6. ASSUME NEW w \in Workers, IssuePolicy(w)
      PROVE  RowInv'
  <2>1. /\ QuoteOf[cur[w]] \in charged
        /\ payment[QuoteOf[cur[w]]] \in {"succeeded", "failed"}
        /\ seen[w] => policy[QuoteOf[cur[w]]] # "none"
    BY <1>6 DEF IssuePolicy, Step, WorkerInv, PaymentInv, SucceededSteps
  <2> QED
    BY <1>6, <2>1 DEF IssuePolicy, Step, ThrowError
<1>7. ASSUME NEW w \in Workers, RecordActivation(w)
      PROVE  RowInv'
  <2>1. pc[w] = "record" => /\ cur[w] \in SucceededEvents /\ policy[QuoteOf[cur[w]]] # "none"
                             /\ Paid(QuoteOf[cur[w]])
    BY <1>7 DEF WorkerInv, PaymentInv, SucceededSteps
  <2> QED
    BY <1>7, <2>1 DEF RecordActivation, Return, Step
<1>8. ASSUME NEW w \in Workers, ConfirmCommission(w)
      PROVE  RowInv'
  <2>1. cur[w] \in activated
    BY <1>8 DEF ConfirmCommission, WorkerInv
  <2> QED
    BY <1>8, <2>1 DEF ConfirmCommission, Fault, SetCommission
<1>9. ASSUME NEW w \in Workers, MarkFailed(w)
      PROVE  RowInv'
  <2>1. cur[w] \in FailedEvents \intersect emitted
    BY <1>9 DEF MarkFailed, Step, WorkerInv, FailedSteps
  <2> QED
    BY <1>9, <2>1 DEF MarkFailed, Step
<1>10. ASSUME NEW w \in Workers, FailCommission(w)
      PROVE  RowInv'
  BY <1>10 DEF FailCommission, Fault, SetCommission
<1>11. ASSUME NEW b \in Brokers, UpdatePolicy(b)
      PROVE  RowInv'
  BY <1>11 DEF UpdatePolicy, PolicyStatus, NotBroker
<1>12. ASSUME NEW b \in Brokers, NEW q \in Quotes, ReadForUpdate(b, q)
      PROVE  RowInv'
  BY <1>12 DEF ReadForUpdate, Live, NotBroker
<1>13. ASSUME UNCHANGED <<payment, commission, policy, byHand, activated, edit, charged, emitted>>
      PROVE  RowInv'
  BY <1>13
<1>14. ASSUME NEW r \in Requests, FindPayment(r) \/ RejectPurchase(r) \/
      CrashRequest(r)
      PROVE  UNCHANGED <<payment, commission, policy, byHand, activated, edit, charged, emitted>>
  BY <1>14 DEF FindPayment, RequestStep, NotInRequest, RejectPurchase,
      CrashRequest, Fault
<1>15. ASSUME NEW e \in Jobs, HandleWebhook(e) \/ Recover(e) \/
      LoseLock(e) \/ ForgetEvent(e)
      PROVE  UNCHANGED <<payment, commission, policy, byHand, activated, edit, charged, emitted>>
  BY <1>15 DEF HandleWebhook, NotAtStripe, Recover, LoseLock, Fault,
      ForgetEvent
<1>16. ASSUME NEW w \in Workers, NEW e \in Jobs, TakeEvent(w, e)
      PROVE  UNCHANGED <<payment, commission, policy, byHand, activated, edit, charged, emitted>>
  BY <1>16 DEF TakeEvent, Step
<1>17. ASSUME NEW w \in Workers, HandlerThrows(w) \/ CrashWorker(w) \/
      CheckDuplicate(w) \/ FindPolicy(w) \/ QueuePdf(w) \/
      QueueSticker(w) \/ ReadPayment(w)
      PROVE  UNCHANGED <<payment, commission, policy, byHand, activated, edit, charged, emitted>>
  BY <1>17 DEF HandlerThrows, Fault, CrashWorker, Step, CheckDuplicate,
      FindPolicy, Live, QueuePdf, QueueSticker, ReadPayment
<1>18. ASSUME NEW b \in Brokers, NEW q \in Quotes, DeletePolicy(b, q)
      PROVE  UNCHANGED <<payment, commission, policy, byHand, activated, edit, charged, emitted>>
  BY <1>18 DEF DeletePolicy, NotBroker
<1>19. ASSUME UNCHANGED vars
      PROVE  UNCHANGED <<payment, commission, policy, byHand, activated, edit, charged, emitted>>
  BY <1>19 DEF vars
<1>20. ASSUME NEW b \in Brokers, NEW q \in Quotes, CreatePolicy(b, q)
      PROVE  RowInv'
  BY <1>20 DEF CreatePolicy, PolicyStatus, NotBroker
<1> QED
  BY <1>1, <1>2, <1>3, <1>4, <1>5, <1>6, <1>7, <1>8, <1>9, <1>10, <1>11,
     <1>12, <1>13, <1>14, <1>15, <1>16, <1>17, <1>18, <1>19, <1>20
     DEF Next, RequestAction, EventAction, WorkerAction, HandlerAction, BrokerAction

(* The flag a worker keeps of FindPolicy means that a row exists.          *)
LEMMA SeenIsLive ==
  ASSUME NEW w \in Workers, NEW q, seen \in [Workers -> BOOLEAN],
         seen' = [seen EXCEPT ![w] = Live(q)], seen'[w]
  PROVE  policy[q] # "none"
<1>1. seen'[w] = Live(q)
  BY Zenon
<1>2. Live(q)
  BY <1>1, Zenon
<1> QED
  BY <1>2, Zenon DEF Live

(* What a worker knows stays true while the others move.                   *)
LEMMA WorkerStep ==
  ASSUME TypeOK, PaymentInv, RowInv, WorkerInv, DocumentInv, [Next]_vars
  PROVE  WorkerInv'
<1> USE QueueAssumption, PurchaseAssumption DEF TypeOK, WorkerInv, SucceededSteps, FailedSteps,
        purchaseVars, policyVars, outputVars, stripeVars, workerVars
<1>1. ASSUME NEW r \in Requests, SavePayment(r)
      PROVE  WorkerInv'
  BY <1>1 DEF SavePayment, RequestStep, NotInRequest
<1>2. ASSUME NEW q \in Quotes, Charge(q)
      PROVE  WorkerInv'
  BY <1>2 DEF Charge, HoldsSecret, NotAtStripe
<1>3. ASSUME NEW e \in Jobs, Decline(e)
      PROVE  WorkerInv'
  BY <1>3 DEF Decline, HoldsSecret, NotAtStripe
<1>4. ASSUME NEW w \in Workers, NEW e \in Jobs, TakeEvent(w, e)
      PROVE  WorkerInv'
  <2>1. e \in emitted
    BY <1>4 DEF TakeEvent, Take, PaymentInv
  <2> QED
    BY <1>4, <2>1 DEF TakeEvent, Step
<1>5. ASSUME NEW w \in Workers, HandlerThrows(w)
      PROVE  WorkerInv'
  BY <1>5 DEF HandlerThrows, Fault, ThrowError
<1>6. ASSUME NEW w \in Workers, CrashWorker(w)
      PROVE  WorkerInv'
  BY <1>6 DEF CrashWorker, Fault, Step
<1>7. ASSUME NEW w \in Workers, CheckDuplicate(w)
      PROVE  WorkerInv'
  BY <1>7 DEF CheckDuplicate, Return, Step
<1>8. ASSUME NEW w \in Workers, FindPolicy(w)
      PROVE  WorkerInv'
  <2>1. CASE payment[QuoteOf[cur[w]]] = "none" \/ (Live(QuoteOf[cur[w]]) /\ policy[QuoteOf[cur[w]]] = "active")
    BY <1>8, <2>1 DEF FindPolicy, Return
  <2>2. CASE ~(payment[QuoteOf[cur[w]]] = "none" \/ (Live(QuoteOf[cur[w]]) /\ policy[QuoteOf[cur[w]]] = "active"))
    <3>1. /\ pc[w] = "find"
          /\ pc' = [pc EXCEPT ![w] = "succeed"]
          /\ seen' = [seen EXCEPT ![w] = Live(QuoteOf[cur[w]])]
      BY <1>8, <2>2 DEF FindPolicy, Step
    <3>2. UNCHANGED <<cur, payment, policy, activated, pdf, sticker, emitted>>
      BY <1>8, <2>2 DEF FindPolicy
    <3>3. seen'[w] => policy[QuoteOf[cur[w]]] # "none"
      BY <3>1, SeenIsLive
    <3>4. \A v \in Workers \ {w} : seen'[v] = seen[v]
      BY <3>1
    <3> HIDE DEF Live
    <3> QED
      BY <3>1, <3>2, <3>3, <3>4
  <2> QED
    BY <2>1, <2>2
<1>9. ASSUME NEW w \in Workers, MarkSucceeded(w)
      PROVE  WorkerInv'
  BY <1>9 DEF MarkSucceeded, Step
<1>10. ASSUME NEW w \in Workers, IssuePolicy(w)
      PROVE  WorkerInv'
  BY <1>10 DEF IssuePolicy, Step, ThrowError
<1>11. ASSUME NEW w \in Workers, RecordActivation(w)
      PROVE  WorkerInv'
  <2>1. cur[w] \in activated \/ pdf[cur[w]] = 0
    BY <1>11 DEF RecordActivation, DocumentInv
  <2> QED
    BY <1>11, <2>1 DEF RecordActivation, Return, Step
<1>12. ASSUME NEW w \in Workers, QueuePdf(w)
      PROVE  WorkerInv'
  <2>1. \A v \in Workers \ {w} :
          pc[v] \in {"pdf", "sticker", "confirm"} => cur[v] # cur[w]
    BY <1>12 DEF QueuePdf, Step, DocumentInv
  <2>2. cur[w] \in Jobs /\ pdf' = [pdf EXCEPT ![cur[w]] = 1]
    <3>1. pc[w] = "pdf" /\ pdf' = [pdf EXCEPT ![cur[w]] = @ + 1]
      BY <1>12 DEF QueuePdf, Step
    <3>2. cur[w] \in Jobs /\ pdf[cur[w]] = 0
      BY <3>1
    <3> QED
      BY <3>1, <3>2
  <2>3. pc' = [pc EXCEPT ![w] = "sticker"] /\ pc[w] = "pdf"
    BY <1>12 DEF QueuePdf, Step
  <2>4. UNCHANGED <<cur, seen, payment, policy, activated, sticker, emitted>>
    BY <1>12 DEF QueuePdf
  <2>5. sticker[cur[w]] = 0
    BY <1>12 DEF QueuePdf, Step, DocumentInv, DocumentsOncePerEvent
  <2> QED
    BY <2>1, <2>2, <2>3, <2>4, <2>5
<1>13. ASSUME NEW w \in Workers, QueueSticker(w)
      PROVE  WorkerInv'
  <2>1. \A v \in Workers \ {w} :
          pc[v] \in {"pdf", "sticker", "confirm"} => cur[v] # cur[w]
    BY <1>13 DEF QueueSticker, Step, DocumentInv
  <2> QED
    BY <1>13, <2>1 DEF QueueSticker, Step
<1>14. ASSUME NEW w \in Workers, ConfirmCommission(w)
      PROVE  WorkerInv'
  BY <1>14 DEF ConfirmCommission, Return, Fault, SetCommission
<1>15. ASSUME NEW w \in Workers, ReadPayment(w)
      PROVE  WorkerInv'
  BY <1>15 DEF ReadPayment, Return, Step
<1>16. ASSUME NEW w \in Workers, MarkFailed(w)
      PROVE  WorkerInv'
  BY <1>16 DEF MarkFailed, Step
<1>17. ASSUME NEW w \in Workers, FailCommission(w)
      PROVE  WorkerInv'
  BY <1>17 DEF FailCommission, Return, Fault, SetCommission
<1>18. ASSUME NEW b \in Brokers, UpdatePolicy(b)
      PROVE  WorkerInv'
  BY <1>18 DEF UpdatePolicy, PolicyStatus, NotBroker
<1>19. ASSUME UNCHANGED <<pc, cur, seen, payment, policy, activated, pdf, sticker, emitted>>
      PROVE  WorkerInv'
  BY <1>19
<1>20. ASSUME NEW r \in Requests, FindPayment(r) \/ RejectPurchase(r) \/
      CreatePendingEvent(r) \/ CrashRequest(r)
      PROVE  UNCHANGED <<pc, cur, seen, payment, policy, activated, pdf, sticker, emitted>>
  BY <1>20 DEF FindPayment, RequestStep, NotInRequest, RejectPurchase,
      CreatePendingEvent, Fault, CrashRequest
<1>21. ASSUME NEW e \in Jobs, HandleWebhook(e) \/ Recover(e) \/
      LoseLock(e) \/ ForgetEvent(e)
      PROVE  UNCHANGED <<pc, cur, seen, payment, policy, activated, pdf, sticker, emitted>>
  BY <1>21 DEF HandleWebhook, NotAtStripe, Recover, LoseLock, Fault,
      ForgetEvent
<1>22. ASSUME NEW b \in Brokers, NEW q \in Quotes, ReadForUpdate(b, q) \/
      DeletePolicy(b, q)
      PROVE  UNCHANGED <<pc, cur, seen, payment, policy, activated, pdf, sticker, emitted>>
  BY <1>22 DEF ReadForUpdate, Live, NotBroker, DeletePolicy
<1>23. ASSUME UNCHANGED vars
      PROVE  UNCHANGED <<pc, cur, seen, payment, policy, activated, pdf, sticker, emitted>>
  BY <1>23 DEF vars
<1>24. ASSUME NEW b \in Brokers, NEW q \in Quotes, CreatePolicy(b, q)
      PROVE  WorkerInv'
  BY <1>24 DEF CreatePolicy, PolicyStatus, NotBroker
<1> QED
  BY <1>1, <1>2, <1>3, <1>4, <1>5, <1>6, <1>7, <1>8, <1>9, <1>10, <1>11,
     <1>12, <1>13, <1>14, <1>15, <1>16, <1>17, <1>18, <1>19, <1>20, <1>21,
     <1>22, <1>23, <1>24
     DEF Next, RequestAction, EventAction, WorkerAction, HandlerAction, BrokerAction

(* Past RecordActivation a worker is alone with its event.                 *)
LEMMA DocumentStep ==
  ASSUME TypeOK, WorkerInv, DocumentInv, [Next]_vars
  PROVE  DocumentInv'
<1> USE QueueAssumption, PurchaseAssumption DEF TypeOK, DocumentInv, DocumentsOncePerEvent,
        outputVars, workerVars
<1>1. ASSUME NEW w \in Workers, NEW e \in Jobs, TakeEvent(w, e)
      PROVE  DocumentInv'
  BY <1>1 DEF TakeEvent, Step
<1>2. ASSUME NEW w \in Workers, HandlerThrows(w)
      PROVE  DocumentInv'
  BY <1>2 DEF HandlerThrows, Fault, ThrowError
<1>3. ASSUME NEW w \in Workers, CrashWorker(w)
      PROVE  DocumentInv'
  BY <1>3 DEF CrashWorker, Fault, Step
<1>4. ASSUME NEW w \in Workers, CheckDuplicate(w)
      PROVE  DocumentInv'
  BY <1>4 DEF CheckDuplicate, Return, Step
<1>5. ASSUME NEW w \in Workers, FindPolicy(w)
      PROVE  DocumentInv'
  BY <1>5 DEF FindPolicy, Return, Step, Live
<1>6. ASSUME NEW w \in Workers, MarkSucceeded(w)
      PROVE  DocumentInv'
  BY <1>6 DEF MarkSucceeded, Step
<1>7. ASSUME NEW w \in Workers, IssuePolicy(w)
      PROVE  DocumentInv'
  BY <1>7 DEF IssuePolicy, Step, ThrowError
<1>8. ASSUME NEW w \in Workers, RecordActivation(w)
      PROVE  DocumentInv'
  <2>1. \A v \in Workers : pc[v] \in {"pdf", "sticker", "confirm"} => cur[v] \in activated
    BY <1>8 DEF WorkerInv
  <2> QED
    BY <1>8, <2>1 DEF RecordActivation, Return, Step
<1>9. ASSUME NEW w \in Workers, QueuePdf(w)
      PROVE  DocumentInv'
  <2>1. cur[w] \in activated /\ pdf[cur[w]] = 0
    BY <1>9 DEF QueuePdf, Step, WorkerInv
  <2> QED
    BY <1>9, <2>1 DEF QueuePdf, Step
<1>10. ASSUME NEW w \in Workers, QueueSticker(w)
      PROVE  DocumentInv'
  <2>1. cur[w] \in activated /\ pdf[cur[w]] = 1 /\ sticker[cur[w]] = 0
    BY <1>10 DEF QueueSticker, Step, WorkerInv
  <2> QED
    BY <1>10, <2>1 DEF QueueSticker, Step
<1>11. ASSUME NEW w \in Workers, ConfirmCommission(w)
      PROVE  DocumentInv'
  BY <1>11 DEF ConfirmCommission, Return, Fault, SetCommission
<1>12. ASSUME NEW w \in Workers, ReadPayment(w)
      PROVE  DocumentInv'
  BY <1>12 DEF ReadPayment, Return, Step
<1>13. ASSUME NEW w \in Workers, MarkFailed(w)
      PROVE  DocumentInv'
  BY <1>13 DEF MarkFailed, Step
<1>14. ASSUME NEW w \in Workers, FailCommission(w)
      PROVE  DocumentInv'
  BY <1>14 DEF FailCommission, Return, Fault, SetCommission
<1>15. ASSUME UNCHANGED <<pc, cur, activated, pdf, sticker>>
      PROVE  DocumentInv'
  BY <1>15
<1>16. ASSUME NEW r \in Requests, FindPayment(r) \/ RejectPurchase(r) \/
      SavePayment(r) \/ CreatePendingEvent(r) \/ CrashRequest(r)
      PROVE  UNCHANGED <<pc, cur, activated, pdf, sticker>>
  BY <1>16 DEF FindPayment, RequestStep, NotInRequest, RejectPurchase,
      SavePayment, CreatePendingEvent, Fault, CrashRequest
<1>17. ASSUME NEW q \in Quotes, Charge(q)
      PROVE  UNCHANGED <<pc, cur, activated, pdf, sticker>>
  BY <1>17 DEF Charge, HoldsSecret, NotAtStripe
<1>18. ASSUME NEW e \in Jobs, Decline(e) \/ HandleWebhook(e) \/
      Recover(e) \/ LoseLock(e) \/ ForgetEvent(e)
      PROVE  UNCHANGED <<pc, cur, activated, pdf, sticker>>
  BY <1>18 DEF Decline, HoldsSecret, NotAtStripe, HandleWebhook, Recover,
      LoseLock, Fault, ForgetEvent
<1>19. ASSUME NEW b \in Brokers, UpdatePolicy(b)
      PROVE  UNCHANGED <<pc, cur, activated, pdf, sticker>>
  BY <1>19 DEF UpdatePolicy, PolicyStatus, NotBroker
<1>20. ASSUME NEW b \in Brokers, NEW q \in Quotes, ReadForUpdate(b, q) \/
      DeletePolicy(b, q) \/ CreatePolicy(b, q)
      PROVE  UNCHANGED <<pc, cur, activated, pdf, sticker>>
  BY <1>20 DEF ReadForUpdate, Live, NotBroker, DeletePolicy, CreatePolicy
<1>21. ASSUME UNCHANGED vars
      PROVE  UNCHANGED <<pc, cur, activated, pdf, sticker>>
  BY <1>21 DEF vars
<1> QED
  BY <1>1, <1>2, <1>3, <1>4, <1>5, <1>6, <1>7, <1>8, <1>9, <1>10, <1>11,
     <1>12, <1>13, <1>14, <1>15, <1>16, <1>17, <1>18, <1>19, <1>20, <1>21
     DEF Next, RequestAction, EventAction, WorkerAction, HandlerAction, BrokerAction

(* The inductive invariant holds at the start ...                          *)
LEMMA InitIInv == Init => IInv
<1> SUFFICES ASSUME Init PROVE IInv
  OBVIOUS
<1>1. TypeOK /\ QueueInv
  BY TypeInit
<1>2. PaymentInv /\ RowInv
  BY PurchaseAssumption
     DEF Init, QueueInit, PaymentInv, RowInv, PolicyIsPaid, PaymentStatusExplained,
         ConfirmedHasActivation
<1>3. WorkerInv /\ DocumentInv
  BY QueueAssumption
     DEF Init, WorkerInv, DocumentInv, DocumentsOncePerEvent, SucceededSteps, FailedSteps
<1> QED
  BY <1>1, <1>2, <1>3 DEF IInv

(* ... and every step of every actor preserves it.                         *)
LEMMA StepIInv == IInv /\ [Next]_vars => IInv'
<1> SUFFICES ASSUME IInv, [Next]_vars PROVE IInv'
  OBVIOUS
<1>1. TypeInv
  BY DEF IInv, TypeInv, TypeOK, HandlerTypeOK, WorkerInv
<1>2. TypeInv' /\ NoneAppears
  BY <1>1, TypeStep
<1>3. PaymentInv'
  BY <1>2, PaymentStep DEF IInv
<1>4. RowInv'
  BY RowStep DEF IInv
<1>5. WorkerInv'
  BY WorkerStep DEF IInv
<1>6. DocumentInv'
  BY DocumentStep DEF IInv
<1> QED
  BY <1>2, <1>3, <1>4, <1>5, <1>6 DEF IInv, TypeInv

(* The inductive invariant: what rows, queue, workers and Stripe know of each *)
(* other, for any number of each.                                          *)
THEOREM Invariant == Spec => []IInv
  BY InitIInv, StepIInv, PTL DEF Spec

(* A policies row that no broker entered exists only after Stripe charged  *)
(* its intent, and an activation is on record only then.                   *)
THEOREM PolicyPaid == Spec => []PolicyIsPaid
<1>1. IInv => PolicyIsPaid
  BY DEF IInv, RowInv
<1> QED
  BY <1>1, Invariant, PTL

(* Redelivery, retries and double runs of an event order one PDF.          *)
THEOREM DocumentsOnce == Spec => []DocumentsOncePerEvent
<1>1. IInv => DocumentsOncePerEvent
  BY DEF IInv, DocumentInv
<1> QED
  BY <1>1, Invariant, PTL

(* A payment status is never invented: Stripe has reported it.             *)
THEOREM PaymentExplained == Spec => []PaymentStatusExplained
<1>1. IInv => PaymentStatusExplained
  BY DEF IInv, RowInv
<1> QED
  BY <1>1, Invariant, PTL

(* A commission is confirmed only once the activation is on record.        *)
THEOREM ConfirmedActivated == Spec => []ConfirmedHasActivation
<1>1. IInv => ConfirmedHasActivation
  BY DEF IInv, RowInv
<1> QED
  BY <1>1, Invariant, PTL

-----------------------------------------------------------------------------
(***************************************************************************)
(* The pipeline implements PurchaseLedger.                                 *)
(***************************************************************************)

(* Ordering a PDF is a step of the ledger.                                 *)
LEMMA LedgerOrdersPdf ==
  ASSUME NEW e \in SucceededEvents, Ledger!OrderPdf(e)
  PROVE  Ledger!Next
  BY DEF Ledger!Next, Ledger!OrderPdf

(* Each step is a step of the ledger, or none.                             *)
LEMMA LedgerStep ==
  ASSUME IInv, [Next]_vars
  PROVE  [Ledger!Next]_(Ledger!vars)
<1> USE PurchaseAssumption DEF IInv, TypeOK, QueueTypeOK, PolicyStatus,
        Ledger!vars, policyVars, outputVars, stripeVars
<1>1. ASSUME NEW q \in Quotes, Charge(q)
      PROVE  [Ledger!Next]_(Ledger!vars)
  BY <1>1 DEF Charge, NotAtStripe, Ledger!Charge, Ledger!Next
<1>2. ASSUME NEW w \in Workers, IssuePolicy(w)
      PROVE  [Ledger!Next]_(Ledger!vars)
  <2>1. QuoteOf[cur[w]] \in charged /\ (seen[w] => policy[QuoteOf[cur[w]]] # "none")
    BY <1>2 DEF IssuePolicy, WorkerInv, PaymentInv, SucceededSteps
  <2> QED
    BY <1>2, <2>1 DEF IssuePolicy, Step, Ledger!Issue, Ledger!Next
<1>3. ASSUME NEW w \in Workers, RecordActivation(w)
      PROVE  [Ledger!Next]_(Ledger!vars)
  <2>1. pc[w] = "record" => cur[w] \in SucceededEvents /\ policy[QuoteOf[cur[w]]] # "none"
                           /\ QuoteOf[cur[w]] \in charged
    BY <1>3 DEF WorkerInv, PaymentInv, SucceededSteps
  <2> QED
    BY <1>3, <2>1 DEF RecordActivation, Ledger!Record, Ledger!Next
<1>4. ASSUME NEW w \in Workers, QueuePdf(w)
      PROVE  [Ledger!Next]_(Ledger!vars)
  <2>1. cur[w] \in SucceededEvents \intersect activated /\ pdf[cur[w]] = 0
    BY <1>4 DEF QueuePdf, Step, WorkerInv, SucceededSteps
  <2>2. PICK e \in SucceededEvents \intersect activated : e = cur[w]
    BY <2>1
  <2>3. pdf[e] = 0 /\ pdf' = [pdf EXCEPT ![e] = 1]
    BY <1>4, <2>1, <2>2 DEF QueuePdf
  <2>4. [f \in SucceededEvents |-> pdf[f]]'
          = [[f \in SucceededEvents |-> pdf[f]] EXCEPT ![e] = 1]
    BY <2>3, PurchaseAssumption DEF IInv, TypeOK
  <2>5. UNCHANGED <<charged, policy, byHand, activated, sticker>>
    BY <1>4 DEF QueuePdf
  <2>6. Ledger!OrderPdf(e)
    BY <2>3, <2>4, <2>5 DEF Ledger!OrderPdf
  <2> QED
    BY <2>6, LedgerOrdersPdf
<1>5. ASSUME NEW w \in Workers, QueueSticker(w)
      PROVE  [Ledger!Next]_(Ledger!vars)
  <2>1. cur[w] \in SucceededEvents /\ pdf[cur[w]] = 1 /\ sticker[cur[w]] = 0
    BY <1>5 DEF QueueSticker, Step, WorkerInv, SucceededSteps
  <2>2. \/ UNCHANGED sticker
        \/ sticker' = [sticker EXCEPT ![cur[w]] = 1]
    BY <1>5, <2>1 DEF QueueSticker
  <2>3. \/ UNCHANGED sticker
        \/ [e \in SucceededEvents |-> sticker[e]]'
             = [[e \in SucceededEvents |-> sticker[e]] EXCEPT ![cur[w]] = 1]
    BY <2>1, <2>2, PurchaseAssumption DEF IInv, TypeOK
  <2>4. UNCHANGED <<charged, policy, byHand, activated, pdf>>
    BY <1>5 DEF QueueSticker
  <2> QED
    BY <2>1, <2>3, <2>4 DEF Ledger!OrderSticker, Ledger!Next
<1>6. ASSUME NEW b \in Brokers, UpdatePolicy(b)
      PROVE  [Ledger!Next]_(Ledger!vars)
  <2>1. \A q \in Quotes : policy'[q] # "none" <=> policy[q] # "none"
    BY <1>6 DEF UpdatePolicy, PolicyStatus, RowInv
  <2>2. UNCHANGED <<charged, byHand, activated, pdf, sticker>>
    BY <1>6 DEF UpdatePolicy, NotBroker
  <2>3. {q \in Quotes : policy[q] # "none"}' = {q \in Quotes : policy[q] # "none"}
    BY <2>1
  <2> QED
    BY <2>2, <2>3
<1>7. ASSUME UNCHANGED <<charged, policy, byHand, activated, pdf, sticker>>
      PROVE  [Ledger!Next]_(Ledger!vars)
  BY <1>7
<1>8. ASSUME NEW r \in Requests, FindPayment(r) \/ RejectPurchase(r) \/
      SavePayment(r) \/ CreatePendingEvent(r) \/ CrashRequest(r)
      PROVE  UNCHANGED <<charged, policy, byHand, activated, pdf, sticker>>
  BY <1>8 DEF FindPayment, RequestStep, NotInRequest, RejectPurchase,
      SavePayment, CreatePendingEvent, Fault, CrashRequest
<1>9. ASSUME NEW e \in Jobs, Decline(e) \/ HandleWebhook(e) \/
      Recover(e) \/ LoseLock(e) \/ ForgetEvent(e)
      PROVE  UNCHANGED <<charged, policy, byHand, activated, pdf, sticker>>
  BY <1>9 DEF Decline, NotAtStripe, HandleWebhook, Recover, LoseLock, Fault,
      ForgetEvent
<1>10. ASSUME NEW w \in Workers, NEW e \in Jobs, TakeEvent(w, e)
      PROVE  UNCHANGED <<charged, policy, byHand, activated, pdf, sticker>>
  BY <1>10 DEF TakeEvent, Step
<1>11. ASSUME NEW w \in Workers, HandlerThrows(w) \/ CrashWorker(w) \/
      CheckDuplicate(w) \/ FindPolicy(w) \/ MarkSucceeded(w) \/
      ConfirmCommission(w) \/ ReadPayment(w) \/ MarkFailed(w) \/
      FailCommission(w)
      PROVE  UNCHANGED <<charged, policy, byHand, activated, pdf, sticker>>
  BY <1>11 DEF HandlerThrows, Fault, CrashWorker, Step, CheckDuplicate,
      FindPolicy, Live, MarkSucceeded, ConfirmCommission, SetCommission,
      ReadPayment, MarkFailed, FailCommission
<1>12. ASSUME NEW b \in Brokers, NEW q \in Quotes, ReadForUpdate(b, q) \/
      DeletePolicy(b, q)
      PROVE  UNCHANGED <<charged, policy, byHand, activated, pdf, sticker>>
  BY <1>12 DEF ReadForUpdate, Live, NotBroker, DeletePolicy
<1>13. ASSUME UNCHANGED vars
      PROVE  UNCHANGED <<charged, policy, byHand, activated, pdf, sticker>>
  BY <1>13 DEF vars
<1>14. ASSUME NEW b \in Brokers, NEW q \in Quotes, CreatePolicy(b, q)
      PROVE  [Ledger!Next]_(Ledger!vars)
  <2>1. policy[q] = "none" /\ byHand' = byHand \union {q}
    BY <1>14 DEF CreatePolicy
  <2>2. PICK s \in PolicyStatus : policy' = [policy EXCEPT ![q] = s]
    BY <1>14 DEF CreatePolicy
  <2>3. UNCHANGED <<charged, activated, pdf, sticker>>
    BY <1>14 DEF CreatePolicy, NotBroker
  <2>4. {x \in Quotes : policy[x] # "none"}' = {x \in Quotes : policy[x] # "none"} \union {q}
    BY <2>2
  <2>5. Ledger!Enter(q)
    BY <2>1, <2>3, <2>4 DEF Ledger!Enter
  <2> QED
    BY <2>5 DEF Ledger!Next
<1> QED
  BY <1>1, <1>2, <1>3, <1>4, <1>5, <1>6, <1>7, <1>8, <1>9, <1>10, <1>11,
     <1>12, <1>13, <1>14
     DEF Next, RequestAction, EventAction, WorkerAction, HandlerAction, BrokerAction

(* Under every interleaving, fault and redelivery the pipeline behaves     *)
(* like the ledger.                                                        *)
THEOREM Implementation == Spec => ImplementsLedger
<1>1. Init => Ledger!Init
  BY PurchaseAssumption DEF Init, Ledger!Init
<1>2. IInv /\ [Next]_vars => [Ledger!Next]_(Ledger!vars)
  BY LedgerStep
<1> QED
  BY <1>1, <1>2, Invariant, PTL DEF Spec, ImplementsLedger, Ledger!Spec

-----------------------------------------------------------------------------
(***************************************************************************)
(* One purchase, several events.  Without a broker's edit a row that       *)
(* exists is ACTIVE, so no worker finds one to activate: the insert picks  *)
(* one worker, and the event it handles is the only one of its quote to    *)
(* get past the insert.                                                    *)
(***************************************************************************)
Past(e) ==
  \/ e \in activated
  \/ \E w \in Workers : cur[w] = e /\ pc[w] \in {"record", "pdf", "sticker", "confirm"}

SoleInv ==
  /\ deleted = {}
  /\ \A q \in Quotes : policy[q] \in {"none", "active"}
  /\ seen = [w \in Workers |-> FALSE]
  /\ \A e, f \in Jobs : Past(e) /\ Past(f) /\ QuoteOf[e] = QuoteOf[f] => e = f

(* Whoever is past the insert has left a row behind. *)
LEMMA PastHasPolicy ==
  ASSUME TypeOK, RowInv, WorkerInv, NEW e \in Jobs, Past(e)
  PROVE  policy[QuoteOf[e]] # "none"
  BY DEF Past, RowInv, WorkerInv

(* Nobody gets past the insert. *)
LEMMA NobodyPasses ==
  ASSUME SoleInv, UNCHANGED <<deleted, policy, seen>>, \A e \in Jobs : Past(e)' => Past(e)
  PROVE  SoleInv'
  BY DEF SoleInv

(* A worker that is not past the insert takes no event past it. *)
LEMMA NobodyElse ==
  ASSUME NEW w \in Workers, pc'[w] \notin {"record", "pdf", "sticker", "confirm"},
         \A v \in Workers \ {w} : pc'[v] = pc[v] /\ cur'[v] = cur[v], UNCHANGED activated
  PROVE  \A e \in Jobs : Past(e)' => Past(e)
<1> SUFFICES ASSUME NEW e \in Jobs, Past(e)'
             PROVE  Past(e)
  OBVIOUS
<1>1. CASE e \in activated'
  BY <1>1 DEF Past
<1>2. ASSUME NEW v \in Workers, cur'[v] = e, pc'[v] \in {"record", "pdf", "sticker", "confirm"}
      PROVE  Past(e)
  <2>1. cur[v] = e /\ pc[v] \in {"record", "pdf", "sticker", "confirm"}
    BY <1>2
  <2> QED
    BY <2>1 DEF Past
<1> QED
  BY <1>1, <1>2 DEF Past

(* A worker that finds no row notes what it had noted before. *)
LEMMA NothingSeen ==
  ASSUME NEW w \in Workers, NEW found \in BOOLEAN, ~found, seen = [v \in Workers |-> FALSE],
         seen' = [seen EXCEPT ![w] = found]
  PROVE  seen' = seen
<1>1. found = FALSE
  BY Zenon
<1> QED
  BY <1>1

LEMMA SoleStep ==
  ASSUME Brokers = {}, TypeOK, RowInv, WorkerInv, SoleInv, [Next]_vars
  PROVE  SoleInv'
<1> USE DEF policyVars, workerVars
<1>1. ASSUME UNCHANGED <<deleted, policy, seen, pc, cur, activated>>
      PROVE  SoleInv'
  BY <1>1, NobodyPasses DEF Past
<1>2. ASSUME NEW r \in Requests, RequestAction(r)
      PROVE  SoleInv'
  <2>1. NotInRequest
    BY <1>2 DEF RequestAction, FindPayment, RejectPurchase, SavePayment, CreatePendingEvent,
                CrashRequest
  <2> QED
    BY <1>1, <2>1 DEF NotInRequest, outputVars
<1>3. ASSUME NotAtStripe
      PROVE  SoleInv'
  BY <1>1, <1>3 DEF NotAtStripe, outputVars
<1>4. ASSUME NEW e \in Jobs, Recover(e) \/ LoseLock(e) \/ ForgetEvent(e)
      PROVE  SoleInv'
  BY <1>1, <1>4 DEF Recover, LoseLock, ForgetEvent, outputVars
<1>5. ASSUME NEW w \in Workers, NEW to, pc' = [pc EXCEPT ![w] = to],
             to \in {"record", "pdf", "sticker", "confirm"} =>
               pc[w] \in {"record", "pdf", "sticker", "confirm"},
             UNCHANGED <<deleted, policy, seen, cur, activated>>
      PROVE  SoleInv'
  <2>1. \A v \in Workers : pc'[v] = (IF v = w THEN to ELSE pc[v])
    BY <1>5 DEF TypeOK
  <2> QED
    BY <1>5, <2>1, NobodyPasses DEF Past
<1>6. ASSUME NEW w \in Workers, pc' = [pc EXCEPT ![w] = "idle"], cur' = [cur EXCEPT ![w] = None],
             seen' = [seen EXCEPT ![w] = FALSE], UNCHANGED <<deleted, policy, activated>>
      PROVE  SoleInv'
  <2>1. seen' = seen
    BY <1>6 DEF SoleInv
  <2>2. \A v \in Workers : /\ pc'[v] = (IF v = w THEN "idle" ELSE pc[v])
                           /\ v # w => cur'[v] = cur[v]
    BY <1>6 DEF TypeOK
  <2>3. \A e \in Jobs : Past(e)' => Past(e)
    BY <1>6, <2>2, NobodyElse
  <2> QED
    BY <1>6, <2>1, <2>3, NobodyPasses
<1>7. ASSUME NEW w \in Workers, NEW e \in Jobs, TakeEvent(w, e)
      PROVE  SoleInv'
  <2>1. \A v \in Workers : /\ v = w => pc'[v] \in {"check", "read"}
                           /\ v # w => pc'[v] = pc[v] /\ cur'[v] = cur[v]
    BY <1>7 DEF TakeEvent, Step, TypeOK
  <2>2. UNCHANGED <<deleted, policy, seen, activated>>
    BY <1>7 DEF TakeEvent, outputVars
  <2>3. \A d \in Jobs : Past(d)' => Past(d)
    BY <2>1, <2>2, NobodyElse
  <2> QED
    BY <2>2, <2>3, NobodyPasses
<1>8. ASSUME NEW w \in Workers, HandlerThrows(w) \/ CrashWorker(w)
      PROVE  SoleInv'
  BY <1>6, <1>8 DEF HandlerThrows, ThrowError, CrashWorker, Step, outputVars
<1>9. ASSUME NEW w \in Workers, CheckDuplicate(w) \/ ReadPayment(w)
      PROVE  SoleInv'
  BY <1>5, <1>6, <1>9 DEF CheckDuplicate, ReadPayment, Return, Step, outputVars
<1>10. ASSUME NEW w \in Workers, FindPolicy(w)
      PROVE  SoleInv'
  <2> DEFINE q == QuoteOf[cur[w]]
  <2>1. CASE payment[q] = "none" \/ (Live(q) /\ policy[q] = "active")
    BY <1>6, <1>10, <2>1 DEF FindPolicy, Return, outputVars
  <2>2. CASE ~(payment[q] = "none" \/ (Live(q) /\ policy[q] = "active"))
    <3>1. /\ pc[w] = "find" /\ pc' = [pc EXCEPT ![w] = "succeed"]
          /\ seen' = [seen EXCEPT ![w] = Live(q)]
          /\ UNCHANGED <<deleted, policy, cur, activated>>
      BY <1>10, <2>2 DEF FindPolicy, Step, outputVars
    <3>2. q \in Quotes
      BY <3>1, PurchaseAssumption DEF WorkerInv, SucceededSteps, TypeOK
    <3>3. ~Live(q)
      BY <2>2, <3>2 DEF Live, SoleInv
    <3>4. seen' = seen
      <4>1. w \in Workers /\ Live(q) \in BOOLEAN
        BY DEF Live
      <4> HIDE DEF q
      <4> QED
        BY <3>1, <3>3, <4>1, NothingSeen DEF SoleInv
    <3> QED
      BY <1>5, <3>1, <3>4
  <2> QED
    BY <2>1, <2>2
<1>11. ASSUME NEW w \in Workers, MarkSucceeded(w) \/ QueuePdf(w) \/ QueueSticker(w) \/ MarkFailed(w)
      PROVE  SoleInv'
  BY <1>5, <1>11 DEF MarkSucceeded, QueuePdf, QueueSticker, MarkFailed, Step, outputVars
<1>12. ASSUME NEW w \in Workers, ConfirmCommission(w) \/ FailCommission(w)
      PROVE  SoleInv'
  BY <1>6, <1>12 DEF ConfirmCommission, FailCommission, Return, outputVars
<1>13. ASSUME NEW w \in Workers, IssuePolicy(w)
      PROVE  SoleInv'
  <2> DEFINE q == QuoteOf[cur[w]]
  <2>1. pc[w] = "issue" /\ ~seen[w] /\ cur[w] \in Jobs /\ q \in Quotes
    BY <1>13, PurchaseAssumption DEF IssuePolicy, SoleInv, WorkerInv, SucceededSteps, TypeOK
  <2>2. CASE policy[q] # "none"
    BY <1>6, <1>13, <2>1, <2>2 DEF IssuePolicy, ThrowError, outputVars
  <2>3. CASE policy[q] = "none"
    <3>1. /\ pc' = [pc EXCEPT ![w] = "record"] /\ policy' = [policy EXCEPT ![q] = "active"]
          /\ UNCHANGED <<deleted, seen, cur, activated>>
      BY <1>13, <2>1, <2>3 DEF IssuePolicy, Step, outputVars
    <3>2. \A e \in Jobs : Past(e) => QuoteOf[e] # q
      BY <2>3, PastHasPolicy
    <3>3. \A e \in Jobs : Past(e)' => Past(e) \/ e = cur[w]
      BY <3>1 DEF Past, TypeOK
    <3>4. \A x \in Quotes : policy'[x] \in {"none", "active"}
      BY <2>1, <3>1 DEF SoleInv, TypeOK
    <3> QED
      BY <3>1, <3>2, <3>3, <3>4 DEF SoleInv
  <2> QED
    BY <2>2, <2>3
<1>14. ASSUME NEW w \in Workers, RecordActivation(w)
      PROVE  SoleInv'
  <2>1. CASE cur[w] \in activated
    BY <1>6, <1>14, <2>1 DEF RecordActivation, Return
  <2>2. CASE cur[w] \notin activated
    <3>1. /\ pc[w] = "record" /\ pc' = [pc EXCEPT ![w] = "pdf"]
          /\ activated' = activated \union {cur[w]} /\ UNCHANGED <<deleted, policy, seen, cur>>
      BY <1>14, <2>2 DEF RecordActivation, Step
    <3> QED
      BY <3>1, NobodyPasses DEF Past, TypeOK
  <2> QED
    BY <2>1, <2>2
<1>15. CASE UNCHANGED vars
  BY <1>1, <1>15 DEF vars, outputVars
<1> QED
  BY <1>2, <1>3, <1>4, <1>7, <1>8, <1>9, <1>10, <1>11, <1>12, <1>13, <1>14, <1>15
     DEF Next, EventAction, WorkerAction, HandlerAction, Charge, Decline, HandleWebhook

(* However many events Stripe sends about one payment, and however their   *)
(* handlers overlap, crash and are retried, the documents of its policy    *)
(* are ordered once, as long as no broker edits policies: an edit between  *)
(* two of them lets the second one through (stripe-webhook.service.ts:     *)
(* 184-191, and the unique intent id of policy.entity.ts).                 *)
THEOREM DocumentsOfAPolicyOnce ==
  ASSUME Brokers = {}
  PROVE  Spec => []DocumentsOncePerPolicy
<1>1. Init => SoleInv
  <2> SUFFICES ASSUME Init
               PROVE  SoleInv
    OBVIOUS
  <2>1. \A e \in Jobs : ~Past(e)
    BY DEF Past, Init
  <2> QED
    BY <2>1 DEF Init, SoleInv
<1>2. IInv /\ SoleInv /\ [Next]_vars => SoleInv'
  BY SoleStep DEF IInv
<1>3. IInv /\ SoleInv => DocumentsOncePerPolicy
  <2> SUFFICES ASSUME IInv, SoleInv, NEW e \in SucceededEvents, NEW f \in SucceededEvents,
                      e # f, QuoteOf[e] = QuoteOf[f]
               PROVE  pdf[e] + pdf[f] <= 1
    BY DEF DocumentsOncePerPolicy
  <2>1. e \in Jobs /\ f \in Jobs /\ ~(Past(e) /\ Past(f))
    BY PurchaseAssumption DEF SoleInv
  <2>2. e \notin activated \/ f \notin activated
    BY <2>1 DEF Past
  <2>3. /\ e \notin activated => pdf[e] = 0
        /\ f \notin activated => pdf[f] = 0
        /\ pdf[e] \in Nat /\ pdf[f] \in Nat /\ pdf[e] <= 1 /\ pdf[f] <= 1
    BY <2>1 DEF IInv, TypeOK, DocumentInv, DocumentsOncePerEvent
  <2> QED
    BY <2>2, <2>3
<1> QED
  BY <1>1, <1>2, <1>3, Invariant, PTL DEF Spec

-----------------------------------------------------------------------------
(***************************************************************************)
(* The commission columns.                                                 *)
(***************************************************************************)

(* A row that does not exist has no columns. *)
SnapshotInv == \A q \in Quotes : policy[q] = "none" => snapshot[q] = "none"

(* Everybody but the insert and a broker's update leaves the columns alone. *)
LEMMA ColumnsAreLeft ==
  ASSUME [Next]_vars
  PROVE  \/ UNCHANGED <<policy, snapshot>>
         \/ \E w \in Workers : IssuePolicy(w)
         \/ \E b \in Brokers : UpdatePolicy(b) \/ \E q \in Quotes : CreatePolicy(b, q)
<1> USE DEF policyVars
<1>1. ASSUME NEW r \in Requests, RequestAction(r)
      PROVE  UNCHANGED <<policy, snapshot>>
  BY <1>1 DEF RequestAction, FindPayment, RejectPurchase, SavePayment, CreatePendingEvent,
              CrashRequest, NotInRequest
<1>2. ASSUME NEW q \in Quotes, Charge(q)
      PROVE  UNCHANGED <<policy, snapshot>>
  BY <1>2 DEF Charge, NotAtStripe
<1>3. ASSUME NEW e \in Jobs, EventAction(e)
      PROVE  UNCHANGED <<policy, snapshot>>
  BY <1>3 DEF EventAction, Decline, HandleWebhook, Recover, LoseLock, ForgetEvent, NotAtStripe
<1>4. ASSUME NEW w \in Workers, WorkerAction(w), ~IssuePolicy(w)
      PROVE  UNCHANGED <<policy, snapshot>>
  BY <1>4 DEF WorkerAction, HandlerAction, HandlerThrows, CrashWorker, TakeEvent, CheckDuplicate,
              FindPolicy, MarkSucceeded, RecordActivation, QueuePdf, QueueSticker,
              ConfirmCommission, ReadPayment, MarkFailed, FailCommission
<1>5. ASSUME NEW b \in Brokers, BrokerAction(b), ~UpdatePolicy(b),
             ~\E q \in Quotes : CreatePolicy(b, q)
      PROVE  UNCHANGED <<policy, snapshot>>
  BY <1>5 DEF BrokerAction, ReadForUpdate, DeletePolicy
<1>6. CASE UNCHANGED vars
  BY <1>6 DEF vars
<1> QED
  BY <1>1, <1>2, <1>3, <1>4, <1>5, <1>6 DEF Next

(* The commission is computed when the row is inserted and never again: a  *)
(* redelivered, retried or doubled event leaves the columns as they are,   *)
(* and a broker's update alone replaces them (policy.entity.ts:60-66,      *)
(* policies.service.ts, stripe-webhook.service.ts:206-262).                *)
THEOREM SnapshotsAreKept == Spec => OnlyBrokersEditSnapshots
<1> DEFINE Kept == \A q \in Quotes : snapshot[q] \notin {"none", snapshot'[q]} =>
                     \E b \in Brokers : edit[b] = q /\ edit'[b] = None
<1>1. Init => SnapshotInv
  BY DEF Init, SnapshotInv
<1>2. IInv /\ SnapshotInv /\ [Next]_vars => SnapshotInv' /\ [Kept]_vars
  <2> SUFFICES ASSUME IInv, SnapshotInv, [Next]_vars
               PROVE  SnapshotInv' /\ Kept
    OBVIOUS
  <2> USE DEF IInv, TypeOK
  <2>1. CASE UNCHANGED <<policy, snapshot>>
    BY <2>1 DEF SnapshotInv
  <2>2. ASSUME NEW w \in Workers, IssuePolicy(w)
        PROVE  SnapshotInv' /\ Kept
    <3> DEFINE q == QuoteOf[cur[w]]
    <3>1. pc[w] = "issue" /\ q \in Quotes
      BY <2>2, PurchaseAssumption DEF IssuePolicy, WorkerInv, SucceededSteps
    <3>2. CASE policy[q] = "none"
      <4>1. snapshot[q] = "none" /\ ~seen[w]
        BY <3>1, <3>2 DEF SnapshotInv, WorkerInv
      <4>2. snapshot' = [snapshot EXCEPT ![q] = "original"] /\ policy' = [policy EXCEPT ![q] = "active"]
        BY <2>2, <3>2, <4>1 DEF IssuePolicy
      <4> QED
        BY <3>1, <4>1, <4>2 DEF SnapshotInv
    <3>3. CASE policy[q] # "none"
      <4>1. UNCHANGED snapshot /\ (policy' = policy \/ policy' = [policy EXCEPT ![q] = "active"])
        BY <2>2, <3>3 DEF IssuePolicy
      <4> QED
        BY <3>1, <3>3, <4>1 DEF SnapshotInv
    <3> QED
      BY <3>2, <3>3
  <2>3. ASSUME NEW b \in Brokers, UpdatePolicy(b)
        PROVE  SnapshotInv' /\ Kept
    <3> DEFINE q == edit[b]
    <3>1. q \in Quotes /\ policy[q] # "none"
      BY <2>3 DEF UpdatePolicy, RowInv
    <3>2. PICK s \in PolicyStatus : policy' = [policy EXCEPT ![q] = s]
      BY <2>3 DEF UpdatePolicy
    <3>3. PICK c \in {"original", "edited"} : snapshot' = [snapshot EXCEPT ![q] = c]
      BY <2>3 DEF UpdatePolicy
    <3>4. edit'[b] = None
      BY <2>3 DEF UpdatePolicy
    <3> QED
      BY <3>1, <3>2, <3>3, <3>4 DEF SnapshotInv, PolicyStatus
  <2>4. ASSUME NEW b \in Brokers, NEW q \in Quotes, CreatePolicy(b, q)
        PROVE  SnapshotInv' /\ Kept
    <3>1. snapshot[q] = "none"
      BY <2>4 DEF CreatePolicy, SnapshotInv
    <3>2. PICK s \in PolicyStatus : policy' = [policy EXCEPT ![q] = s]
      BY <2>4 DEF CreatePolicy
    <3>3. PICK c \in {"original", "edited"} : snapshot' = [snapshot EXCEPT ![q] = c]
      BY <2>4 DEF CreatePolicy
    <3> QED
      BY <3>1, <3>2, <3>3 DEF SnapshotInv, PolicyStatus
  <2> QED
    BY <2>1, <2>2, <2>3, <2>4, ColumnsAreLeft
<1> QED
  BY <1>1, <1>2, Invariant, PTL DEF Spec, OnlyBrokersEditSnapshots
=============================================================================
