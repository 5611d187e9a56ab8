---------------------------- MODULE DocumentDelivery ----------------------------
(***************************************************************************)
(* The PDF queue's jobs about one policy: generate-policy-pdf, ordered by  *)
(* its activation, generates the policy and its green card, stores both,   *)
(* mails the links and puts DOCUMENTS_DELIVERED on record; a fleet export  *)
(* generates the policy again, without mail (pdf-generation.service.ts).   *)
(* Every awaited call commits alone.  An S3 object is named by what it     *)
(* holds; the keys of both jobs for one document are the same.             *)
(***************************************************************************)
EXTENDS BullQueue

CONSTANTS
  Exports,     \* the jobs that belong to a fleet export
  MaxFaults    \* bound on throws, crashes and lost locks

ASSUME DeliveryAssumption == Exports \subseteq Jobs /\ MaxFaults \in Nat

Deliveries == Jobs \ Exports
Documents == {"policy", "greenCard"}

VARIABLES
  deleted,      \* the policy is soft-deleted
  policyKey,    \* policies.policy_pdf_s3_key: the object it names
  greenCardKey, \* policies.green_card_pdf_s3_key
  emailedAt,    \* policies.documents_emailed_at is set
  events,       \* DOCUMENTS_DELIVERED rows, by their emailSent: [BOOLEAN -> Nat]
  objects,      \* documents in S3
  mails,        \* mails sent to the client
  pc, cur,      \* per worker: the handler's next call, its job
  hasEmail,     \* per worker: the client had an address when the job read it
  faults

policyVars == <<policyKey, greenCardKey, emailedAt>>
workerVars == <<pc, cur, hasEmail>>
vars == <<queueVars, deleted, policyVars, events, objects, mails, workerVars, faults>>

TypeOK ==
  /\ QueueTypeOK
  /\ deleted \in BOOLEAN
  /\ policyKey \in {"none", "policy"}
  /\ greenCardKey \in {"none"} \union Documents
  /\ emailedAt \in BOOLEAN
  /\ events \in [BOOLEAN -> Nat]
  /\ objects \subseteq Documents
  /\ mails \in Nat
  /\ pc \in [Workers -> {"idle", "load", "policy", "greenCard", "keys", "mail",
                         "mailed", "record"}]
  /\ cur \in [Workers -> Jobs \union {None}]
  /\ hasEmail \in [Workers -> BOOLEAN]
  /\ faults \in 0..MaxFaults

Init ==
  /\ QueueInit
  /\ deleted = FALSE
  /\ policyKey = "none" /\ greenCardKey = "none" /\ emailedAt = FALSE
  /\ events = [sent \in BOOLEAN |-> 0]
  /\ objects = {}
  /\ mails = 0
  /\ pc = [w \in Workers |-> "idle"]
  /\ cur = [w \in Workers |-> None]
  /\ hasEmail = [w \in Workers |-> FALSE]
  /\ faults = 0

Fault == faults < MaxFaults /\ faults' = faults + 1

-----------------------------------------------------------------------------
(* The activation or a fleet export queues its job; a broker deletes. *)
Order(j) ==
  /\ job[j] = "absent"
  /\ Add(j)
  /\ UNCHANGED <<deleted, policyVars, events, objects, mails, workerVars, faults>>

DeletePolicy ==
  /\ ~deleted /\ deleted' = TRUE
  /\ UNCHANGED <<queueVars, policyVars, events, objects, mails, workerVars, faults>>

-----------------------------------------------------------------------------
Goto(w, from, to) ==
  /\ pc[w] = from
  /\ pc' = [pc EXCEPT ![w] = to]

Idle(w) ==
  /\ pc' = [pc EXCEPT ![w] = "idle"]
  /\ cur' = [cur EXCEPT ![w] = None]
  /\ hasEmail' = [hasEmail EXCEPT ![w] = FALSE]

(* processIndividualPdfJob catches what an export throws. *)
Fails(w) ==
  /\ Idle(w)
  /\ IF cur[w] \in Exports THEN Complete(w, cur[w]) ELSE Throw(w, cur[w])

TakeJob(w, j) ==
  /\ Goto(w, "idle", "load")
  /\ Take(w, j)
  /\ cur' = [cur EXCEPT ![w] = j]
  /\ UNCHANGED <<deleted, policyVars, events, objects, mails, hasEmail, faults>>

(* The policy, its client and its insurer, and both PDFs. *)
LoadPolicy(w) ==
  /\ pc[w] = "load"
  /\ \/ deleted /\ Fails(w)
     \/ /\ ~deleted
        /\ Goto(w, "load", "policy")
        /\ \E email \in BOOLEAN :
             hasEmail' = [hasEmail EXCEPT ![w] = email /\ cur[w] \in Deliveries]
        /\ UNCHANGED <<queueVars, cur>>
  /\ UNCHANGED <<deleted, policyVars, events, objects, mails, faults>>

(* Mutant: the second upload is not awaited before the keys are written. *)
UploadPolicyOnly(w) ==
  /\ Goto(w, "policy", "keys")
  /\ objects' = objects \union {"policy"}
  /\ UNCHANGED <<queueVars, cur, hasEmail, deleted, policyVars, events, mails, faults>>

UploadPolicy(w) ==
  /\ Goto(w, "policy", IF cur[w] \in Exports THEN "keys" ELSE "greenCard")
  /\ objects' = objects \union {"policy"}
  /\ UNCHANGED <<queueVars, cur, hasEmail, deleted, policyVars, events, mails, faults>>

UploadGreenCard(w) ==
  /\ Goto(w, "greenCard", "keys")
  /\ objects' = objects \union {"greenCard"}
  /\ UNCHANGED <<queueVars, cur, hasEmail, deleted, policyVars, events, mails, faults>>

(* updatePdfKeys: an export writes the policy's key in both columns. *)
UpdatePdfKeys(w) ==
  /\ pc[w] = "keys"
  /\ policyKey' = "policy"
  /\ \/ /\ cur[w] \in Exports
        /\ greenCardKey' = "policy"
        /\ Idle(w) /\ Complete(w, cur[w])
     \/ /\ cur[w] \in Deliveries
        /\ greenCardKey' = "greenCard"
        /\ Goto(w, "keys", IF hasEmail[w] THEN "mail" ELSE "record")
        /\ UNCHANGED <<queueVars, cur, hasEmail>>
  /\ UNCHANGED <<emailedAt, deleted, events, objects, mails, faults>>

(* The links are signed for the keys the job computed, not for the row's. *)
SendDocuments(w) ==
  /\ Goto(w, "mail", "mailed")
  /\ mails' = mails + 1
  /\ UNCHANGED <<queueVars, cur, hasEmail, deleted, policyVars, events, objects, faults>>

MarkDocumentsEmailed(w) ==
  /\ Goto(w, "mailed", "record")
  /\ emailedAt' = TRUE
  /\ UNCHANGED <<queueVars, cur, hasEmail, deleted, policyKey, greenCardKey, events,
                 objects, mails, faults>>

(* Mutant: the row violates a constraint, so the job is retried. *)
RecordDeliveryThrows(w) ==
  /\ pc[w] = "record"
  /\ Fails(w)
  /\ UNCHANGED <<deleted, policyVars, events, objects, mails, faults>>

(* Mutant: the row is written only after a mail. *)
RecordDeliveryMailed(w) ==
  /\ pc[w] = "record"
  /\ events' = IF hasEmail[w] THEN [events EXCEPT ![TRUE] = @ + 1] ELSE events
  /\ Idle(w) /\ Complete(w, cur[w])
  /\ UNCHANGED <<deleted, policyVars, objects, mails, faults>>

RecordDelivery(w) ==
  /\ pc[w] = "record"
  /\ events' = [events EXCEPT ![hasEmail[w]] = @ + 1]
  /\ Idle(w) /\ Complete(w, cur[w])
  /\ UNCHANGED <<deleted, policyVars, objects, mails, faults>>

HandlerThrows(w) ==
  /\ pc[w] # "idle" /\ Fault
  /\ Fails(w)
  /\ UNCHANGED <<deleted, policyVars, events, objects, mails>>

CrashWorker(w) ==
  /\ pc[w] # "idle" /\ Fault
  /\ Idle(w)
  /\ UNCHANGED <<queueVars, deleted, policyVars, events, objects, mails>>

Recover(j) ==
  /\ \A w \in Workers : lock[j] = w => cur[w] # j
  /\ Reclaim(j)
  /\ UNCHANGED <<deleted, policyVars, events, objects, mails, workerVars, faults>>

LoseLock(j) ==
  /\ \E w \in Workers : lock[j] = w /\ cur[w] = j
  /\ Fault
  /\ Reclaim(j)
  /\ UNCHANGED <<deleted, policyVars, events, objects, mails, workerVars>>

-----------------------------------------------------------------------------
HandlerAction(w) ==
  \/ LoadPolicy(w) \/ UploadPolicy(w) \/ UploadGreenCard(w) \/ UpdatePdfKeys(w)
  \/ SendDocuments(w) \/ MarkDocumentsEmailed(w) \/ RecordDelivery(w)

Next ==
  \/ DeletePolicy
  \/ \E w \in Workers :
       \/ HandlerAction(w) \/ HandlerThrows(w) \/ CrashWorker(w)
       \/ \E j \in Jobs : TakeJob(w, j)
  \/ \E j \in Jobs : Order(j) \/ Recover(j) \/ LoseLock(j)

(* A handler that has started goes on, the queue hands out its jobs, the   *)
(* stalled-job checker runs; nobody is forced to order or to delete.       *)
Fairness ==
  /\ \A w \in Workers : WF_vars(HandlerAction(w))
  /\ \A j \in Jobs : WF_vars(Recover(j)) /\ SF_vars(\E w \in Workers : TakeJob(w, j))

Spec == Init /\ [][Next]_vars
FairSpec == Spec /\ Fairness

-----------------------------------------------------------------------------
(* A delivery on record has happened: both documents and the keys of the   *)
(* row lead to objects in S3, and with emailSent a mail went out and the   *)
(* row says so, whichever runs of the job were cut short before            *)
(* (pdf-generation.service.ts:76-125).                                     *)
RecordIsTrue ==
  /\ events[TRUE] + events[FALSE] > 0 =>
       objects = Documents /\ "none" \notin {policyKey, greenCardKey}
  /\ events[TRUE] > 0 => mails > 0 /\ emailedAt

(* A client gets the documents of one order again only when a run was cut  *)
(* short: at most one more mail for each fault.                            *)
RepeatedMailsExplained ==
  mails <= Cardinality({j \in Deliveries : job[j] # "absent"}) + faults

(* An ordered delivery of a policy that stays is finally on record, or the *)
(* job is in the dead letter set.                                          *)
OrderedIsDelivered ==
  \A j \in Deliveries :
    job[j] = "waiting" ~> events[TRUE] + events[FALSE] > 0 \/ deleted \/ job[j] = "failed"
=============================================================================
