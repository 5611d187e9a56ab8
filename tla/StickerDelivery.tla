---------------------------- MODULE StickerDelivery ----------------------------
(***************************************************************************)
(* The logistics job of one policy: a shipments row, the carrier's API     *)
(* under a 10 s timeout, and the broker's manual handling as the fallback  *)
(* (logistics.service.ts).  Each attempt makes a row of its own; the        *)
(* client is shown the newest.  The choice between Speedy and Econt, the address  *)
(* and the dates are abstract; a job is queued only for a policy with an   *)
(* address, and nothing takes it away, so the run without one is left out. *)
(***************************************************************************)
EXTENDS BullQueue, Sequences

CONSTANT MaxFaults   \* bound on crashes, lost locks and failing statements

VARIABLES
  shipments,  \* the policy's shipments rows in the order they were created
  parcels,    \* rows whose attempt made a parcel at the carrier (external)
  skipped,    \* a run returned for want of the feature or the policy
  manual,     \* manual handlings the broker was asked for
  pc, cur,    \* per worker: the handler's next call, its job
  row,        \* per worker: the row it created
  faults

workerVars == <<pc, cur, row>>
vars == <<queueVars, shipments, parcels, skipped, manual, workerVars, faults>>

TypeOK ==
  /\ QueueTypeOK
  /\ shipments \in Seq({"pending", "dispatched", "failed"})
  /\ parcels \subseteq DOMAIN shipments
  /\ skipped \in BOOLEAN
  /\ manual \in Nat
  /\ pc \in [Workers -> {"idle", "check", "create", "carrier", "dispatched",
                         "failed", "manual"}]
  /\ cur \in [Workers -> Jobs \union {None}]
  /\ row \in [Workers -> {0} \union DOMAIN shipments]
  /\ faults \in 0..MaxFaults

Init ==
  /\ QueueInit
  /\ shipments = <<>> /\ parcels = {}
  /\ skipped = FALSE
  /\ manual = 0
  /\ pc = [w \in Workers |-> "idle"]
  /\ cur = [w \in Workers |-> None]
  /\ row = [w \in Workers |-> 0]
  /\ faults = 0

Fault == faults < MaxFaults /\ faults' = faults + 1

-----------------------------------------------------------------------------
Goto(w, from, to) ==
  /\ pc[w] = from
  /\ pc' = [pc EXCEPT ![w] = to]

Idle(w) ==
  /\ pc' = [pc EXCEPT ![w] = "idle"]
  /\ cur' = [cur EXCEPT ![w] = None]
  /\ row' = [row EXCEPT ![w] = 0]

Return(w) == Idle(w) /\ Complete(w, cur[w])
ThrowError(w) == Idle(w) /\ Throw(w, cur[w])

Order(j) ==
  /\ job[j] = "absent"
  /\ Add(j)
  /\ UNCHANGED <<shipments, parcels, skipped, manual, workerVars, faults>>

TakeJob(w, j) ==
  /\ Goto(w, "idle", "check")
  /\ Take(w, j)
  /\ cur' = [cur EXCEPT ![w] = j]
  /\ UNCHANGED <<shipments, parcels, skipped, manual, row, faults>>

(* The feature may be off by now, or the policy deleted. *)
CheckFeature(w) ==
  /\ pc[w] = "check"
  /\ \/ skipped' = TRUE /\ Return(w)
     \/ Goto(w, "check", "create") /\ UNCHANGED <<queueVars, cur, row, skipped>>
  /\ UNCHANGED <<shipments, parcels, manual, faults>>

CreateShipment(w) ==
  /\ Goto(w, "create", "carrier")
  /\ shipments' = Append(shipments, "pending")
  /\ row' = [row EXCEPT ![w] = Len(shipments')]
  /\ UNCHANGED <<queueVars, cur, parcels, skipped, manual, faults>>

(* The carrier makes a parcel and answers, or refuses, or makes one and    *)
(* its answer is lost or too late.                                         *)
CallCarrier(w) ==
  /\ \E parcel, answer \in BOOLEAN :
       /\ Goto(w, "carrier", IF parcel /\ answer THEN "dispatched" ELSE "failed")
       /\ parcels' = IF parcel THEN parcels \union {row[w]} ELSE parcels
  /\ UNCHANGED <<queueVars, cur, row, shipments, skipped, manual, faults>>

(* Mutant: the handler throws after the parcel was dispatched. *)
MarkDispatchedThrows(w) ==
  /\ pc[w] = "dispatched"
  /\ shipments' = [shipments EXCEPT ![row[w]] = "dispatched"]
  /\ ThrowError(w)
  /\ UNCHANGED <<parcels, skipped, manual, faults>>

MarkDispatched(w) ==
  /\ pc[w] = "dispatched"
  /\ shipments' = [shipments EXCEPT ![row[w]] = "dispatched"]
  /\ Return(w)
  /\ UNCHANGED <<parcels, skipped, manual, faults>>

(* Mutant: the error is swallowed once the row says "failed". *)
MarkFailedReturns(w) ==
  /\ pc[w] = "failed"
  /\ shipments' = [shipments EXCEPT ![row[w]] = "failed"]
  /\ Return(w)
  /\ UNCHANGED <<parcels, skipped, manual, faults>>

(* The catch block: the row, the broker, and the error goes on to Bull. *)
MarkFailed(w) ==
  /\ Goto(w, "failed", "manual")
  /\ shipments' = [shipments EXCEPT ![row[w]] = "failed"]
  /\ UNCHANGED <<queueVars, cur, row, parcels, skipped, manual, faults>>

AskBroker(w) ==
  /\ pc[w] = "manual"
  /\ manual' = manual + 1
  /\ ThrowError(w)
  /\ UNCHANGED <<shipments, parcels, skipped, faults>>

(* Inside the try block an error leads to the catch block. *)
HandlerThrows(w) ==
  /\ pc[w] # "idle" /\ Fault
  /\ IF pc[w] = "dispatched"
     THEN Goto(w, "dispatched", "failed") /\ UNCHANGED <<queueVars, cur, row>>
     ELSE ThrowError(w)
  /\ UNCHANGED <<shipments, parcels, skipped, manual>>

CrashWorker(w) ==
  /\ pc[w] # "idle" /\ Fault
  /\ Idle(w)
  /\ UNCHANGED <<queueVars, shipments, parcels, skipped, manual>>

Recover(j) ==
  /\ \A w \in Workers : lock[j] = w => cur[w] # j
  /\ Reclaim(j)
  /\ UNCHANGED <<shipments, parcels, skipped, manual, workerVars, faults>>

LoseLock(j) ==
  /\ \E w \in Workers : lock[j] = w /\ cur[w] = j
  /\ Fault
  /\ Reclaim(j)
  /\ UNCHANGED <<shipments, parcels, skipped, manual, workerVars>>

-----------------------------------------------------------------------------
HandlerAction(w) ==
  \/ CheckFeature(w) \/ CreateShipment(w) \/ CallCarrier(w) \/ MarkDispatched(w)
  \/ MarkFailed(w) \/ AskBroker(w)

Next ==
  \/ \E w \in Workers :
       \/ HandlerAction(w) \/ HandlerThrows(w) \/ CrashWorker(w)
       \/ \E j \in Jobs : TakeJob(w, j)
  \/ \E j \in Jobs : Order(j) \/ Recover(j) \/ LoseLock(j)

(* As for every queue: handlers go on (the carrier's call is cut off after *)
(* 10 s), jobs are handed out, stalled ones are found.                     *)
Fairness ==
  /\ \A w \in Workers : WF_vars(HandlerAction(w))
  /\ \A j \in Jobs : WF_vars(Recover(j)) /\ SF_vars(\E w \in Workers : TakeJob(w, j))

Spec == Init /\ [][Next]_vars
FairSpec == Spec /\ Fairness

-----------------------------------------------------------------------------
Dispatched == {i \in DOMAIN shipments : shipments[i] = "dispatched"}

(* A sticker job that is over has sent a parcel, or has asked the broker,  *)
(* or was called off: no purchase with the feature loses its sticker       *)
(* silently (logistics.service.ts:84-125), unless two of its runs were cut *)
(* short.                                                                  *)
NoStickerForgotten ==
  \A j \in Jobs : job[j] = "completed" \/ (job[j] = "failed" /\ faults < 2) =>
    Dispatched # {} \/ manual > 0 \/ skipped

(* Of the parcels of a policy, all but one have a row that says "failed"   *)
(* (a lost answer), or a run that was cut short.                           *)
ParcelsExplained ==
  Cardinality({i \in parcels : shipments[i] # "failed"}) <= 1 + faults
=============================================================================
