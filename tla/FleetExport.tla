------------------------------ MODULE FleetExport ------------------------------
(***************************************************************************)
(* A fleet's batch PDF export (fleet-pdf-export.service.ts): the request   *)
(* that creates the export row and queues one job per policy, the jobs,    *)
(* which count themselves in the row, and the assembly of the ZIP by the   *)
(* job that finds all of them counted.  Every statement on the row commits *)
(* alone.  The expiry of the ZIP, the texts and the S3 keys are abstract.  *)
(***************************************************************************)
EXTENDS BullQueue

CONSTANT
  MaxFaults    \* bound on failing statements, crashes and lost locks

ASSUME ExportAssumption == MaxFaults \in Nat

Policies == Jobs      \* one job per policy of the batch
Total == Cardinality(Policies)

VARIABLES
  call,                  \* where createBatchExport stands
  status, completed, failed, failedIds, zipKey,  \* the fleet_pdf_exports row
  zip,                   \* the policies in the ZIP in S3
  pdfs,                  \* policies with a PDF in S3, some from their activation
  told,                  \* a broker got "Your batch PDF export is ready"
  pc, cur,               \* per worker: the handler's next statement, its policy
  inTry,                 \* per worker: still inside the handler's try block
  snap,                  \* per worker: the row as assembleBatchZip read it, and
                         \* the PDFs that were in S3 then
  newest,                \* history: the most policies counted in a row from
                         \* which an assembly has written
  outrun,                \* history: an assembly wrote after one that had read more
  faults                 \* faults injected so far

rowVars == <<status, completed, failed, failedIds, zipKey>>
s3Vars == <<zip, pdfs>>
workerVars == <<pc, cur, inTry, snap>>
orderVars == <<newest, outrun>>
vars == <<queueVars, call, rowVars, s3Vars, told, workerVars, orderVars, faults>>

ExportStatus == {"none", "pending", "processing", "assembling", "completed",
                 "partial", "failed"}
Counts == [completed : Nat, failed : Nat, failedIds : SUBSET Policies,
           pdfs : SUBSET Policies]
NoSnap == [completed |-> 0, failed |-> 0, failedIds |-> {}, pdfs |-> {}]

TypeOK ==
  /\ QueueTypeOK
  /\ call \in {"start", "queue", "done", "dead"}
  /\ status \in ExportStatus
  /\ completed \in Nat /\ failed \in Nat
  /\ failedIds \subseteq Policies /\ zipKey \in BOOLEAN
  /\ zip \subseteq Policies /\ pdfs \subseteq Policies
  /\ told \in BOOLEAN
  /\ pc \in [Workers -> {"idle", "generate", "completed", "failed", "try",
                         "assemble", "markFailed", "zip", "ready", "notify"}]
  /\ cur \in [Workers -> Policies \union {None}]
  /\ inTry \in [Workers -> BOOLEAN]
  /\ snap \in [Workers -> Counts]
  /\ newest \in Nat /\ outrun \in BOOLEAN
  /\ faults \in 0..MaxFaults

Init ==
  /\ QueueInit
  /\ call = "start"
  /\ status = "none" /\ completed = 0 /\ failed = 0 /\ failedIds = {} /\ zipKey = FALSE
  /\ zip = {} /\ pdfs \in SUBSET Policies
  /\ told = FALSE
  /\ pc = [w \in Workers |-> "idle"]
  /\ cur = [w \in Workers |-> None]
  /\ inTry = [w \in Workers |-> FALSE]
  /\ snap = [w \in Workers |-> NoSnap]
  /\ newest = 0 /\ outrun = FALSE
  /\ faults = 0

Fault == faults < MaxFaults /\ faults' = faults + 1

-----------------------------------------------------------------------------
(***************************************************************************)
(* createBatchExport.                                                      *)
(***************************************************************************)
SaveExport ==
  /\ call = "start"
  /\ call' = "queue"
  /\ status' = "pending"
  /\ UNCHANGED <<queueVars, completed, failed, failedIds, zipKey, s3Vars, told,
                 workerVars, orderVars, faults>>

(* One of the parallel pdfQueue.add calls *)
QueueJob(p) ==
  /\ call = "queue"
  /\ job[p] = "absent"
  /\ Add(p)
  /\ UNCHANGED <<call, rowVars, s3Vars, told, workerVars, orderVars, faults>>

(* The last statement writes PROCESSING whatever the jobs have done since. *)
MarkProcessing ==
  /\ call = "queue"
  /\ \A p \in Policies : job[p] # "absent"
  /\ call' = "done"
  /\ status' = "processing"
  /\ UNCHANGED <<queueVars, completed, failed, failedIds, zipKey, s3Vars, told,
                 workerVars, orderVars, faults>>

CrashCall ==
  /\ call = "queue"
  /\ Fault
  /\ call' = "dead"
  /\ UNCHANGED <<queueVars, rowVars, s3Vars, told, workerVars, orderVars>>

-----------------------------------------------------------------------------
(***************************************************************************)
(* processIndividualPdfJob and what it calls.                              *)
(***************************************************************************)
Goto(w, from, to) ==
  /\ pc[w] = from
  /\ pc' = [pc EXCEPT ![w] = to]

Idle(w) ==
  /\ pc' = [pc EXCEPT ![w] = "idle"]
  /\ cur' = [cur EXCEPT ![w] = None]
  /\ inTry' = [inTry EXCEPT ![w] = FALSE]
  /\ snap' = [snap EXCEPT ![w] = NoSnap]

TakeJob(w, p) ==
  /\ Goto(w, "idle", "generate")
  /\ Take(w, p)
  /\ cur' = [cur EXCEPT ![w] = p]
  /\ inTry' = [inTry EXCEPT ![w] = TRUE]
  /\ UNCHANGED <<call, rowVars, s3Vars, told, snap, orderVars, faults>>

GeneratePdf(w) ==
  /\ Goto(w, "generate", "completed")
  /\ pdfs' = pdfs \union {cur[w]}
  /\ UNCHANGED <<queueVars, call, rowVars, zip, told, cur, inTry, snap, orderVars, faults>>

(* generateAndUploadPolicyPdf throws: the policy is counted as failed. *)
PdfFails(w) ==
  /\ Goto(w, "generate", "failed")
  /\ inTry' = [inTry EXCEPT ![w] = FALSE]
  /\ UNCHANGED <<queueVars, call, rowVars, s3Vars, told, cur, snap, orderVars, faults>>

IncrementCompleted(w) ==
  /\ Goto(w, "completed", "try")
  /\ completed' = completed + 1
  /\ UNCHANGED <<queueVars, call, status, failed, failedIds, zipKey, s3Vars, told,
                 cur, inTry, snap, orderVars, faults>>

(* Mutant: the failing policy is not counted. *)
IncrementFailedUncounted(w) ==
  /\ Goto(w, "failed", "try")
  /\ UNCHANGED <<queueVars, call, rowVars, s3Vars, told, cur, inTry, snap, orderVars, faults>>

IncrementFailed(w) ==
  /\ Goto(w, "failed", "try")
  /\ failed' = failed + 1
  /\ failedIds' = failedIds \union {cur[w]}
  /\ UNCHANGED <<queueVars, call, status, completed, zipKey, s3Vars, told,
                 cur, inTry, snap, orderVars, faults>>

AllCounted ==
  /\ status \notin {"assembling", "completed", "partial", "failed"}
  /\ completed + failed = Total

(* tryMarkForAssembly: one guarded UPDATE ... RETURNING.  typeorm resolves  *)
(* it to <<rows, count>>, which the code takes for the rows: its length is *)
(* 2 whether a row matched or not, so every job goes on to assemble.       *)
TryAssemble(w) ==
  /\ Goto(w, "try", "assemble")
  /\ status' = IF AllCounted THEN "assembling" ELSE status
  /\ UNCHANGED <<queueVars, call, completed, failed, failedIds, zipKey, s3Vars, told,
                 cur, inTry, snap, orderVars, faults>>

(* assembleBatchZip reads the row ... *)
ReadExport(w) ==
  /\ Goto(w, "assemble", IF completed = 0 THEN "markFailed" ELSE "zip")
  /\ snap' = [snap EXCEPT ![w] = [completed |-> completed, failed |-> failed,
                                  failedIds |-> failedIds, pdfs |-> pdfs]]
  /\ UNCHANGED <<queueVars, call, rowVars, s3Vars, told, cur, inTry, orderVars, faults>>

(* An assembly writes to S3 or to the row what it has read before. *)
Writes(w) ==
  LET read == snap[w].completed + snap[w].failed
  IN  /\ newest' = IF newest < read THEN read ELSE newest
      /\ outrun' = (outrun \/ read < newest)

MarkExportFailed(w) ==
  /\ Goto(w, "markFailed", "notify")
  /\ status' = "failed"
  /\ Writes(w)
  /\ UNCHANGED <<queueVars, call, completed, failed, failedIds, zipKey, s3Vars, told,
                 cur, inTry, snap, faults>>

(* ... fetches the PDFs of the policies not listed as failed, one by one,  *)
(* and uploads the ZIP of those it found ...                               *)
BuildZip(w) ==
  /\ Goto(w, "zip", "ready")
  /\ \E found \in SUBSET pdfs :
       snap[w].pdfs \subseteq found /\ zip' = found \ snap[w].failedIds
  /\ Writes(w)
  /\ UNCHANGED <<queueVars, call, rowVars, pdfs, told, cur, inTry, snap, faults>>

(* Mutant: the status is that of the row as it is now. *)
MarkReadyFresh(w) ==
  /\ Goto(w, "ready", "notify")
  /\ status' = IF completed = Total THEN "completed" ELSE "partial"
  /\ zipKey' = TRUE
  /\ Writes(w)
  /\ UNCHANGED <<queueVars, call, completed, failed, failedIds, s3Vars, told,
                 cur, inTry, snap, faults>>

(* Mutant: the status stays "assembling". *)
MarkReadySilently(w) ==
  /\ Goto(w, "ready", "notify")
  /\ zipKey' = TRUE
  /\ Writes(w)
  /\ UNCHANGED <<queueVars, call, status, completed, failed, failedIds, s3Vars, told,
                 cur, inTry, snap, faults>>

(* ... and writes the row from the counts it read. *)
MarkReady(w) ==
  /\ Goto(w, "ready", "notify")
  /\ status' = IF snap[w].completed = Total THEN "completed" ELSE "partial"
  /\ zipKey' = TRUE
  /\ Writes(w)
  /\ UNCHANGED <<queueVars, call, completed, failed, failedIds, s3Vars, told,
                 cur, inTry, snap, faults>>

(* The broker of a tenant without an address is not told. *)
NotifyBroker(w) ==
  /\ pc[w] = "notify"
  /\ \E hasEmail \in BOOLEAN :
       told' = (told \/ (hasEmail /\ snap[w].completed > 0))
  /\ Idle(w) /\ Complete(w, cur[w])
  /\ UNCHANGED <<call, rowVars, s3Vars, orderVars, faults>>

(* A statement after the PDF throws.  Inside the try block the policy is   *)
(* counted as failed, whatever was counted before; in the catch block the  *)
(* job fails.                                                              *)
HandlerThrows(w) ==
  /\ pc[w] \notin {"idle", "generate"}
  /\ Fault
  /\ IF inTry[w]
     THEN /\ pc' = [pc EXCEPT ![w] = "failed"]
          /\ inTry' = [inTry EXCEPT ![w] = FALSE]
          /\ UNCHANGED <<cur, snap, queueVars>>
     ELSE Idle(w) /\ Throw(w, cur[w])
  /\ UNCHANGED <<call, rowVars, s3Vars, told, orderVars>>

CrashWorker(w) ==
  /\ pc[w] # "idle"
  /\ Fault
  /\ Idle(w)
  /\ UNCHANGED <<queueVars, call, rowVars, s3Vars, told, orderVars>>

Recover(p) ==
  /\ \A w \in Workers : lock[p] = w => cur[w] # p
  /\ Reclaim(p)
  /\ UNCHANGED <<call, rowVars, s3Vars, told, workerVars, orderVars, faults>>

LoseLock(p) ==
  /\ \E w \in Workers : lock[p] = w /\ cur[w] = p
  /\ Fault
  /\ Reclaim(p)
  /\ UNCHANGED <<call, rowVars, s3Vars, told, workerVars, orderVars>>

-----------------------------------------------------------------------------
HandlerAction(w) ==
  \/ GeneratePdf(w) \/ IncrementCompleted(w) \/ IncrementFailed(w) \/ TryAssemble(w)
  \/ ReadExport(w) \/ MarkExportFailed(w) \/ BuildZip(w) \/ MarkReady(w)
  \/ NotifyBroker(w)

CallAction ==
  \/ SaveExport \/ MarkProcessing
  \/ \E p \in Policies : QueueJob(p)

Next ==
  \/ CallAction \/ CrashCall
  \/ \E w \in Workers :
       \/ HandlerAction(w) \/ PdfFails(w) \/ HandlerThrows(w) \/ CrashWorker(w)
       \/ \E p \in Policies : TakeJob(w, p)
  \/ \E p \in Policies : Recover(p) \/ LoseLock(p)

(* A request and a handler that have started go on; the queue hands out    *)
(* its jobs; the stalled-job checker runs.                                 *)
Fairness ==
  /\ WF_vars(CallAction)
  /\ \A w \in Workers : WF_vars(HandlerAction(w))
  /\ \A p \in Policies :
       WF_vars(Recover(p)) /\ SF_vars(\E w \in Workers : TakeJob(w, p))

Spec == Init /\ [][Next]_vars
FairSpec == Spec /\ Fairness

-----------------------------------------------------------------------------
Undisturbed == faults = 0

(* An export the API calls completed has every policy of the batch in its  *)
(* ZIP, although several jobs zip at once and each compares two counters   *)
(* only.  Two things break it: a job that is run twice or fails after it   *)
(* has counted its policy, and an assembly that writes what it has read    *)
(* when another has read more and written already                          *)
(* (fleet-pdf-export.service.ts:176-218).                                  *)
CompletedExportIsWhole ==
  Undisturbed /\ ~outrun /\ status = "completed" => zip = Policies

(* Once every job is done, an export that is finished says of the batch    *)
(* what became of it, although each job of it has written a status.        *)
LastWordIsTrue ==
  /\ Undisturbed /\ ~outrun
  /\ \A p \in Policies : job[p] = "completed"
  /\ status \in {"completed", "partial", "failed"}
  => /\ status = "completed" <=> failed = 0
     /\ status = "failed" <=> completed = 0

(* getDownloadUrl signs zipS3Key! of an export that is ready: whatever     *)
(* failed, the key is in the row then (fleet-pdf-export.service.ts:129),   *)
(* and without a disturbance the ZIP is not empty.                         *)
ReadyHasZip ==
  status \in {"completed", "partial"} => zipKey /\ (Undisturbed => zip # {})

(* The three together: what an export that is ready says is true           *)
(* (fleet-pdf-export.service.ts:120-218).                                  *)
ReadyIsTrue == CompletedExportIsWhole /\ LastWordIsTrue /\ ReadyHasZip

(* Each policy is finally counted, whatever job throws or stalls once.     *)
ProgressCompletes == call = "done" ~> completed + failed >= Total

(* The assembly comes to an end unless it is disturbed.                    *)
AssemblyEnds ==
  [](Undisturbed) => (status = "assembling" ~> status # "assembling")

(* A broker who was told that the export is ready can download it.         *)
ReadyMessageIsTrue == told => status \in {"completed", "partial"}
=============================================================================
