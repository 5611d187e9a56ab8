------------------------------ MODULE DataExport ------------------------------
(***************************************************************************)
(* A client's export of personal data (data-export.service.ts and its      *)
(* processor): the request, limited to one in 24 hours, and the job that   *)
(* builds a ZIP, stores it and mails the link.                             *)
(*                                                                         *)
(* The job reads the client, the vehicles, the policies and the payments   *)
(* through repositories that ask the request-scoped TenantContext for the  *)
(* tenant.  Only TenantMiddleware sets it, for HTTP requests; in a job it  *)
(* is empty and getTenantId throws.  JobsHaveTenant says whether a job     *)
(* finds one; the code as it stands never does.                            *)
(***************************************************************************)
EXTENDS BullQueue

CONSTANTS
  JobsHaveTenant,  \* a queue job has a tenant in its TenantContext
  MaxFaults        \* bound on failing statements, crashes and lost locks

Requests == Jobs     \* one job for each row of data_export_requests

VARIABLES
  call,     \* call[r]: where requestExport stands
  status,   \* status[r]: the row's status
  latest,   \* the client's newest row, while it is younger than 24 hours
  zips,     \* requests with a ZIP in S3
  mails,    \* requests whose link was mailed
  unmarked, \* requests whose final failure onFailed has not yet recorded
  pc, cur,  \* per worker: the handler's next statement, its request
  faults

exportVars == <<call, status, latest, zips, mails, unmarked>>
vars == <<queueVars, exportVars, pc, cur, faults>>

TypeOK ==
  /\ QueueTypeOK
  /\ call \in [Requests -> {"start", "create", "queue", "done", "refused"}]
  /\ status \in [Requests -> {"none", "pending", "processing", "completed", "failed"}]
  /\ latest \in Requests \union {None}
  /\ zips \subseteq Requests /\ mails \subseteq Requests /\ unmarked \subseteq Requests
  /\ pc \in [Workers -> {"idle", "processing", "build", "upload", "complete", "mail"}]
  /\ cur \in [Workers -> Requests \union {None}]
  /\ faults \in 0..MaxFaults

Init ==
  /\ QueueInit
  /\ call = [r \in Requests |-> "start"]
  /\ status = [r \in Requests |-> "none"]
  /\ latest = None
  /\ zips = {} /\ mails = {} /\ unmarked = {}
  /\ pc = [w \in Workers |-> "idle"]
  /\ cur = [w \in Workers |-> None]
  /\ faults = 0

Fault == faults < MaxFaults /\ faults' = faults + 1

-----------------------------------------------------------------------------
(* requestExport: the newest row, the insert and the job are three steps.  *)
CheckLatest(r) ==
  /\ call[r] = "start"
  /\ call' = [call EXCEPT ![r] = IF latest = None THEN "create" ELSE "refused"]
  /\ UNCHANGED <<queueVars, status, latest, zips, mails, unmarked, pc, cur, faults>>

CreateRequest(r) ==
  /\ call[r] = "create"
  /\ call' = [call EXCEPT ![r] = "queue"]
  /\ status' = [status EXCEPT ![r] = "pending"]
  /\ latest' = r
  /\ UNCHANGED <<queueVars, zips, mails, unmarked, pc, cur, faults>>

QueueExport(r) ==
  /\ call[r] = "queue"
  /\ call' = [call EXCEPT ![r] = "done"]
  /\ Add(r)
  /\ UNCHANGED <<status, latest, zips, mails, unmarked, pc, cur, faults>>

DayPasses ==
  /\ latest # None /\ latest' = None
  /\ UNCHANGED <<queueVars, call, status, zips, mails, unmarked, pc, cur, faults>>

-----------------------------------------------------------------------------
Goto(w, from, to) ==
  /\ pc[w] = from
  /\ pc' = [pc EXCEPT ![w] = to]

Idle(w) ==
  /\ pc' = [pc EXCEPT ![w] = "idle"]
  /\ cur' = [cur EXCEPT ![w] = None]

(* onFailed has work to do once the last attempt has failed. *)
Fails(w) ==
  /\ Idle(w) /\ Throw(w, cur[w])
  /\ unmarked' = IF lock[cur[w]] = w /\ tries[cur[w]] + 1 >= MaxAttempts
                 THEN unmarked \union {cur[w]} ELSE unmarked

TakeJob(w, r) ==
  /\ Goto(w, "idle", "processing")
  /\ Take(w, r)
  /\ cur' = [cur EXCEPT ![w] = r]
  /\ UNCHANGED <<exportVars, faults>>

MarkProcessing(w) ==
  /\ Goto(w, "processing", "build")
  /\ status' = [status EXCEPT ![cur[w]] = "processing"]
  /\ UNCHANGED <<queueVars, call, latest, zips, mails, unmarked, cur, faults>>

(* buildExportZip begins with lookups that need the tenant. *)
BuildExportZip(w) ==
  /\ pc[w] = "build"
  /\ \/ /\ JobsHaveTenant
        /\ Goto(w, "build", "upload")
        /\ UNCHANGED <<queueVars, cur, unmarked>>
     \/ ~JobsHaveTenant /\ Fails(w)
  /\ UNCHANGED <<call, status, latest, zips, mails, faults>>

UploadExportArchive(w) ==
  /\ Goto(w, "upload", "complete")
  /\ zips' = zips \union {cur[w]}
  /\ UNCHANGED <<queueVars, call, status, latest, mails, unmarked, cur, faults>>

MarkCompleted(w) ==
  /\ Goto(w, "complete", "mail")
  /\ status' = [status EXCEPT ![cur[w]] = "completed"]
  /\ UNCHANGED <<queueVars, call, latest, zips, mails, unmarked, cur, faults>>

(* A client without an address gets no mail. *)
SendReadyMail(w) ==
  /\ pc[w] = "mail"
  /\ mails' \in {mails, mails \union {cur[w]}}
  /\ Idle(w) /\ Complete(w, cur[w])
  /\ UNCHANGED <<call, status, latest, zips, unmarked, faults>>

OnFailed(r) ==
  /\ r \in unmarked /\ unmarked' = unmarked \ {r}
  /\ status' = [status EXCEPT ![r] = "failed"]
  /\ UNCHANGED <<queueVars, call, latest, zips, mails, pc, cur, faults>>

HandlerThrows(w) ==
  /\ pc[w] # "idle" /\ Fault
  /\ Fails(w)
  /\ UNCHANGED <<call, status, latest, zips, mails>>

CrashWorker(w) ==
  /\ pc[w] # "idle" /\ Fault
  /\ Idle(w)
  /\ UNCHANGED <<queueVars, exportVars>>

Recover(r) ==
  /\ \A w \in Workers : lock[r] = w => cur[w] # r
  /\ Reclaim(r)
  /\ UNCHANGED <<exportVars, pc, cur, faults>>

LoseLock(r) ==
  /\ \E w \in Workers : lock[r] = w /\ cur[w] = r
  /\ Fault
  /\ Reclaim(r)
  /\ UNCHANGED <<exportVars, pc, cur>>

-----------------------------------------------------------------------------
HandlerAction(w) ==
  \/ MarkProcessing(w) \/ BuildExportZip(w) \/ UploadExportArchive(w)
  \/ MarkCompleted(w) \/ SendReadyMail(w)

RequestAction(r) == CheckLatest(r) \/ CreateRequest(r) \/ QueueExport(r) \/ OnFailed(r)

Next ==
  \/ DayPasses
  \/ \E r \in Requests : RequestAction(r) \/ Recover(r) \/ LoseLock(r)
  \/ \E w \in Workers :
       \/ HandlerAction(w) \/ HandlerThrows(w) \/ CrashWorker(w)
       \/ \E r \in Requests : TakeJob(w, r)

(* A call and a handler that have started go on, the queue hands out its   *)
(* jobs; no client has to ask for an export.                               *)
Fairness ==
  /\ \A r \in Requests : WF_vars(call[r] # "start" /\ RequestAction(r)) /\ WF_vars(Recover(r))
  /\ \A r \in Requests : SF_vars(\E w \in Workers : TakeJob(w, r))
  /\ \A w \in Workers : WF_vars(HandlerAction(w))

Spec == Init /\ [][Next]_vars
FairSpec == Spec /\ Fairness

-----------------------------------------------------------------------------
(* What the answer to a request promises: "Вашият data export се подготвя. *)
(* Ще получите линк в рамките на 24 часа" (data-export.service.ts:81), so  *)
(* an export that is prepared ends with its ZIP behind the link.           *)
PreparedIsDelivered ==
  \A r \in Requests : call[r] = "done" ~> status[r] = "completed"
=============================================================================
