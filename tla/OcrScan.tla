------------------------------- MODULE OcrScan -------------------------------
(***************************************************************************)
(* One scan of a vehicle talon on the web: the wizard that takes the       *)
(* pictures (ocr-wizard.tsx), the hook that posts them and then polls      *)
(* (use-ocr-scanning.ts), the request (ocr.service.ts) with its fallback   *)
(* to Textract, and the queue jobs of the fallback (ocr.processor.ts).     *)
(* Polls are answered in any order, and one may be under way when the      *)
(* interval is cleared.  What OCR writes into the anonymous session is in  *)
(* ClientAccess.                                                           *)
(***************************************************************************)
EXTENDS Naturals

CONSTANTS
  Images,      \* sides of the document
  Polls        \* status requests the wizard makes

VARIABLES
  step,        \* wizard: sides photographed
  status, error, loading, told,
  timer, late, \* the interval is set; 35 seconds have passed since it was
  poll,        \* per poll: what its answer says
  row,         \* ocr_jobs.status
  rpc,         \* statement of the scan request
  textract     \* per image: its queue job

wizard == <<step, status, error, loading, told>>
polling == <<timer, late, poll>>
server == <<row, rpc, textract>>
vars == <<wizard, polling, server>>

TypeOK ==
  /\ step \subseteq Images
  /\ status \in {"none", "processing", "completed", "failed"}
  /\ error \in BOOLEAN /\ loading \in BOOLEAN /\ told \in BOOLEAN
  /\ timer \in BOOLEAN /\ late \in BOOLEAN
  /\ poll \in [Polls -> {"unsent", "sent", "processing", "completed", "failed", "lost", "done"}]
  /\ row \in {"none", "processing", "completed", "failed"}
  /\ rpc \in {"none", "sent", "vision", "session", "fallback", "queue", "give_up",
              "completed", "processing", "failed", "error", "done"}
  /\ textract \in [Images -> {"none", "queued", "refused", "thrown"}]

Init ==
  /\ step = {} /\ status = "none" /\ error = FALSE /\ loading = FALSE /\ told = FALSE
  /\ timer = FALSE /\ late = FALSE /\ poll = [p \in Polls |-> "unsent"]
  /\ row = "none" /\ rpc = "none" /\ textract = [i \in Images |-> "none"]

(* What the wizard shows: an error hides a result. *)
Screen ==
  CASE status = "failed" \/ error -> "failed"
    [] status = "completed"       -> "result"
    [] loading                    -> "wait"
    [] OTHER                      -> "camera"

-----------------------------------------------------------------------------
(* handleCapture; the last side posts the scan. *)
Capture(i) ==
  /\ Screen = "camera" /\ i \notin step
  /\ step' = step \union {i}
  /\ IF step' = Images
     THEN loading' = TRUE /\ rpc' = "sent"
     ELSE UNCHANGED <<loading, rpc>>
  /\ UNCHANGED <<status, error, told, polling, row, textract>>

Request(from, to) == rpc = from /\ rpc' = to

(* Rate limit and createJob. *)
CreateJob ==
  /\ \/ Request("sent", "vision") /\ row' = "processing"
     \/ Request("sent", "error") /\ UNCHANGED row
  /\ UNCHANGED <<wizard, polling, textract>>

AnalyzeImages ==
  /\ \/ Request("vision", "session") /\ row' = "completed"
     \/ Request("vision", "fallback") /\ UNCHANGED row
  /\ UNCHANGED <<wizard, polling, textract>>

(* Redis may fail outside the method's own try: the scan falls back to     *)
(* Textract although its row is completed.                                 *)
UpdateAnonymousSession ==
  /\ Request("session", "completed") \/ Request("session", "fallback")
  /\ UNCHANGED <<wizard, polling, row, textract>>

UploadImages ==
  /\ Request("fallback", "queue") \/ Request("fallback", "give_up")
  /\ UNCHANGED <<wizard, polling, row, textract>>

(* One analysis and one job per image; the first failure ends the request, *)
(* the other jobs stay queued.                                             *)
EnqueueTextract(i) ==
  /\ rpc \in {"queue", "give_up", "failed"} /\ textract[i] = "none"
  /\ \/ textract' = [textract EXCEPT ![i] = "queued"] /\ UNCHANGED rpc
     \/ textract' = [textract EXCEPT ![i] = "refused"] /\ Request("queue", "give_up")
  /\ UNCHANGED <<wizard, polling, row>>

AnswerProcessing ==
  /\ \A i \in Images : textract[i] \in {"queued", "thrown"}
  /\ Request("queue", "processing")
  /\ UNCHANGED <<wizard, polling, row, textract>>

GiveUp ==
  /\ \/ Request("give_up", "failed") /\ row' = "failed"
     \/ Request("give_up", "error") /\ UNCHANGED row
  /\ UNCHANGED <<wizard, polling, textract>>

(* A queue job has no tenant: whether Textract has results or not, the     *)
(* update of the row throws, and so does the one in the catch.             *)
ProcessTextract(i) ==
  /\ textract[i] = "queued"
  /\ textract' = [textract EXCEPT ![i] = "thrown"]
  /\ UNCHANGED <<wizard, polling, row, rpc>>

-----------------------------------------------------------------------------
(* The answer to the scan: anything but completed starts the polling. *)
ReceiveScan ==
  \/ /\ Request("completed", "done")
     /\ status' = "completed" /\ loading' = FALSE /\ told' = TRUE
     /\ UNCHANGED <<step, error, polling, row, textract>>
  \/ /\ \E s \in {"processing", "failed"} : Request(s, "done")
     /\ status' = "processing" /\ timer' = TRUE
     /\ UNCHANGED <<step, error, loading, told, late, poll, row, textract>>
  \/ /\ Request("error", "done")
     /\ status' = "failed" /\ error' = TRUE /\ loading' = FALSE
     /\ UNCHANGED <<step, told, polling, row, textract>>

TimePasses ==
  /\ timer /\ late' = TRUE
  /\ UNCHANGED <<wizard, timer, poll, server>>

Fail == status' = "failed" /\ error' = TRUE /\ loading' = FALSE

(* The callback of the interval. *)
GiveUpPolling ==
  /\ timer /\ late
  /\ timer' = FALSE /\ Fail
  /\ UNCHANGED <<step, told, late, poll, server>>

SendPoll(p) ==
  /\ timer /\ ~late /\ poll[p] = "unsent"
  /\ poll' = [poll EXCEPT ![p] = "sent"]
  /\ UNCHANGED <<wizard, timer, late, server>>

AnswerPoll(p) ==
  /\ poll[p] = "sent"
  /\ \E a \in {row, "lost"} : poll' = [poll EXCEPT ![p] = a]
  /\ UNCHANGED <<wizard, timer, late, server>>

(* Mutant: a poll that says processing ends the polling too. *)
ReceiveAny(p) ==
  /\ poll[p] \in {"processing", "completed", "failed", "lost"}
  /\ poll' = [poll EXCEPT ![p] = "done"]
  /\ CASE poll[p] = "completed" ->
            timer' = FALSE /\ status' = "completed" /\ loading' = FALSE /\ UNCHANGED error
       [] poll[p] = "failed" -> timer' = FALSE /\ Fail
       [] OTHER -> timer' = FALSE /\ UNCHANGED <<status, error, loading>>
  /\ UNCHANGED <<step, told, late, server>>

ReceivePoll(p) ==
  /\ poll[p] \in {"processing", "completed", "failed", "lost"}
  /\ poll' = [poll EXCEPT ![p] = "done"]
  /\ CASE poll[p] = "completed" ->
            timer' = FALSE /\ status' = "completed" /\ loading' = FALSE /\ UNCHANGED error
       [] poll[p] = "failed" -> timer' = FALSE /\ Fail
       [] OTHER -> UNCHANGED <<timer, status, error, loading>>
  /\ UNCHANGED <<step, told, late, server>>

-----------------------------------------------------------------------------
Serve ==
  \/ CreateJob \/ AnalyzeImages \/ UpdateAnonymousSession \/ UploadImages
  \/ AnswerProcessing \/ GiveUp \/ ReceiveScan
Tick == TimePasses \/ GiveUpPolling

Next ==
  \/ Serve \/ Tick
  \/ \E i \in Images : Capture(i) \/ EnqueueTextract(i) \/ ProcessTextract(i)
  \/ \E p \in Polls : SendPoll(p) \/ AnswerPoll(p) \/ ReceivePoll(p)

(* The request runs on, the jobs are enqueued or fail, and the interval    *)
(* fires.                                                                  *)
Fairness ==
  /\ WF_vars(Serve) /\ WF_vars(Tick)
  /\ \A i \in Images : WF_vars(EnqueueTextract(i))

Spec == Init /\ [][Next]_vars /\ Fairness

-----------------------------------------------------------------------------
(* A user who has photographed every side is shown a result or the manual  *)
(* entry, though a scan that fell back to Textract leaves its row as it is *)
(* for ever (use-ocr-scanning.ts:38-117, ocr.processor.ts:24-58).          *)
ScanEnds == step = Images ~> Screen \in {"result", "failed"}

(* A result on the screen is stored: no answer of a poll says completed    *)
(* and is followed by the give-up of a request that stored a result first  *)
(* (ocr.service.ts:75-109, 279-322).                                       *)
ResultIsStored == Screen = "result" => row = "completed"
=============================================================================
