------------------------------- MODULE MCOrder -------------------------------
(***************************************************************************)
(* What a customer waits for around a purchase, for TLC: the scan of the   *)
(* talon on the web and in the mobile application, the talon photographed  *)
(* on the quotes page, the application's calls, and the jobs an activation *)
(* queues for the documents and the sticker.  The six share no state, so   *)
(* their interleavings show nothing new: side says which of them a         *)
(* behaviour follows.                                                      *)
(***************************************************************************)
EXTENDS DocumentDelivery

CONSTANTS
  StickerJobs, Images, Polls, Calls,
  TotalSteps, MaxPhotos, MaxScans,   \* of OcrWizard
  Sides, Photos, Quads, Fields, Texts, Limit, Window, MaxPicks, MaxAsks,
  MaxClock    \* of TalonUpload

VARIABLES
  side, stickerJob, stickerTries, stickerStalls, stickerLock, shipments, parcels,
  skipped, manual, stickerPc, stickerCur, row, stickerFaults,
  step, status, error, loading, told, timer, late, poll, ocrRow, rpc, textract,
  page, token, refresh, call, kind, header, queue, callFaults,
  view, shown, photographs, corners, loaded, ready, auto, stream, shot, scans, sent,
  slipped, photos,
  slots, talonSlots, crop, formValues, typed, reading, panels, session, bucket,
  admitted, clock, retyped, changed, torn, picks, asks

stickerVars == <<stickerJob, stickerTries, stickerStalls, stickerLock, shipments,
                 parcels, skipped, manual, stickerPc, stickerCur, row, stickerFaults>>
scanVars == <<step, status, error, loading, told, timer, late, poll, ocrRow, rpc, textract>>
mobileVars == <<page, token, refresh, call, kind, header, queue, callFaults>>
wizardVars == <<view, shown, photographs, corners, loaded, ready, auto, stream, shot, scans,
                sent, slipped, photos>>
talonVars == <<slots, talonSlots, crop, formValues, typed, reading, panels, session, bucket,
               admitted, clock, retyped, changed, torn, picks, asks>>

Sticker == INSTANCE StickerDelivery WITH
  Jobs <- StickerJobs, job <- stickerJob, tries <- stickerTries,
  stalls <- stickerStalls, lock <- stickerLock, pc <- stickerPc,
  cur <- stickerCur, faults <- stickerFaults

Scan == INSTANCE OcrScan WITH row <- ocrRow

Mobile == INSTANCE MobileSession WITH
  sent <- header, faults <- callFaults

Wizard == INSTANCE OcrWizard WITH state <- view, images <- photographs

Talon == INSTANCE TalonUpload WITH Steps <- Sides, late <- retyped

OrderInit ==
  /\ side \in {"documents", "sticker", "scan", "mobile", "wizard", "talon"}
  /\ Init /\ Sticker!Init /\ Scan!Init /\ Mobile!Init /\ Wizard!Init
  /\ Talon!Init

OrderNext ==
  \/ /\ side = "documents" /\ Next
     /\ UNCHANGED <<side, stickerVars, scanVars, mobileVars, wizardVars, talonVars>>
  \/ /\ side = "sticker" /\ Sticker!Next
     /\ UNCHANGED <<side, vars, scanVars, mobileVars, wizardVars, talonVars>>
  \/ /\ side = "scan" /\ Scan!Next
     /\ UNCHANGED <<side, vars, stickerVars, mobileVars, wizardVars, talonVars>>
  \/ /\ side = "mobile" /\ Mobile!Next
     /\ UNCHANGED <<side, vars, stickerVars, scanVars, wizardVars, talonVars>>
  \/ /\ side = "wizard" /\ ~slipped /\ Wizard!Next
     /\ UNCHANGED <<side, vars, stickerVars, scanVars, mobileVars, talonVars>>
  \/ /\ side = "talon" /\ Talon!Next
     /\ picks' <= 1 \/ clock' = 0
     /\ (\A f \in Fields : typed'[f] = None) \/ (picks' <= 1 /\ clock' = 0)
     /\ UNCHANGED <<side, vars, stickerVars, scanVars, mobileVars, wizardVars>>

(* The wizard is followed until an event slips, the quotes page through a  *)
(* second cropping, a typed text or the passing of time (which the limit   *)
(* of the OCR service is about), one of them at a time.                    *)
(* The fairness of the sides that are not followed asks for nothing: none  *)
(* of their jobs, requests or calls has begun.  The wizard and the quotes  *)
(* page have none.                                                         *)
OrderSpec ==
  /\ OrderInit
  /\ [][OrderNext]_<<side, vars, stickerVars, scanVars, mobileVars, wizardVars, talonVars>>
  /\ Fairness /\ Sticker!Fairness /\ Scan!Fairness /\ Mobile!Fairness

(* On the two screens that show what was read of a talon, the wizard of    *)
(* the mobile application and the quotes page, every text, photo and       *)
(* refusal can be explained (OcrWizard, TalonUpload).                      *)
SidesExplained == Wizard!SidesExplained /\ Talon!UploadExplained

(* A sticker job that is over has sent a parcel, has asked the broker or   *)
(* was called off, and each parcel that is on record as sent, beyond the   *)
(* first, has its fault (StickerDelivery).                                 *)
NoStickerForgotten == Sticker!NoStickerForgotten
ParcelsExplained == Sticker!ParcelsExplained

(* Nobody who waits is left waiting: a scan ends with a result or the      *)
(* manual entry, and a call of the application ends, unless the refresh of *)
(* an expired token waits in the error queue behind itself                 *)
(* (use-ocr-scanning.ts:38-117, dio_client.dart:53-89).                    *)
NobodyLeftWaiting == Scan!ScanEnds /\ Mobile!CallsEnd
=============================================================================
